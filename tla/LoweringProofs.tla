--------------------------- MODULE LoweringProofs ---------------------------
(***************************************************************************)
(* Theorems about lowering every function: any tree, however large, any    *)
(* types, names, signatures and operators.                                 *)
(***************************************************************************)
EXTENDS Lowering, TacIRProofs, SequenceTheorems, FiniteSetTheorems

(***************************************************************************)
(* Lists, whatever their elements.                                         *)
(***************************************************************************)

IsList(s) == \E S : s \in Seq(S)

LEMMA ListLength ==
    ASSUME NEW s, IsList(s)
    PROVE  Len(s) \in Nat /\ DOMAIN s = 1..Len(s)
<1>1. PICK S : s \in Seq(S)
  BY DEF IsList
<1> QED BY <1>1

LEMMA EmptyList == IsList(<<>>) /\ Len(<<>>) = 0
<1>1. <<>> \in Seq({})
  OBVIOUS
<1> QED BY <1>1 DEF IsList

LEMMA ShortLists ==
    /\ \A a : IsList(<<a>>) /\ Len(<<a>>) = 1
    /\ \A a, b : IsList(<<a, b>>) /\ Len(<<a, b>>) = 2
    /\ \A a, b, c : IsList(<<a, b, c>>) /\ Len(<<a, b, c>>) = 3
    /\ \A a, b, c, d : IsList(<<a, b, c, d>>) /\ Len(<<a, b, c, d>>) = 4
<1>1. \A a : <<a>> \in Seq({a})
  OBVIOUS
<1>2. \A a, b : <<a, b>> \in Seq({a, b})
  OBVIOUS
<1>3. \A a, b, c : <<a, b, c>> \in Seq({a, b, c})
  OBVIOUS
<1>4. \A a, b, c, d : <<a, b, c, d>> \in Seq({a, b, c, d})
  OBVIOUS
<1> QED BY <1>1, <1>2, <1>3, <1>4 DEF IsList

LEMMA ListConcat ==
    ASSUME NEW s, NEW t, IsList(s), IsList(t)
    PROVE  /\ IsList(s \o t)
           /\ Len(s \o t) = Len(s) + Len(t)
           /\ \A i \in 1..Len(s) : (s \o t)[i] = s[i]
           /\ \A i \in 1..Len(t) : (s \o t)[Len(s) + i] = t[i]
<1>1. PICK S : s \in Seq(S)
  BY DEF IsList
<1>2. PICK T : t \in Seq(T)
  BY DEF IsList
<1>3. s \in Seq(S \cup T) /\ t \in Seq(S \cup T)
  BY <1>1, <1>2
<1>4. s \o t \in Seq(S \cup T)
  BY <1>3, ConcatProperties
<1> QED BY <1>3, <1>4, ConcatProperties DEF IsList

LEMMA ListAppend ==
    ASSUME NEW s, NEW e, IsList(s)
    PROVE  /\ IsList(Append(s, e))
           /\ Len(Append(s, e)) = Len(s) + 1
           /\ \A i \in 1..Len(s) : Append(s, e)[i] = s[i]
           /\ Append(s, e)[Len(s) + 1] = e
<1>1. PICK S : s \in Seq(S)
  BY DEF IsList
<1>2. s \in Seq(S \cup {e}) /\ e \in S \cup {e}
  BY <1>1
<1>3. Append(s, e) \in Seq(S \cup {e})
  BY <1>2, AppendProperties
<1> QED BY <1>2, <1>3, AppendProperties DEF IsList

LEMMA ListFront ==
    ASSUME NEW s, IsList(s), Len(s) >= 1
    PROVE  /\ IsList(SubSeq(s, 1, Len(s) - 1))
           /\ Len(SubSeq(s, 1, Len(s) - 1)) = Len(s) - 1
           /\ \A i \in 1..(Len(s) - 1) : SubSeq(s, 1, Len(s) - 1)[i] = s[i]
<1>1. PICK S : s \in Seq(S)
  BY DEF IsList
<1> DEFINE n == Len(s) - 1
<1>2. n \in Nat /\ n \in Int /\ 1 \in Int /\ \A i \in 1..n : s[i] \in S
  BY <1>1, ElementOfSeq
<1>3. /\ SubSeq(s, 1, n) \in Seq(S)
      /\ Len(SubSeq(s, 1, n)) = IF 1 <= n THEN n - 1 + 1 ELSE 0
      /\ \A i \in 1..(n - 1 + 1) : SubSeq(s, 1, n)[i] = s[1 + i - 1]
  <2> HIDE DEF n
  <2> QED BY <1>2, SubSeqProperties
<1>4. n = 0 => Len(SubSeq(s, 1, n)) = n
  BY <1>3
<1>5. 1 <= n => Len(SubSeq(s, 1, n)) = n
  BY <1>2, <1>3
<1>6. \A i \in 1..n : SubSeq(s, 1, n)[i] = s[i]
  <2> HIDE DEF n
  <2> QED BY <1>2, <1>3
<1>7. n = 0 \/ 1 <= n
  <2> HIDE DEF n
  <2> QED BY <1>2
<1>8. Len(SubSeq(s, 1, n)) = n
  BY <1>4, <1>5, <1>7
<1>9. IsList(SubSeq(s, 1, n))
  BY <1>3 DEF IsList
<1> QED BY <1>6, <1>8, <1>9

(***************************************************************************)
(* The actions, in three groups.                                           *)
(***************************************************************************)

StatementStep ==
    \/ LowerParameter \/ ParametersDone \/ StartBlock \/ EndBlock \/ EmptyStatement
    \/ \E x \in Names, t \in DeclTypes, i \in BOOLEAN : DeclarationStatement(x, t, i)
    \/ \E x \in Names, t \in DeclTypes : BadDeclaration(x, t)
    \/ ExpressionStatement \/ ReturnStatement \/ BareReturn \/ BadBareReturn
    \/ IfStatement \/ ThenDone \/ ThenElseDone \/ ElseDone
    \/ WhileStatement \/ WhileDone
    \/ \E hasInit \in BOOLEAN : ForStatement(hasInit)
    \/ \E hasCond \in BOOLEAN : ForInitDone(hasCond)
    \/ ForBodyDoneWithPost \/ ForBodyDone \/ EndFunction

ExpressionStep ==
    \/ \E c \in Literals : Literal(c) \/ BadLiteral(c)
    \/ \E x \in Names : Identifier(x) \/ AddressOfIdentifier(x)
                          \/ UndeclaredIdentifier(x)
    \/ BadTarget
    \/ Dereference \/ AddressOfDereference \/ BadDereference \/ AddressOf
    \/ \E op \in UnaryOps : Unary(op)
    \/ BadUnary
    \/ \E op \in BinaryOps : Binary(op)
    \/ \E op \in LogicalOps : Logical(op)
    \/ BadBinary \/ Assign \/ BadAssign
    \/ \E f \in Functions : StartCall(f)
    \/ BadCall \/ FinishCall \/ BadArguments

ContinuationStep ==
    \/ ExpressionStatementDone \/ InitializerDone \/ ReturnDone \/ VoidCondition
    \/ IfConditionDone \/ IfElseConditionDone \/ WhileConditionDone
    \/ ForConditionDone \/ ForPostDone

LEMMA Steps ==
    ASSUME [Next]_vars
    PROVE  StatementStep \/ ExpressionStep \/ ContinuationStep \/ UNCHANGED vars
BY DEF Next, Terminated, StatementStep, ExpressionStep, ContinuationStep

(***************************************************************************)
(* Names: every instruction that defines a name takes its number from the  *)
(* counter.                                                                *)
(***************************************************************************)

\* The name is none, or has a number from first up to, not including, next.
Numbered(o, first, next) ==
    o = NoOperand \/ \E n \in Nat : /\ first <= n /\ n < next
                                    /\ o = Temp(n) \/ o = StackSlot(n)

\* Instructions that define such names, each of them once.
Fresh(s, first, next) ==
    /\ IsList(s)
    /\ \A i \in 1..Len(s) : s[i].kind = "op" => Numbered(s[i].dst, first, next)
    /\ \A i, j \in 1..Len(s) :
          /\ s[i].kind = "op" /\ s[j].kind = "op"
          /\ s[i].dst # NoOperand /\ s[i].dst = s[j].dst
          => i = j

\* The invariant: the code is fresh below the counter.
NamesBelowCounter ==
    /\ header \in Headers
    /\ nextTempID \in Nat
    /\ Fresh(code, 0, nextTempID)

\* What a step does to the code: nothing, all is thrown away, or instructions
\* are appended whose names were counted.
Appends(s) ==
    /\ code' = code \o s
    /\ nextTempID' \in Nat /\ nextTempID <= nextTempID'
    /\ Fresh(s, nextTempID, nextTempID')
Builds ==
    /\ header' = header
    /\ \/ UNCHANGED <<code, nextTempID>>
       \/ code' = <<>> /\ nextTempID' = 0
       \/ \E s : Appends(s)

LEMMA NumbersDiffer ==
    \A m, n \in Nat :
        /\ Temp(m) = Temp(n) => m = n
        /\ StackSlot(m) = StackSlot(n) => m = n
        /\ Temp(m) # StackSlot(n)
        /\ Temp(m) # NoOperand /\ StackSlot(m) # NoOperand
<1>1. \A o, p : o = p => o.text = p.text /\ o.kind = p.kind
  OBVIOUS
<1>2. \A n \in Nat : /\ Temp(n).text = <<"t", n>> /\ StackSlot(n).text = <<"s", n>>
                     /\ Temp(n).kind = "temp" /\ StackSlot(n).kind = "slot"
  BY DEF Temp, StackSlot, Operand
<1>3. NoOperand.kind = "none"
  BY DEF NoOperand, Operand
<1>4. \A m, n \in Nat : /\ <<"t", m>> = <<"t", n>> => m = n
                        /\ <<"s", m>> = <<"s", n>> => m = n
  OBVIOUS
<1> QED BY <1>1, <1>2, <1>3, <1>4

\* Appending fresh instructions to fresh ones gives fresh ones.
LEMMA FreshConcat ==
    ASSUME NEW c, NEW s, NEW m \in Nat, NEW n \in Nat, m <= n,
           Fresh(c, 0, m), Fresh(s, m, n)
    PROVE  Fresh(c \o s, 0, n)
<1> DEFINE d == c \o s
<1>1. IsList(c) /\ IsList(s)
  BY DEF Fresh
<1>2. /\ IsList(d) /\ Len(d) = Len(c) + Len(s)
      /\ \A i \in 1..Len(c) : d[i] = c[i]
      /\ \A i \in 1..Len(s) : d[Len(c) + i] = s[i]
  BY <1>1, ListConcat
<1>3. Len(c) \in Nat /\ Len(s) \in Nat
  BY <1>1, ListLength
<1> HIDE DEF d
<1>4. \A i \in 1..Len(d) : \/ i \in 1..Len(c) /\ d[i] = c[i]
                           \/ /\ i - Len(c) \in 1..Len(s) /\ i \notin 1..Len(c)
                              /\ d[i] = s[i - Len(c)]
  <2> SUFFICES ASSUME NEW i \in 1..Len(d), i \notin 1..Len(c)
               PROVE  i - Len(c) \in 1..Len(s) /\ d[i] = s[i - Len(c)]
    BY <1>2
  <2>1. i - Len(c) \in 1..Len(s) /\ i = Len(c) + (i - Len(c))
    BY <1>2, <1>3
  <2> QED BY <1>2, <2>1
<1>5. \A o : Numbered(o, 0, m) => Numbered(o, 0, n)
  BY DEF Numbered
<1>6. \A o : Numbered(o, m, n) => Numbered(o, 0, n)
  BY DEF Numbered
<1>7. \A o : Numbered(o, 0, m) /\ Numbered(o, m, n) => o = NoOperand
  <2> SUFFICES ASSUME NEW o, Numbered(o, 0, m), Numbered(o, m, n), o # NoOperand
               PROVE  FALSE
    OBVIOUS
  <2>1. PICK j \in Nat : j < m /\ (o = Temp(j) \/ o = StackSlot(j))
    BY DEF Numbered
  <2>2. PICK k \in Nat : m <= k /\ (o = Temp(k) \/ o = StackSlot(k))
    BY DEF Numbered
  <2>3. j = k
    BY <2>1, <2>2, NumbersDiffer
  <2> QED BY <2>1, <2>2, <2>3
<1>8. \A i \in 1..Len(d) : d[i].kind = "op" => Numbered(d[i].dst, 0, n)
  BY <1>4, <1>5, <1>6 DEF Fresh
<1>9. ASSUME NEW i \in 1..Len(d), NEW j \in 1..Len(d),
             d[i].kind = "op", d[j].kind = "op", d[i].dst # NoOperand, d[i].dst = d[j].dst
      PROVE  i = j
  <2>1. CASE i \in 1..Len(c) /\ j \in 1..Len(c)
    <3>1. d[i] = c[i] /\ d[j] = c[j]
      BY <1>4, <2>1
    <3> QED BY <1>9, <2>1, <3>1 DEF Fresh
  <2>2. CASE i \notin 1..Len(c) /\ j \notin 1..Len(c)
    <3> DEFINE x == i - Len(c)
               y == j - Len(c)
    <3>1. x \in 1..Len(s) /\ y \in 1..Len(s) /\ d[i] = s[x] /\ d[j] = s[y]
      BY <1>4, <2>2
    <3>2. x = y => i = j
      BY <1>3
    <3> HIDE DEF x, y
    <3>3. x = y
      BY <1>9, <3>1 DEF Fresh
    <3> QED BY <3>2, <3>3
  <2>3. CASE i \in 1..Len(c) /\ j \notin 1..Len(c)
    <3> DEFINE y == j - Len(c)
    <3>1. d[i] = c[i] /\ y \in 1..Len(s) /\ d[j] = s[y]
      BY <1>4, <2>3
    <3> HIDE DEF y
    <3>2. Numbered(d[i].dst, 0, m) /\ Numbered(d[j].dst, m, n)
      BY <1>9, <2>3, <3>1 DEF Fresh
    <3> QED BY <1>7, <1>9, <3>2
  <2>4. CASE i \notin 1..Len(c) /\ j \in 1..Len(c)
    <3> DEFINE x == i - Len(c)
    <3>1. d[j] = c[j] /\ x \in 1..Len(s) /\ d[i] = s[x]
      BY <1>4, <2>4
    <3> HIDE DEF x
    <3>2. Numbered(d[j].dst, 0, m) /\ Numbered(d[i].dst, m, n)
      BY <1>9, <2>4, <3>1 DEF Fresh
    <3> QED BY <1>7, <1>9, <3>2
  <2> QED BY <2>1, <2>2, <2>3, <2>4
<1> QED BY <1>2, <1>8, <1>9 DEF Fresh, d

\* A step that builds code keeps the names below the counter.
LEMMA BuildsKeepsNames ==
    ASSUME NamesBelowCounter, Builds
    PROVE  NamesBelowCounter'
<1>1. CASE UNCHANGED <<code, nextTempID>>
  BY <1>1 DEF NamesBelowCounter, Builds
<1>2. CASE code' = <<>> /\ nextTempID' = 0
  <2>1. Fresh(<<>>, 0, 0)
    BY EmptyList DEF Fresh
  <2> QED BY <1>2, <2>1 DEF NamesBelowCounter, Builds
<1>3. CASE \E s : Appends(s)
  <2>1. PICK s : Appends(s)
    BY <1>3
  <2>2. nextTempID \in Nat /\ nextTempID' \in Nat /\ nextTempID <= nextTempID'
        /\ Fresh(code, 0, nextTempID) /\ Fresh(s, nextTempID, nextTempID')
    BY <2>1 DEF Appends, NamesBelowCounter
  <2>3. Fresh(code \o s, 0, nextTempID')
    BY <2>2, FreshConcat
  <2> QED BY <2>1, <2>2, <2>3 DEF NamesBelowCounter, Builds, Appends
<1> QED BY <1>1, <1>2, <1>3 DEF Builds

(***************************************************************************)
(* The lists of instructions the actions append.                           *)
(***************************************************************************)

NoOps(s) == IsList(s) /\ \A i \in 1..Len(s) : s[i].kind # "op"

LEMMA InstructionParts ==
    /\ \A l : Label(l).kind = "label" /\ Jmp(l).kind = "jmp"
    /\ \A c, t, f : Br(c, t, f).kind = "br"
    /\ \A v : Ret(v).kind = "ret"
    /\ \A o, d, ops : Op(o, d, ops).kind = "op" /\ Op(o, d, ops).dst = d
    /\ \A f, d, ops : Call(f, d, ops).kind = "op" /\ Call(f, d, ops).dst = d
BY DEF Label, Jmp, Br, Ret, Op, Call

LEMMA NoOpsLists ==
    /\ NoOps(<<>>)
    /\ \A a : a.kind # "op" => NoOps(<<a>>)
    /\ \A a, b : a.kind # "op" /\ b.kind # "op" => NoOps(<<a, b>>)
    /\ \A s, t : NoOps(s) /\ NoOps(t) => NoOps(s \o t)
<1>1. NoOps(<<>>)
  BY EmptyList DEF NoOps
<1>2. \A a : a.kind # "op" => NoOps(<<a>>)
  BY ShortLists DEF NoOps
<1>3. \A a, b : a.kind # "op" /\ b.kind # "op" => NoOps(<<a, b>>)
  <2> SUFFICES ASSUME NEW a, NEW b, a.kind # "op", b.kind # "op"
               PROVE  NoOps(<<a, b>>)
    OBVIOUS
  <2>1. \A i \in 1..2 : <<a, b>>[i] = a \/ <<a, b>>[i] = b
    OBVIOUS
  <2> QED BY <2>1, ShortLists DEF NoOps
<1>4. ASSUME NEW s, NEW t, NoOps(s), NoOps(t) PROVE NoOps(s \o t)
  <2> DEFINE d == s \o t
  <2>1. /\ IsList(d) /\ Len(d) = Len(s) + Len(t)
        /\ \A i \in 1..Len(s) : d[i] = s[i]
        /\ \A i \in 1..Len(t) : d[Len(s) + i] = t[i]
        /\ Len(s) \in Nat /\ Len(t) \in Nat
    BY <1>4, ListConcat, ListLength DEF NoOps
  <2> HIDE DEF d
  <2>2. ASSUME NEW i \in 1..Len(d) PROVE d[i].kind # "op"
    <3>1. CASE i \in 1..Len(s)
      BY <1>4, <2>1, <3>1 DEF NoOps
    <3>2. CASE i \notin 1..Len(s)
      <4>1. i - Len(s) \in 1..Len(t) /\ i = Len(s) + (i - Len(s))
        BY <2>1, <3>2
      <4>2. d[i] = t[i - Len(s)]
        BY <2>1, <4>1
      <4> QED BY <1>4, <4>1, <4>2 DEF NoOps
    <3> QED BY <3>1, <3>2
  <2> QED BY <2>1, <2>2 DEF NoOps, d
<1> QED BY <1>1, <1>2, <1>3, <1>4

LEMMA JmpIfHasNoOps ==
    ASSUME NEW r, NEW l
    PROVE  NoOps(JmpIf(r, l))
BY NoOpsLists, InstructionParts DEF JmpIf

\* Instructions without a name leave the counter alone.
LEMMA NoOpsBuild ==
    ASSUME NamesBelowCounter, header' = header, UNCHANGED nextTempID,
           NEW s, NoOps(s), code' = code \o s
    PROVE  Builds
<1>1. Fresh(s, nextTempID, nextTempID')
  BY DEF NoOps, Fresh
<1>2. Appends(s)
  BY <1>1 DEF Appends, NamesBelowCounter
<1> QED BY <1>2 DEF Builds

\* One operation, which takes the next number or has no destination.
LEMMA OneOpBuilds ==
    ASSUME NamesBelowCounter, header' = header,
           NEW op, op.kind = "op", code' = code \o <<op>>,
           \/ op.dst = Temp(nextTempID) /\ nextTempID' = nextTempID + 1
           \/ op.dst = NoOperand /\ UNCHANGED nextTempID
    PROVE  Builds
<1>1. nextTempID \in Nat /\ nextTempID' \in Nat /\ nextTempID <= nextTempID'
  BY DEF NamesBelowCounter
<1>2. Numbered(op.dst, nextTempID, nextTempID')
  BY <1>1 DEF Numbered
<1>3. Fresh(<<op>>, nextTempID, nextTempID')
  BY <1>2, ShortLists DEF Fresh
<1>4. Appends(<<op>>)
  BY <1>1, <1>3 DEF Appends
<1> QED BY <1>4 DEF Builds

\* The allocation of a variable, and what is stored in it.
LEMMA VariableBuilds ==
    ASSUME NamesBelowCounter, header' = header, nextTempID' = nextTempID + 2,
           NEW a, a.kind = "op", a.dst = StackSlot(nextTempID + 1),
           NEW s, s = <<a>> \/ \E b : b.kind = "op" /\ b.dst = NoOperand /\ s = <<a, b>>,
           code' = code \o s
    PROVE  Builds
<1> DEFINE n == nextTempID
<1>1. n \in Nat /\ nextTempID' \in Nat /\ n <= nextTempID' /\ n + 1 \in Nat
  BY DEF NamesBelowCounter
<1>2. Numbered(a.dst, n, nextTempID') /\ Numbered(NoOperand, n, nextTempID')
  <2>1. n <= n + 1 /\ n + 1 < nextTempID'
    BY <1>1
  <2> QED BY <1>1, <2>1 DEF Numbered
<1>3. /\ IsList(s)
      /\ \A i \in 1..Len(s) :
            s[i].kind = "op" /\ ((i = 1 /\ s[i] = a) \/ s[i].dst = NoOperand)
  <2>1. CASE s = <<a>>
    BY <2>1, ShortLists
  <2>2. CASE \E b : b.kind = "op" /\ b.dst = NoOperand /\ s = <<a, b>>
    <3>1. PICK b : b.kind = "op" /\ b.dst = NoOperand /\ s = <<a, b>>
      BY <2>2
    <3>2. IsList(s) /\ Len(s) = 2
      BY <3>1, ShortLists
    <3>3. s[1] = a /\ s[2] = b
      BY <3>1
    <3>4. \A i \in 1..2 : i = 1 \/ i = 2
      OBVIOUS
    <3> QED BY <3>1, <3>2, <3>3, <3>4
  <2> QED BY <2>1, <2>2
<1>4. Fresh(s, n, nextTempID')
  BY <1>2, <1>3 DEF Fresh
<1>5. Appends(s)
  BY <1>1, <1>4 DEF Appends
<1> QED BY <1>5 DEF Builds

\* The three operations of && and ||.
LEMMA ThreeOpsBuild ==
    ASSUME NamesBelowCounter, header' = header, nextTempID' = nextTempID + 3,
           NEW a, NEW b, NEW c, a.kind = "op", b.kind = "op", c.kind = "op",
           a.dst = Temp(nextTempID), b.dst = Temp(nextTempID + 1),
           c.dst = Temp(nextTempID + 2), code' = code \o <<a, b, c>>
    PROVE  Builds
<1> DEFINE n == nextTempID
           s == <<a, b, c>>
<1>1. n \in Nat /\ nextTempID' \in Nat /\ n <= nextTempID' /\ n + 1 \in Nat /\ n + 2 \in Nat
  BY DEF NamesBelowCounter
<1>2. IsList(s) /\ Len(s) = 3 /\ s[1] = a /\ s[2] = b /\ s[3] = c
  BY ShortLists
<1> HIDE DEF s
<1>3. \A i \in 1..Len(s) :
          /\ s[i].kind = "op"
          /\ n + (i - 1) \in Nat /\ s[i].dst = Temp(n + (i - 1))
          /\ n <= n + (i - 1) /\ n + (i - 1) < nextTempID'
  <2>1. \A i \in 1..3 : i = 1 \/ i = 2 \/ i = 3
    OBVIOUS
  <2>2. n + (1 - 1) = n /\ n + (2 - 1) = n + 1 /\ n + (3 - 1) = n + 2
    BY <1>1
  <2>3. ASSUME NEW i \in 1..Len(s)
        PROVE  s[i].kind = "op" /\ s[i].dst = Temp(n + (i - 1))
    BY <1>2, <2>1, <2>2
  <2> QED BY <1>1, <1>2, <2>3
<1>4. \A i \in 1..Len(s) : Numbered(s[i].dst, n, nextTempID')
  BY <1>3 DEF Numbered
<1>5. \A i, j \in 1..Len(s) : s[i].dst = s[j].dst => i = j
  <2> SUFFICES ASSUME NEW i \in 1..Len(s), NEW j \in 1..Len(s), s[i].dst = s[j].dst
               PROVE  i = j
    OBVIOUS
  <2>1. n + (i - 1) = n + (j - 1)
    BY <1>3, NumbersDiffer
  <2> QED BY <1>1, <1>2, <2>1
<1>6. Fresh(s, n, nextTempID')
  BY <1>2, <1>3, <1>4, <1>5 DEF Fresh
<1>7. Appends(s)
  BY <1>1, <1>6 DEF Appends, s
<1> QED BY <1>7 DEF Builds

LEMMA RejectBuilds ==
    ASSUME NEW d, Reject(d)
    PROVE  Builds
BY DEF Reject, Builds

\* Statements, scopes and parameters.
LEMMA StatementsBuild ==
    ASSUME NamesBelowCounter,
           StatementStep
    PROVE  Builds
<1>0. \A f, v : LET sym == NewVariable(f) IN
        /\ Alloca(sym).kind = "op" /\ Alloca(sym).dst = StackSlot(nextTempID + 1)
        /\ Store(sym.slot, v).kind = "op" /\ Store(sym.slot, v).dst = NoOperand
  BY InstructionParts DEF Alloca, Store, NewVariable, Symbol
<1>1. CASE LowerParameter
  <2> DEFINE p == Head(params)
             sym == NewVariable(LowerType(p.type))
  <2>1. CASE DeclarationError(p.name, sym.type) # NoDiagnostic
    BY <1>1, <2>1, RejectBuilds DEF LowerParameter
  <2>2. CASE DeclarationError(p.name, sym.type) = NoDiagnostic
    <3>1. /\ code' = code \o <<Alloca(sym), Store(sym.slot, Param(p.name))>>
          /\ nextTempID' = nextTempID + 2 /\ header' = header
      BY <1>1, <2>2 DEF LowerParameter, Emit
    <3> QED BY <1>0, <3>1, VariableBuilds
  <2> QED BY <2>1, <2>2
<1>2. CASE ParametersDone \/ StartBlock \/ EndBlock \/ EmptyStatement
           \/ ExpressionStatement \/ ReturnStatement \/ IfStatement
  BY <1>2 DEF ParametersDone, StartBlock, EndBlock, EmptyStatement, ExpressionStatement,
              ReturnStatement, IfStatement, unchangedByStatements, Builds
<1>3. ASSUME NEW x \in Names, NEW t \in DeclTypes, NEW i \in BOOLEAN,
             DeclarationStatement(x, t, i)
      PROVE  Builds
  <2> DEFINE sym == NewVariable(LowerType(t))
  <2>1. /\ code' = code \o <<Alloca(sym)>>
        /\ nextTempID' = nextTempID + 2 /\ header' = header
    BY <1>3 DEF DeclarationStatement, Emit, unchangedByStatements
  <2> QED BY <1>0, <2>1, VariableBuilds
<1>4. ASSUME NEW x \in Names, NEW t \in DeclTypes, BadDeclaration(x, t)
      PROVE  Builds
  BY <1>4, RejectBuilds DEF BadDeclaration
<1>5. CASE BareReturn
  BY <1>5, NoOpsLists, InstructionParts, NoOpsBuild
     DEF BareReturn, Emit, unchangedByStatements
<1>6. CASE BadBareReturn
  BY <1>6, RejectBuilds DEF BadBareReturn
<1>7. CASE ThenDone
  <2>1. NoOps(JmpIf(reachable, top.end) \o <<Label(top.end)>>)
    BY NoOpsLists, JmpIfHasNoOps, InstructionParts
  <2> QED BY <1>7, <2>1, NoOpsBuild DEF ThenDone, Emit, unchangedByStatements
<1>8. CASE ThenElseDone
  <2>1. NoOps(JmpIf(reachable, top.end) \o <<Label(top.alt)>>)
    BY NoOpsLists, JmpIfHasNoOps, InstructionParts
  <2> QED BY <1>8, <2>1, NoOpsBuild DEF ThenElseDone, Emit, unchangedByStatements
<1>9. CASE ElseDone
  <2> DEFINE end == IF top.flag \/ reachable THEN <<Label(top.end)>> ELSE <<>>
  <2>1. NoOps(JmpIf(reachable, top.end) \o end)
    <3>1. NoOps(end)
      BY NoOpsLists, InstructionParts
    <3> QED BY <3>1, NoOpsLists, JmpIfHasNoOps
  <2> QED BY <1>9, <2>1, NoOpsBuild DEF ElseDone, Emit, unchangedByStatements
<1>10. CASE WhileStatement
  BY <1>10, NoOpsLists, InstructionParts, NoOpsBuild
     DEF WhileStatement, Emit, unchangedByStatements
<1>11. CASE WhileDone
  <2>1. NoOps(JmpIf(reachable, top.head) \o <<Label(top.end)>>)
    BY NoOpsLists, JmpIfHasNoOps, InstructionParts
  <2> QED BY <1>11, <2>1, NoOpsBuild DEF WhileDone, Emit, unchangedByStatements
<1>12. ASSUME NEW hasInit \in BOOLEAN, ForStatement(hasInit) PROVE Builds
  BY <1>12 DEF ForStatement, unchangedByStatements, Builds
<1>13. ASSUME NEW hasCond \in BOOLEAN, ForInitDone(hasCond) PROVE Builds
  <2> DEFINE enter == <<Jmp(nextLabelID), Label(nextLabelID)>>
             body  == <<Jmp(nextLabelID + 1), Label(nextLabelID + 1)>>
  <2>1. NoOps(enter) /\ NoOps(body) /\ NoOps(enter \o body)
    BY NoOpsLists, InstructionParts
  <2>2. /\ code' = code \o enter \/ code' = code \o (enter \o body)
        /\ header' = header /\ UNCHANGED nextTempID
    BY <1>13 DEF ForInitDone, Emit, unchangedByStatements
  <2> QED BY <2>1, <2>2, NoOpsBuild
<1>14. CASE ForBodyDoneWithPost
  BY <1>14, NoOpsLists, InstructionParts, NoOpsBuild
     DEF ForBodyDoneWithPost, Emit, unchangedByStatements
<1>15. CASE ForBodyDone
  <2> DEFINE all == JmpIf(reachable, top.alt) \o <<Label(top.alt)>>
                      \o JmpIf(reachable, top.head) \o <<Label(top.end)>>
  <2>1. NoOps(all)
    BY NoOpsLists, JmpIfHasNoOps, InstructionParts
  <2>2. code' = code \o all /\ header' = header /\ UNCHANGED nextTempID
    BY <1>15 DEF ForBodyDone, Emit, unchangedByStatements
  <2> QED BY <2>1, <2>2, NoOpsBuild
<1>16. CASE EndFunction
  <2>1. CASE reachable /\ header.ret.spec # "void"
    BY <1>16, <2>1, RejectBuilds DEF EndFunction
  <2>2. CASE ~(reachable /\ header.ret.spec # "void")
    <3> DEFINE end == IF reachable THEN <<Ret(NoOperand)>> ELSE <<>>
    <3>1. NoOps(end)
      BY NoOpsLists, InstructionParts
    <3>2. code' = code \o end /\ header' = header /\ UNCHANGED nextTempID
      BY <1>16, <2>2 DEF EndFunction, Emit, unchangedByStatements
    <3> QED BY <3>1, <3>2, NoOpsBuild
  <2> QED BY <2>1, <2>2
<1> QED BY <1>1, <1>2, <1>3, <1>4, <1>5, <1>6, <1>7, <1>8, <1>9, <1>10, <1>11, <1>12,
           <1>13, <1>14, <1>15, <1>16 DEF StatementStep

LEMMA ComputeBuilds ==
    ASSUME NamesBelowCounter, header' = header,
           NEW n, NEW op, NEW operands, NEW type, Compute(n, op, operands, type)
    PROVE  Builds
BY OneOpBuilds, InstructionParts DEF Compute, Emit

\* Expressions.
LEMMA ExpressionsBuild ==
    ASSUME NamesBelowCounter,
           ExpressionStep
    PROVE  Builds
<1>1. ASSUME NEW c \in Literals, Literal(c) PROVE Builds
  BY <1>1, OneOpBuilds, InstructionParts DEF Literal, Emit, unchangedByExpressions
<1>2. ASSUME NEW x \in Names, Identifier(x) PROVE Builds
  BY <1>2, OneOpBuilds, InstructionParts DEF Identifier, Emit, unchangedByExpressions
<1>3. ASSUME NEW x \in Names, AddressOfIdentifier(x) PROVE Builds
  BY <1>3 DEF AddressOfIdentifier, unchangedByExpressions, Builds
<1>4. CASE AddressOfDereference \/ AddressOf
  BY <1>4 DEF AddressOfDereference, AddressOf, unchangedByExpressions, Builds
<1>5. CASE \/ \E c \in Literals : BadLiteral(c)
           \/ \E x \in Names : UndeclaredIdentifier(x)
           \/ BadTarget \/ BadDereference \/ BadUnary \/ BadBinary \/ BadAssign \/ BadCall
           \/ BadArguments
  BY <1>5, RejectBuilds
     DEF BadLiteral, UndeclaredIdentifier, BadTarget, BadDereference, BadUnary, BadBinary,
         BadAssign, BadCall, BadArguments
<1>6. CASE Dereference
  BY <1>6, ComputeBuilds DEF Dereference, unchangedByExpressions
<1>7. ASSUME NEW op \in UnaryOps, Unary(op) PROVE Builds
  <2>1. header' = header
    BY <1>7 DEF Unary, unchangedByExpressions
  <2>2. UNCHANGED <<code, nextTempID>> \/ Compute(1, op, <<Top(1).operand>>, I32)
    BY <1>7 DEF Unary
  <2> QED BY <2>1, <2>2, ComputeBuilds DEF Builds
<1>8. ASSUME NEW op \in BinaryOps, Binary(op) PROVE Builds
  BY <1>8, ComputeBuilds DEF Binary, unchangedByExpressions
<1>9. ASSUME NEW op \in LogicalOps, Logical(op) PROVE Builds
  <2> DEFINE zero == Immediate(<<"n", 0>>)
             lhs  == Temp(nextTempID)
             rhs  == Temp(nextTempID + 1)
             res  == Temp(nextTempID + 2)
             a    == Op("ne", lhs, <<Top(2).operand, zero>>)
             b   == Op("ne", rhs, <<Top(1).operand, zero>>)
             c    == Op(op, res, <<lhs, rhs>>)
  <2>1. code' = code \o <<a, b, c>> /\ header' = header /\ nextTempID' = nextTempID + 3
    BY <1>9 DEF Logical, Emit, unchangedByExpressions
  <2>2. /\ a.kind = "op" /\ b.kind = "op" /\ c.kind = "op"
        /\ a.dst = lhs /\ b.dst = rhs /\ c.dst = res
    BY InstructionParts
  <2> HIDE DEF a, b, c
  <2> QED BY <2>1, <2>2, ThreeOpsBuild
<1>10. CASE Assign
  BY <1>10, OneOpBuilds, InstructionParts DEF Assign, Emit, unchangedByExpressions
<1>11. ASSUME NEW f \in Functions, StartCall(f) PROVE Builds
  BY <1>11 DEF StartCall, unchangedByExpressions, Builds
<1>12. CASE FinishCall
  <2> DEFINE f    == vals[innermost].callee
             ret  == Signatures[f].ret
             dst  == IF ret = Void THEN NoOperand ELSE Temp(nextTempID)
             args == [i \in DOMAIN Arguments |-> Arguments[i].operand]
  <2>1. /\ code' = code \o <<Call(f, dst, args)>> /\ header' = header
        /\ nextTempID' = nextTempID + IF ret = Void THEN 0 ELSE 1
    BY <1>12 DEF FinishCall, Emit, unchangedByExpressions
  <2>2. nextTempID + 0 = nextTempID
    BY DEF NamesBelowCounter
  <2>3. Call(f, dst, args).kind = "op" /\ Call(f, dst, args).dst = dst
    BY InstructionParts
  <2>4. \/ dst = NoOperand /\ nextTempID' = nextTempID
        \/ dst = Temp(nextTempID) /\ nextTempID' = nextTempID + 1
    BY <2>1, <2>2
  <2> HIDE DEF f, ret, dst, args
  <2> QED BY <2>1, <2>3, <2>4, OneOpBuilds
<1> QED BY <1>1, <1>2, <1>3, <1>4, <1>5, <1>6, <1>7, <1>8, <1>9, <1>10, <1>11, <1>12
       DEF ExpressionStep

\* What follows a complete expression.
LEMMA ContinuationsBuild ==
    ASSUME NamesBelowCounter,
           ContinuationStep
    PROVE  Builds
<1>1. CASE ExpressionStatementDone
  BY <1>1 DEF ExpressionStatementDone, unchangedByContinuations, Builds
<1>2. CASE InitializerDone
  <2>1. \/ Reject("initializer type mismatch")
        \/ /\ code' = code \o <<Store(top.decl.slot, Top(1).operand)>>
           /\ header' = header /\ UNCHANGED nextTempID
    BY <1>2 DEF InitializerDone, Emit, unchangedByContinuations
  <2>2. /\ Store(top.decl.slot, Top(1).operand).kind = "op"
        /\ Store(top.decl.slot, Top(1).operand).dst = NoOperand
    BY InstructionParts DEF Store
  <2>3. CASE Reject("initializer type mismatch")
    BY <2>3, RejectBuilds
  <2>4. CASE /\ code' = code \o <<Store(top.decl.slot, Top(1).operand)>>
             /\ header' = header /\ UNCHANGED nextTempID
    BY <2>2, <2>4, OneOpBuilds
  <2> QED BY <2>1, <2>3, <2>4
<1>3. CASE ReturnDone
  <2>1. \/ Reject("return type mismatch")
        \/ /\ code' = code \o <<Ret(Top(1).operand)>>
           /\ header' = header /\ UNCHANGED nextTempID
    BY <1>3 DEF ReturnDone, Emit, unchangedByContinuations
  <2> QED BY <2>1, RejectBuilds, NoOpsBuild, NoOpsLists, InstructionParts
<1>4. CASE VoidCondition
  BY <1>4, RejectBuilds DEF VoidCondition
<1>5. ASSUME NEW f, NEW b, NEW frame, EnterBody(f, b, frame) PROVE Builds
  BY <1>5, NoOpsBuild, NoOpsLists, InstructionParts
     DEF EnterBody, Emit, unchangedByContinuations
<1>6. CASE IfConditionDone \/ IfElseConditionDone \/ WhileConditionDone \/ ForConditionDone
  BY <1>5, <1>6
     DEF IfConditionDone, IfElseConditionDone, WhileConditionDone, ForConditionDone
<1>7. CASE ForPostDone
  BY <1>7, NoOpsBuild, NoOpsLists, InstructionParts
     DEF ForPostDone, Emit, unchangedByContinuations
<1> QED BY <1>1, <1>2, <1>3, <1>4, <1>6, <1>7 DEF ContinuationStep

LEMMA EveryStepBuilds ==
    ASSUME NamesBelowCounter, [Next]_vars
    PROVE  Builds
<1>1. CASE UNCHANGED vars
  BY <1>1 DEF vars, Builds
<1> QED BY <1>1, Steps, StatementsBuild, ExpressionsBuild, ContinuationsBuild

\* The parameters are named like variables, not like the code's own values.
ParametersAreVariables == Names \subseteq {"v"} \X STRING

\* Lowering gives every name one definition, and none of them is a parameter's,
\* for every tree; nextTempID is one counter for temporaries and slots.
THEOREM NamesDefinedOnce ==
    ASSUME ParametersAreVariables
    PROVE  Spec => []SingleDefinition
<1>1. Init => NamesBelowCounter
  BY EmptyList DEF Init, NamesBelowCounter, Fresh
<1>2. NamesBelowCounter /\ [Next]_vars => NamesBelowCounter'
  BY EveryStepBuilds, BuildsKeepsNames
<1>3. NamesBelowCounter => SingleDefinition
  <2> SUFFICES ASSUME NamesBelowCounter PROVE SingleDefinition
    OBVIOUS
  <2>1. DOMAIN code = 1..Len(code)
    BY ListLength DEF NamesBelowCounter, Fresh
  <2>2. ASSUME NEW i \in DOMAIN code, NEW k \in DOMAIN header.params, code[i].kind = "op"
        PROVE  code[i].dst.text # header.params[k].name
    <3>1. header.params \in Seq(Parameters)
      BY HeadersAssumption DEF NamesBelowCounter
    <3>2. header.params[k] \in Parameters
      BY <2>2, <3>1
    <3>3. header.params[k].name \in Names
      BY <3>2 DEF Parameters
    <3>4. \A p \in {"v"} \X STRING : p[1] = "v"
      OBVIOUS
    <3>5. header.params[k].name[1] = "v"
      BY <3>3, <3>4 DEF ParametersAreVariables
    <3>6. Numbered(code[i].dst, 0, nextTempID)
      BY <2>1, <2>2 DEF NamesBelowCounter, Fresh
    <3>7. /\ NoOperand.text[1] = "none"
          /\ \A n \in Nat : Temp(n).text[1] = "t" /\ StackSlot(n).text[1] = "s"
      BY DEF NoOperand, Temp, StackSlot, Operand
    <3>8. code[i].dst.text[1] \in {"none", "t", "s"}
      BY <3>6, <3>7 DEF Numbered
    <3> QED BY <3>5, <3>8
  <2> QED BY <2>1, <2>2 DEF SingleDefinition, NamesBelowCounter, Fresh
<1> QED BY <1>1, <1>2, <1>3, PTL DEF Spec

(***************************************************************************)
(* Frames and scopes.                                                      *)
(***************************************************************************)

Working == {"params", "after", "stmt", "expr"}

\* The frames that have a scope.
ScopeSet(fs) == {i \in 1..Len(fs) : fs[i].kind \in ScopeKinds}

\* A frame is a record that has a kind.
IsFrame(f) == "kind" \in DOMAIN f

\* The stack of a function: its frame at the bottom and nowhere else, and on
\* the first clause of a for only an expression or a declaration, so that the
\* clause completes.
Nested(fs) ==
    /\ IsList(fs)
    /\ \A i \in 1..Len(fs) : IsFrame(fs[i])
    /\ \A i \in 1..Len(fs) : fs[i].kind = "function" <=> i = 1
    /\ \A i \in 1..(Len(fs) - 1) :
          fs[i].kind = "forInit" => fs[i + 1].kind \in {"expr", "decl"}

\* The invariant behind ScopesMatchFrames.
FramesNest ==
    /\ Nested(frames) /\ IsList(scopes)
    /\ mode \in Working => Len(frames) >= 1
    /\ mode = "params" => reachable
    /\ mode = "after" /\ top.kind = "forInit" => reachable
    /\ Len(scopes) = Cardinality(ScopeSet(frames))

\* What a step does to the two stacks.
Abandons == frames' = <<>> /\ scopes' = <<>> /\ mode' \notin Working
Stays ==
    /\ frames' = frames
    /\ Len(scopes') = Len(scopes)
    /\ mode' \in Working => mode \in Working
    /\ mode' = "params" => reachable'
    /\ mode' = "after" /\ top.kind = "forInit" => reachable'
Pushes(f) ==
    /\ mode \in Working
    /\ frames' = Append(frames, f)
    /\ IsFrame(f) /\ f.kind # "function"
    /\ top.kind = "forInit" => f.kind \in {"expr", "decl"}
    /\ Len(scopes') = Len(scopes) + IF f.kind \in ScopeKinds THEN 1 ELSE 0
    /\ mode' = "stmt" \/ mode' = "expr" \/ (mode' = "after" /\ reachable')
Pops ==
    /\ mode \in Working
    /\ frames' = Pop
    /\ Len(scopes') = Len(scopes) - IF top.kind \in ScopeKinds THEN 1 ELSE 0
    /\ \/ mode' = "lowered" /\ top.kind = "function"
       \/ /\ mode' = "after" /\ top.kind # "function"
          /\ reachable' \/ top.kind \notin {"expr", "decl"}
Replaces(f) ==
    /\ mode \in Working
    /\ frames' = ReplaceTop(f)
    /\ Len(scopes') = Len(scopes)
    /\ IsFrame(f)
    /\ {top.kind, f.kind} \cap {"function", "expr", "decl"} = {}
    /\ top.kind \in ScopeKinds <=> f.kind \in ScopeKinds
    /\ mode' \in {"stmt", "expr"}
MovesFrames ==
    /\ IsList(scopes')
    /\ \/ Abandons \/ Stays \/ Pops
       \/ \E f : Pushes(f) \/ Replaces(f)

\* The set counted changes by the frame on top only.
LEMMA ScopeSetFacts ==
    ASSUME NEW fs, IsList(fs)
    PROVE  /\ IsFiniteSet(ScopeSet(fs))
           /\ Cardinality(ScopeSet(fs)) \in Nat
           /\ Len(fs) >= 1 /\ fs[1].kind \in ScopeKinds => Cardinality(ScopeSet(fs)) >= 1
<1>1. ScopeSet(fs) \subseteq 1..Len(fs) /\ Len(fs) \in Nat
  BY ListLength DEF ScopeSet
<1>2. IsFiniteSet(ScopeSet(fs))
  <2>1. 1 \in Int /\ Len(fs) \in Int
    BY <1>1
  <2>2. IsFiniteSet(1..Len(fs))
    BY <2>1, FS_Interval
  <2> QED BY <1>1, <2>2, FS_Subset
<1>3. Cardinality(ScopeSet(fs)) \in Nat
  BY <1>2, FS_CardinalityType
<1>4. ASSUME Len(fs) >= 1, fs[1].kind \in ScopeKinds
      PROVE  Cardinality(ScopeSet(fs)) >= 1
  <2>1. 1 \in ScopeSet(fs)
    BY <1>1, <1>4 DEF ScopeSet
  <2>2. Cardinality(ScopeSet(fs)) # 0
    BY <1>2, <2>1, FS_EmptySet
  <2> QED BY <1>3, <2>2
<1> QED BY <1>2, <1>3, <1>4

LEMMA CountPush ==
    ASSUME NEW fs, IsList(fs), NEW f
    PROVE  Cardinality(ScopeSet(Append(fs, f)))
             = Cardinality(ScopeSet(fs)) + IF f.kind \in ScopeKinds THEN 1 ELSE 0
<1> DEFINE n == Len(fs) + 1
<1>1. /\ Len(Append(fs, f)) = n /\ Append(fs, f)[n] = f
      /\ \A i \in 1..Len(fs) : Append(fs, f)[i] = fs[i]
      /\ Len(fs) \in Nat
  BY ListAppend, ListLength
<1>2. 1..n = (1..Len(fs)) \cup {n} /\ n \notin 1..Len(fs)
  BY <1>1
<1> HIDE DEF n
<1>3. n \notin ScopeSet(fs)
  BY <1>2 DEF ScopeSet
<1>4. CASE f.kind \in ScopeKinds
  <2>1. ScopeSet(Append(fs, f)) = ScopeSet(fs) \cup {n}
    BY <1>1, <1>2, <1>4 DEF ScopeSet
  <2> QED BY <1>3, <1>4, <2>1, ScopeSetFacts, FS_AddElement
<1>5. CASE f.kind \notin ScopeKinds
  <2>1. ScopeSet(Append(fs, f)) = ScopeSet(fs)
    BY <1>1, <1>2, <1>5 DEF ScopeSet
  <2> QED BY <1>5, <2>1, ScopeSetFacts
<1> QED BY <1>4, <1>5

\* Removing the last frame undoes the push that put it there.
LEMMA CountPop ==
    ASSUME NEW fs, IsList(fs), Len(fs) >= 1
    PROVE  Cardinality(ScopeSet(fs))
             = Cardinality(ScopeSet(SubSeq(fs, 1, Len(fs) - 1)))
                 + IF fs[Len(fs)].kind \in ScopeKinds THEN 1 ELSE 0
<1> DEFINE front == SubSeq(fs, 1, Len(fs) - 1)
           n == Len(fs)
<1>1. /\ IsList(front) /\ Len(front) = n - 1 /\ n \in Nat
      /\ \A i \in 1..(n - 1) : front[i] = fs[i]
  BY ListFront, ListLength
<1>2. 1..n = (1..(n - 1)) \cup {n} /\ n \notin 1..(n - 1)
  BY <1>1
<1> HIDE DEF front
<1>3. n \notin ScopeSet(front)
  BY <1>1, <1>2 DEF ScopeSet
<1>4. CASE fs[n].kind \in ScopeKinds
  <2>1. ScopeSet(fs) = ScopeSet(front) \cup {n}
    BY <1>1, <1>2, <1>4 DEF ScopeSet
  <2> QED BY <1>1, <1>3, <1>4, <2>1, ScopeSetFacts, FS_AddElement DEF front
<1>5. CASE fs[n].kind \notin ScopeKinds
  <2>1. ScopeSet(fs) = ScopeSet(front)
    BY <1>1, <1>2, <1>5 DEF ScopeSet
  <2> QED BY <1>1, <1>5, <2>1, ScopeSetFacts DEF front
<1> QED BY <1>4, <1>5

LEMMA NestedEmpty == Nested(<<>>) /\ ScopeSet(<<>>) = {} /\ Cardinality(ScopeSet(<<>>)) = 0
BY EmptyList, FS_EmptySet DEF Nested, ScopeSet

LEMMA NestedPush ==
    ASSUME NEW fs, Nested(fs), Len(fs) >= 1, NEW f, IsFrame(f), f.kind # "function",
           fs[Len(fs)].kind = "forInit" => f.kind \in {"expr", "decl"}
    PROVE  /\ Nested(Append(fs, f))
           /\ Len(Append(fs, f)) = Len(fs) + 1
           /\ Append(fs, f)[Len(Append(fs, f))] = f
<1> DEFINE g == Append(fs, f)
           n == Len(fs)
<1>1. /\ IsList(g) /\ Len(g) = n + 1 /\ g[n + 1] = f
      /\ \A i \in 1..n : g[i] = fs[i]
      /\ n \in Nat /\ n >= 1
  BY ListAppend, ListLength DEF Nested
<1> HIDE DEF g
<1>2. \A i \in 1..n : fs[i].kind = "function" <=> i = 1
  BY DEF Nested
<1>3. \A i \in 1..(n - 1) : fs[i].kind = "forInit" => fs[i + 1].kind \in {"expr", "decl"}
  BY DEF Nested
<1> HIDE DEF n
<1>4. \A i \in 1..(n + 1) : g[i].kind = "function" <=> i = 1
  <2> SUFFICES ASSUME NEW i \in 1..(n + 1) PROVE g[i].kind = "function" <=> i = 1
    OBVIOUS
  <2>1. CASE i = n + 1
    BY <1>1, <2>1
  <2>2. CASE i # n + 1
    <3>1. i \in 1..n
      BY <1>1, <2>2
    <3> QED BY <1>1, <1>2, <3>1
  <2> QED BY <2>1, <2>2
<1>5. \A i \in 1..n : g[i].kind = "forInit" => g[i + 1].kind \in {"expr", "decl"}
  <2> SUFFICES ASSUME NEW i \in 1..n, g[i].kind = "forInit"
               PROVE  g[i + 1].kind \in {"expr", "decl"}
    OBVIOUS
  <2>1. CASE i = n
    BY <1>1, <2>1 DEF n
  <2>2. CASE i # n
    <3>1. i \in 1..(n - 1) /\ i + 1 \in 1..n
      BY <1>1, <2>2
    <3> QED BY <1>1, <1>3, <3>1
  <2> QED BY <2>1, <2>2
<1>6. n = n + 1 - 1
  BY <1>1
<1>7. \A i \in 1..(n + 1) : IsFrame(g[i])
  <2>1. \A i \in 1..(n + 1) : i \in 1..n \/ i = n + 1
    BY <1>1
  <2>2. \A i \in 1..n : IsFrame(fs[i])
    BY DEF Nested, n
  <2> QED BY <1>1, <2>1, <2>2
<1> QED BY <1>1, <1>4, <1>5, <1>6, <1>7 DEF Nested, g, n

LEMMA NestedFront ==
    ASSUME NEW fs, Nested(fs), Len(fs) >= 1
    PROVE  /\ Nested(SubSeq(fs, 1, Len(fs) - 1))
           /\ Len(SubSeq(fs, 1, Len(fs) - 1)) = Len(fs) - 1
           /\ \A i \in 1..(Len(fs) - 1) : SubSeq(fs, 1, Len(fs) - 1)[i] = fs[i]
<1> DEFINE g == SubSeq(fs, 1, Len(fs) - 1)
           n == Len(fs)
<1>1. /\ IsList(g) /\ Len(g) = n - 1 /\ n \in Nat /\ n >= 1
      /\ \A i \in 1..(n - 1) : g[i] = fs[i]
  BY ListFront, ListLength DEF Nested
<1> HIDE DEF g
<1>2. \A i \in 1..n : fs[i].kind = "function" <=> i = 1
  BY DEF Nested
<1>3. \A i \in 1..(n - 1) : fs[i].kind = "forInit" => fs[i + 1].kind \in {"expr", "decl"}
  BY DEF Nested
<1> HIDE DEF n
<1>4. \A i \in 1..(n - 1) : g[i].kind = "function" <=> i = 1
  BY <1>1, <1>2
<1>5. \A i \in 1..(n - 1 - 1) : g[i].kind = "forInit" => g[i + 1].kind \in {"expr", "decl"}
  <2> SUFFICES ASSUME NEW i \in 1..(n - 1 - 1), g[i].kind = "forInit"
               PROVE  g[i + 1].kind \in {"expr", "decl"}
    OBVIOUS
  <2>1. i \in 1..(n - 1) /\ i + 1 \in 1..(n - 1)
    BY <1>1
  <2> QED BY <1>1, <1>3, <2>1
<1>6. \A i \in 1..(n - 1) : IsFrame(g[i])
  <2>1. \A i \in 1..(n - 1) : i \in 1..n
    BY <1>1
  <2> QED BY <1>1, <2>1 DEF Nested, n
<1> QED BY <1>1, <1>4, <1>5, <1>6 DEF Nested, g, n

\* The frame below one that is no first clause of a for is no for that waits for it.
LEMMA BelowTop ==
    ASSUME NEW fs, Nested(fs), Len(fs) >= 2, fs[Len(fs)].kind \notin {"expr", "decl"}
    PROVE  fs[Len(fs) - 1].kind # "forInit"
<1>1. Len(fs) \in Nat
  BY ListLength DEF Nested
<1>2. Len(fs) - 1 \in 1..(Len(fs) - 1) /\ (Len(fs) - 1) + 1 = Len(fs)
  BY <1>1
<1> QED BY <1>2 DEF Nested

LEMMA NestedTop ==
    ASSUME NEW fs, Nested(fs), Len(fs) >= 1
    PROVE  fs[Len(fs)].kind = "function" <=> Len(fs) = 1
<1>1. Len(fs) \in 1..Len(fs)
  BY ListLength DEF Nested
<1> QED BY <1>1 DEF Nested

LEMMA MovesKeepFrames ==
    ASSUME FramesNest, MovesFrames
    PROVE  FramesNest'
<1> DEFINE n == Len(frames)
<1>0. /\ Nested(frames) /\ IsList(frames) /\ n \in Nat
      /\ Len(scopes) \in Nat /\ Len(scopes) = Cardinality(ScopeSet(frames))
  BY ListLength DEF FramesNest, Nested
<1>1. CASE Abandons
  BY <1>1, NestedEmpty, EmptyList DEF Abandons, FramesNest, MovesFrames, Working
<1>2. CASE Stays
  BY <1>2 DEF Stays, FramesNest, MovesFrames, top
<1>3. ASSUME NEW f, Pushes(f) PROVE FramesNest'
  <2>1. n >= 1 /\ Nested(Append(frames, f)) /\ Len(Append(frames, f)) = n + 1
        /\ Append(frames, f)[Len(Append(frames, f))] = f
    BY <1>0, <1>3, NestedPush DEF Pushes, FramesNest, top
  <2>2. Nested(frames') /\ Len(frames') >= 1 /\ top' = f
    BY <1>0, <1>3, <2>1 DEF Pushes, top
  <2>3. Len(scopes') = Cardinality(ScopeSet(frames'))
    BY <1>0, <1>3, CountPush DEF Pushes
  <2>4. mode' # "params" /\ (mode' = "after" => reachable')
    BY <1>3 DEF Pushes
  <2> QED BY <2>2, <2>3, <2>4 DEF FramesNest, MovesFrames
<1>4. CASE Pops
  <2>1. n >= 1 /\ mode \in Working
    BY <1>4 DEF Pops, FramesNest
  <2>2. /\ Nested(Pop) /\ Len(Pop) = n - 1
        /\ \A i \in 1..(n - 1) : Pop[i] = frames[i]
    BY <1>0, <2>1, NestedFront DEF Pop
  <2>3. frames' = Pop /\ top = frames[n]
    BY <1>4 DEF Pops, top
  <2>4. Cardinality(ScopeSet(Pop)) \in Nat
    BY <2>2, ScopeSetFacts DEF Nested
  <2>5. Cardinality(ScopeSet(frames))
          = Cardinality(ScopeSet(Pop)) + IF top.kind \in ScopeKinds THEN 1 ELSE 0
    BY <1>0, <2>1, <2>3, CountPop DEF Pop
  <2>6. Len(scopes') = Cardinality(ScopeSet(Pop))
    BY <1>0, <1>4, <2>4, <2>5 DEF Pops
  <2>7. CASE mode' = "lowered"
    BY <2>2, <2>3, <2>6, <2>7 DEF FramesNest, MovesFrames, Working
  <2>8. CASE mode' # "lowered"
    <3>1. mode' = "after" /\ top.kind # "function"
          /\ (reachable' \/ top.kind \notin {"expr", "decl"})
      BY <1>4, <2>8 DEF Pops
    <3>2. n >= 2
      <4>1. n # 1
        BY <1>0, <2>1, <2>3, <3>1, NestedTop
      <4> HIDE DEF n
      <4> QED BY <1>0, <2>1, <4>1
    <3>3. Len(Pop) >= 1 /\ top' = frames[n - 1]
      <4>1. n - 1 \in 1..(n - 1)
        BY <1>0, <3>2
      <4> QED BY <2>2, <2>3, <4>1 DEF top
    <3>4. top'.kind = "forInit" => reachable'
      BY <1>0, <2>3, <3>1, <3>2, <3>3, BelowTop
    <3> QED BY <2>2, <2>3, <2>6, <3>1, <3>3, <3>4 DEF FramesNest, MovesFrames
  <2> QED BY <2>7, <2>8
<1>5. ASSUME NEW f, Replaces(f) PROVE FramesNest'
  <2>1. n >= 1 /\ mode \in Working /\ top = frames[n]
    BY <1>5 DEF Replaces, FramesNest, top
  <2>2. /\ Nested(Pop) /\ Len(Pop) = n - 1
        /\ \A i \in 1..(n - 1) : Pop[i] = frames[i]
    BY <1>0, <2>1, NestedFront DEF Pop
  <2>3. n >= 2
    <3>1. n # 1
      BY <1>0, <1>5, <2>1, NestedTop DEF Replaces
    <3> HIDE DEF n
    <3> QED BY <1>0, <2>1, <3>1
  <2>4. Pop[Len(Pop)].kind # "forInit" /\ Len(Pop) >= 1
    <3>1. n - 1 \in 1..(n - 1)
      BY <1>0, <2>3
    <3>2. top.kind \notin {"expr", "decl"}
      BY <1>5 DEF Replaces
    <3>3. frames[n - 1].kind # "forInit"
      BY <1>0, <2>1, <2>3, <3>2, BelowTop
    <3> QED BY <2>2, <2>3, <3>1, <3>3
  <2>5. frames' = Append(Pop, f) /\ IsFrame(f) /\ f.kind # "function"
    BY <1>5 DEF Replaces, ReplaceTop
  <2>6. Nested(frames') /\ Len(frames') = n
    <3>1. Len(Pop) + 1 = n
      BY <1>0, <2>2
    <3> QED BY <2>2, <2>4, <2>5, <3>1, NestedPush
  <2>7. Cardinality(ScopeSet(frames')) = Cardinality(ScopeSet(frames))
    <3>1. Cardinality(ScopeSet(frames'))
            = Cardinality(ScopeSet(Pop)) + IF f.kind \in ScopeKinds THEN 1 ELSE 0
      BY <2>2, <2>5, CountPush DEF Nested
    <3>2. Cardinality(ScopeSet(frames))
            = Cardinality(ScopeSet(Pop)) + IF top.kind \in ScopeKinds THEN 1 ELSE 0
      BY <1>0, <2>1, CountPop DEF Pop
    <3> QED BY <1>5, <3>1, <3>2 DEF Replaces
  <2> QED BY <1>0, <1>5, <2>1, <2>6, <2>7 DEF FramesNest, MovesFrames, Replaces
<1> QED BY <1>1, <1>2, <1>3, <1>4, <1>5 DEF MovesFrames

\* Pushing, popping and declaring in scopes.
LEMMA ScopeMoves ==
    ASSUME FramesNest, mode \in Working
    PROVE  /\ Len(scopes) \in Nat /\ Len(scopes) >= 1
           /\ PushScope => IsList(scopes') /\ Len(scopes') = Len(scopes) + 1
           /\ PopScope => IsList(scopes') /\ Len(scopes') = Len(scopes) - 1
           /\ \A x, sym : DeclareLocal(x, sym) =>
                  IsList(scopes') /\ Len(scopes') = Len(scopes)
           /\ UNCHANGED scopes => IsList(scopes') /\ Len(scopes') = Len(scopes)
<1>1. IsList(scopes) /\ IsList(frames) /\ Len(frames) >= 1 /\ Len(frames) \in Nat
  BY ListLength DEF FramesNest, Nested
<1>2. Len(scopes) \in Nat /\ Len(scopes) >= 1
  <2>1. frames[1].kind = "function"
    BY <1>1 DEF FramesNest, Nested
  <2>2. frames[1].kind \in ScopeKinds
    BY <2>1 DEF ScopeKinds, BlockKinds
  <2> QED BY <1>1, <2>2, ScopeSetFacts DEF FramesNest
<1>3. PushScope => IsList(scopes') /\ Len(scopes') = Len(scopes) + 1
  BY <1>1, ListAppend DEF PushScope
<1>4. PopScope => IsList(scopes') /\ Len(scopes') = Len(scopes) - 1
  BY <1>1, <1>2, ListFront DEF PopScope
<1>5. ASSUME NEW x, NEW sym, DeclareLocal(x, sym)
      PROVE  IsList(scopes') /\ Len(scopes') = Len(scopes)
  <2> DEFINE n == Len(scopes)
             e == [scopes[n] EXCEPT ![x] = sym]
  <2>1. PICK S : scopes \in Seq(S)
    BY <1>1 DEF IsList
  <2>2. scopes \in Seq(S \cup {e}) /\ e \in S \cup {e} /\ n \in 1..Len(scopes)
    BY <1>2, <2>1
  <2>3. scopes' = [scopes EXCEPT ![n] = e]
    BY <1>5 DEF DeclareLocal
  <2> HIDE DEF n, e
  <2>4. [scopes EXCEPT ![n] = e] \in Seq(S \cup {e})
        /\ Len([scopes EXCEPT ![n] = e]) = Len(scopes)
    BY <2>2, ExceptSeq
  <2> QED BY <2>3, <2>4 DEF IsList
<1>6. UNCHANGED scopes => IsList(scopes') /\ Len(scopes') = Len(scopes)
  BY <1>1
<1> QED BY <1>2, <1>3, <1>4, <1>5, <1>6

\* The kind of a new frame, and of a frame that takes another kind.
HasKind(f, k) == IsFrame(f) /\ f.kind = k

LEMMA FrameKind ==
    ASSUME NEW k
    PROVE  /\ HasKind(Frame(k), k)
           /\ \A d : HasKind([Frame(k) EXCEPT !.decl = d], k)
           /\ \A h, b, e : HasKind([Frame(k) EXCEPT !.head = h, !.body = b, !.end = e], k)
           /\ \A h, b, a, e :
                  HasKind([Frame(k) EXCEPT !.head = h, !.body = b, !.alt = a, !.end = e], k)
           /\ \A e : HasKind([Frame(k) EXCEPT !.end = e], k)
           /\ \A e, a : HasKind([Frame(k) EXCEPT !.end = e, !.alt = a], k)
BY DEF Frame, HasKind, IsFrame

LEMMA TopKind ==
    ASSUME FramesNest, mode \in Working, NEW k
    PROVE  /\ HasKind([top EXCEPT !.kind = k, !.alt = NoLabel, !.flag = reachable], k)
           /\ HasKind([top EXCEPT !.kind = k, !.alt = NoLabel], k)
           /\ HasKind([top EXCEPT !.kind = k, !.body = NoLabel], k)
<1>1. Len(frames) \in 1..Len(frames)
  BY ListLength DEF FramesNest, Nested
<1>2. IsFrame(top)
  BY <1>1 DEF FramesNest, Nested, top
<1> QED BY <1>2 DEF HasKind, IsFrame

LEMMA RejectMovesFrames ==
    ASSUME NEW d, Reject(d)
    PROVE  MovesFrames
BY EmptyList DEF Reject, MovesFrames, Abandons, Working

\* Starting a statement is possible only where one may stand.
LEMMA StartFacts ==
    ASSUME StartStatement \/ StartSimpleStatement
    PROVE  /\ mode \in Working /\ mode # "params"
           /\ StartStatement => top.kind # "forInit"
           /\ mode = "stmt" \/ (mode = "after" /\ reachable /\ top.kind \in BlockKinds)
<1>1. \/ mode = "after" /\ reachable /\ top.kind \in BlockKinds
      \/ mode = "stmt" /\ (StartStatement => top.kind # "forInit")
  <2>1. CASE InBlock
    BY <2>1 DEF InBlock
  <2>2. CASE ~InBlock
    <3>1. NeedStmt
      BY <2>2 DEF StartStatement, StartSimpleStatement
    <3>2. StartStatement => top.kind # "forInit"
      BY <2>2 DEF StartStatement
    <3> QED BY <3>1, <3>2 DEF NeedStmt
  <2> QED BY <2>1, <2>2
<1>2. "forInit" \notin BlockKinds
  BY DEF BlockKinds
<1>3. mode = "after" \/ mode = "stmt" => mode \in Working /\ mode # "params"
  BY DEF Working
<1>4. StartStatement => top.kind # "forInit"
  BY <1>1, <1>2
<1> QED BY <1>1, <1>3, <1>4

\* A frame gives way to the next one of the same statement.
LEMMA ReplaceMovesFrames ==
    ASSUME FramesNest, mode \in Working, UNCHANGED scopes, mode' \in {"stmt", "expr"},
           NEW f, NEW k, HasKind(f, k), frames' = ReplaceTop(f),
           \/ top.kind \in ForKinds /\ k \in ForKinds
           \/ /\ top.kind \in {"ifCond", "whileCond", "thenElse"}
              /\ k \in {"then", "thenElse", "else", "while"}
    PROVE  MovesFrames
<1>1. Replaces(f)
  BY ScopeMoves DEF Replaces, ScopeKinds, BlockKinds, ForKinds, HasKind
<1> QED BY <1>1, ScopeMoves DEF MovesFrames

\* The end of a for drops its frame and its scope.
LEMMA LeaveForMovesFrames ==
    ASSUME FramesNest, mode \in Working, top.kind \in ForKinds, LeaveFor
    PROVE  MovesFrames
<1>1. Pops
  BY ScopeMoves DEF LeaveFor, StatementDone, Pops, ScopeKinds, ForKinds
<1> QED BY <1>1, ScopeMoves DEF LeaveFor, MovesFrames

LEMMA StatementsMoveFrames ==
    ASSUME FramesNest, StatementStep
    PROVE  MovesFrames
<1>1. CASE LowerParameter
  <2> DEFINE p == Head(params)
             sym == NewVariable(LowerType(p.type))
  <2>1. CASE DeclarationError(p.name, sym.type) # NoDiagnostic
    BY <1>1, <2>1, RejectMovesFrames DEF LowerParameter
  <2>2. CASE DeclarationError(p.name, sym.type) = NoDiagnostic
    <3>1. /\ DeclareLocal(p.name, sym) /\ frames' = frames
          /\ mode = "params" /\ mode' = mode /\ reachable' = reachable
      BY <1>1, <2>2 DEF LowerParameter
    <3> QED BY <3>1, ScopeMoves DEF MovesFrames, Stays, FramesNest, Working
  <2> QED BY <2>1, <2>2
<1>2. CASE ParametersDone
  BY <1>2, ScopeMoves DEF ParametersDone, MovesFrames, Stays, FramesNest, Working
<1>3. CASE StartBlock
  <2>1. Pushes(Frame("block"))
    <3>1. /\ StartStatement /\ PushScope /\ frames' = Append(frames, Frame("block"))
          /\ mode' = "after" /\ reachable'
      BY <1>3 DEF StartBlock, StatementDone
    <3>2. mode \in Working /\ top.kind # "forInit"
      BY <3>1, StartFacts
    <3>3. HasKind(Frame("block"), "block") /\ "block" \in ScopeKinds
      BY FrameKind DEF ScopeKinds, BlockKinds
    <3>4. Len(scopes') = Len(scopes) + 1
      BY <3>1, <3>2, ScopeMoves
    <3> QED BY <3>1, <3>2, <3>3, <3>4 DEF Pushes, HasKind
  <2> QED BY <1>3, <2>1, StartFacts, ScopeMoves DEF StartBlock, MovesFrames
<1>4. CASE EndBlock
  <2>1. Pops
    BY <1>4, ScopeMoves DEF EndBlock, Pops, Working, ScopeKinds, BlockKinds
  <2> QED BY <1>4, <2>1, ScopeMoves DEF EndBlock, MovesFrames, Working
<1>5. CASE EmptyStatement
  BY <1>5, ScopeMoves
     DEF EmptyStatement, StatementDone, NeedStmt, MovesFrames, Stays, Working
<1>6. ASSUME NEW x \in Names, NEW t \in DeclTypes, NEW i \in BOOLEAN,
             DeclarationStatement(x, t, i)
      PROVE  MovesFrames
  <2> DEFINE sym == NewVariable(LowerType(t))
             f   == [Frame("decl") EXCEPT !.decl = sym]
  <2>1. /\ StartSimpleStatement /\ DeclareLocal(x, sym)
        /\ \/ frames' = Append(frames, f) /\ mode' = "expr"
           \/ frames' = frames /\ mode' = "after" /\ reachable'
    BY <1>6 DEF DeclarationStatement, StatementDone
  <2>2. IsList(scopes') /\ Len(scopes') = Len(scopes) /\ mode \in Working
    BY <2>1, StartFacts, ScopeMoves
  <2>3. HasKind(f, "decl") /\ "decl" \notin ScopeKinds
    BY FrameKind DEF ScopeKinds, BlockKinds, ForKinds
  <2> HIDE DEF sym, f
  <2>4. CASE frames' = Append(frames, f) /\ mode' = "expr"
    <3>1. Len(scopes) + 0 = Len(scopes)
      BY <2>2, ScopeMoves
    <3>2. Pushes(f)
      BY <2>2, <2>3, <2>4, <3>1 DEF Pushes, HasKind
    <3> QED BY <2>2, <3>2 DEF MovesFrames
  <2>5. CASE frames' = frames /\ mode' = "after" /\ reachable'
    BY <2>2, <2>5 DEF MovesFrames, Stays
  <2> QED BY <2>1, <2>4, <2>5
<1>7. ASSUME NEW x \in Names, NEW t \in DeclTypes, BadDeclaration(x, t)
      PROVE  MovesFrames
  BY <1>7, RejectMovesFrames DEF BadDeclaration
<1>8. CASE BadBareReturn
  BY <1>8, RejectMovesFrames DEF BadBareReturn
<1>9. ASSUME NEW k \in {"expr", "return", "ifCond", "whileCond"},
             NEW f, HasKind(f, k), frames' = Append(frames, f), mode' = "expr",
             UNCHANGED scopes,
             StartStatement \/ (StartSimpleStatement /\ k = "expr")
      PROVE  MovesFrames
  <2>1. mode \in Working /\ (top.kind = "forInit" => k = "expr")
    BY <1>9, StartFacts
  <2>2. /\ IsList(scopes') /\ Len(scopes') = Len(scopes) + 0
        /\ k \notin ScopeKinds /\ k # "function"
    BY <1>9, <2>1, ScopeMoves DEF ScopeKinds, BlockKinds, ForKinds
  <2>3. Pushes(f)
    BY <1>9, <2>1, <2>2 DEF Pushes, HasKind
  <2> QED BY <2>2, <2>3 DEF MovesFrames
<1>10. CASE ExpressionStatement \/ ReturnStatement \/ IfStatement
  <2>1. CASE ExpressionStatement
    BY <1>9, <2>1, FrameKind DEF ExpressionStatement
  <2>2. CASE ReturnStatement
    BY <1>9, <2>2, FrameKind DEF ReturnStatement
  <2>3. CASE IfStatement
    BY <1>9, <2>3, FrameKind DEF IfStatement
  <2> QED BY <1>10, <2>1, <2>2, <2>3
<1>11. CASE WhileStatement
  BY <1>9, <1>11, FrameKind DEF WhileStatement
<1>12. CASE BareReturn
  BY <1>12, StartFacts, ScopeMoves DEF BareReturn, StatementDone, MovesFrames, Stays
<1>13. ASSUME mode = "after", top.kind \in {"then", "else", "while"}, frames' = Pop,
              mode' = "after", UNCHANGED scopes
       PROVE  MovesFrames
  <2>1. /\ IsList(scopes') /\ Len(scopes') = Len(scopes) - 0 /\ mode \in Working
        /\ top.kind \notin ScopeKinds \cup {"function", "expr", "decl"}
    BY <1>13, ScopeMoves DEF ScopeKinds, BlockKinds, ForKinds, Working
  <2>2. Pops
    BY <1>13, <2>1 DEF Pops
  <2> QED BY <2>1, <2>2 DEF MovesFrames
<1>14. CASE ThenDone \/ ElseDone \/ WhileDone
  BY <1>13, <1>14 DEF ThenDone, ElseDone, WhileDone, StatementDone
<1>15. CASE ThenElseDone
  <2> DEFINE f == [top EXCEPT !.kind = "else", !.alt = NoLabel, !.flag = reachable]
  <2>1. /\ mode = "after" /\ top.kind = "thenElse" /\ frames' = ReplaceTop(f)
        /\ mode' = "stmt" /\ UNCHANGED scopes
    BY <1>15 DEF ThenElseDone
  <2>2. mode \in Working
    BY <2>1 DEF Working
  <2>3. HasKind(f, "else")
    BY <2>2, TopKind
  <2> HIDE DEF f
  <2> QED BY <2>1, <2>2, <2>3, ReplaceMovesFrames
<1>16. ASSUME NEW hasInit \in BOOLEAN, ForStatement(hasInit) PROVE MovesFrames
  <2>1. Pushes(Frame("forInit"))
    BY <1>16, StartFacts, FrameKind, ScopeMoves
       DEF ForStatement, StatementDone, Pushes, ScopeKinds, ForKinds, HasKind
  <2> QED BY <1>16, <2>1, StartFacts, ScopeMoves DEF ForStatement, MovesFrames
<1>17. ASSUME NEW hasCond \in BOOLEAN, ForInitDone(hasCond) PROVE MovesFrames
  <2> DEFINE f == [Frame("forCond") EXCEPT !.head = nextLabelID, !.body = nextLabelID + 1,
                      !.alt = nextLabelID + 2, !.end = nextLabelID + 3]
             g == [f EXCEPT !.kind = "forBody", !.body = NoLabel]
  <2>1. /\ mode = "after" /\ top.kind = "forInit" /\ UNCHANGED scopes
        /\ \/ frames' = ReplaceTop(f) /\ mode' = "expr"
           \/ frames' = ReplaceTop(g) /\ mode' = "stmt"
    BY <1>17 DEF ForInitDone
  <2>2. HasKind(f, "forCond")
    BY FrameKind
  <2>3. HasKind(g, "forBody")
    <3> HIDE DEF f
    <3> QED BY <2>2 DEF HasKind, IsFrame
  <2> HIDE DEF f, g
  <2> QED BY <2>1, <2>2, <2>3, ReplaceMovesFrames DEF Working, ForKinds
<1>18. CASE ForBodyDoneWithPost
  <2> DEFINE f == [top EXCEPT !.kind = "forPost", !.alt = NoLabel]
  <2>1. /\ mode = "after" /\ top.kind = "forBody" /\ frames' = ReplaceTop(f)
        /\ mode' = "expr" /\ UNCHANGED scopes
    BY <1>18 DEF ForBodyDoneWithPost
  <2>2. mode \in Working
    BY <2>1 DEF Working
  <2>3. HasKind(f, "forPost")
    BY <2>2, TopKind
  <2> HIDE DEF f
  <2> QED BY <2>1, <2>2, <2>3, ReplaceMovesFrames DEF ForKinds
<1>19. CASE ForBodyDone
  BY <1>19, LeaveForMovesFrames DEF ForBodyDone, Working, ForKinds
<1>20. CASE EndFunction
  <2>1. CASE reachable /\ header.ret.spec # "void"
    BY <1>20, <2>1, RejectMovesFrames DEF EndFunction
  <2>2. CASE ~(reachable /\ header.ret.spec # "void")
    <3>1. /\ mode = "after" /\ top.kind = "function" /\ frames' = Pop /\ PopScope
          /\ mode' = "lowered"
      BY <1>20, <2>2 DEF EndFunction
    <3>2. Pops
      BY <3>1, ScopeMoves DEF Pops, Working, ScopeKinds, BlockKinds
    <3> QED BY <3>1, <3>2, ScopeMoves DEF MovesFrames, Working
  <2> QED BY <2>1, <2>2
<1> QED BY <1>1, <1>2, <1>3, <1>4, <1>5, <1>6, <1>7, <1>8, <1>10, <1>11, <1>12, <1>14,
           <1>15, <1>16, <1>17, <1>18, <1>19, <1>20 DEF StatementStep

\* An expression step leaves the statements alone, or abandons the function.
LEMMA ExpressionsLeaveFrames ==
    ASSUME ExpressionStep
    PROVE  \/ UNCHANGED <<frames, scopes, mode, reachable>> /\ mode = "expr"
           \/ \E d : Reject(d)
<1>1. ASSUME NEW c \in Literals, Literal(c)
      PROVE  UNCHANGED <<frames, scopes, mode, reachable>> /\ mode = "expr"
  BY <1>1 DEF Literal, OperandNeeded, MayAddOperand, OperandFits, unchangedByExpressions
<1>2. ASSUME NEW x \in Names, Identifier(x) \/ AddressOfIdentifier(x)
      PROVE  UNCHANGED <<frames, scopes, mode, reachable>> /\ mode = "expr"
  BY <1>2 DEF Identifier, AddressOfIdentifier, OperandNeeded, MayAddOperand, OperandFits,
              unchangedByExpressions
<1>3. CASE \/ \E c \in Literals : BadLiteral(c)
           \/ \E x \in Names : UndeclaredIdentifier(x)
           \/ BadTarget \/ BadDereference \/ BadUnary \/ BadBinary \/ BadAssign \/ BadCall
           \/ BadArguments
  BY <1>3 DEF BadLiteral, UndeclaredIdentifier, BadTarget, BadDereference, BadUnary,
              BadBinary, BadAssign, BadCall, BadArguments
<1>4. CASE Dereference \/ AddressOfDereference \/ AddressOf \/ Assign
  BY <1>4 DEF Dereference, AddressOfDereference, AddressOf, Assign, unchangedByExpressions
<1>5. ASSUME NEW op, Unary(op) \/ Binary(op) \/ Logical(op)
      PROVE  UNCHANGED <<frames, scopes, mode, reachable>> /\ mode = "expr"
  BY <1>5 DEF Unary, Binary, Logical, TwoValues, unchangedByExpressions
<1>6. ASSUME NEW f \in Functions, StartCall(f)
      PROVE  UNCHANGED <<frames, scopes, mode, reachable>> /\ mode = "expr"
  BY <1>6 DEF StartCall, OperandNeeded, MayAddOperand, OperandFits, unchangedByExpressions
<1>7. CASE FinishCall
  BY <1>7 DEF FinishCall, ArgumentsDone, unchangedByExpressions
<1> QED BY <1>1, <1>2, <1>3, <1>4, <1>5, <1>6, <1>7 DEF ExpressionStep

LEMMA ContinuationsMoveFrames ==
    ASSUME FramesNest, ContinuationStep
    PROVE  MovesFrames
<1>1. ASSUME NEW k \in {"expr", "decl", "return"}, ExpressionDone(k), NEW r,
             frames' = Pop, StatementDone(r), r \/ k = "return", UNCHANGED scopes
      PROVE  MovesFrames
  <2>1. /\ mode = "expr" /\ top.kind = k /\ mode' = "after" /\ reachable' = r
        /\ k \notin ScopeKinds \cup {"function"} /\ mode \in Working
    BY <1>1 DEF ExpressionDone, StatementDone, Working, ScopeKinds, BlockKinds, ForKinds
  <2>2. IsList(scopes') /\ Len(scopes') = Len(scopes) - 0
    BY <1>1, <2>1, ScopeMoves
  <2>3. Pops
    BY <1>1, <2>1, <2>2 DEF Pops
  <2> QED BY <2>2, <2>3 DEF MovesFrames
<1>2. CASE ExpressionStatementDone
  BY <1>1, <1>2 DEF ExpressionStatementDone
<1>3. CASE InitializerDone
  <2>1. CASE Top(1).type # top.decl.type
    BY <1>3, <2>1, RejectMovesFrames DEF InitializerDone
  <2>2. CASE Top(1).type = top.decl.type
    BY <1>1, <1>3, <2>2 DEF InitializerDone
  <2> QED BY <2>1, <2>2
<1>4. CASE ReturnDone
  <2>1. CASE Top(1).type # LowerType(header.ret) \/ Top(1).type = Void
    BY <1>4, <2>1, RejectMovesFrames DEF ReturnDone
  <2>2. CASE ~(Top(1).type # LowerType(header.ret) \/ Top(1).type = Void)
    BY <1>1, <1>4, <2>2 DEF ReturnDone
  <2> QED BY <2>1, <2>2
<1>5. CASE VoidCondition
  BY <1>5, RejectMovesFrames DEF VoidCondition
<1>6. ASSUME NEW k \in {"ifCond", "whileCond", "forCond"}, ExpressionDone(k),
             NEW a, NEW b, NEW f, EnterBody(a, b, f),
             \/ k = "forCond" /\ HasKind(f, "forBody")
             \/ k # "forCond" /\ \E j \in {"then", "thenElse", "while"} : HasKind(f, j)
      PROVE  MovesFrames
  <2>1. /\ mode = "expr" /\ top.kind = k /\ mode' = "stmt" /\ frames' = ReplaceTop(f)
        /\ UNCHANGED scopes
    BY <1>6 DEF ExpressionDone, EnterBody
  <2>2. mode \in Working /\ "forCond" \in ForKinds /\ "forBody" \in ForKinds
    BY <2>1 DEF Working, ForKinds
  <2>3. CASE k = "forCond" /\ HasKind(f, "forBody")
    BY <2>1, <2>2, <2>3, ReplaceMovesFrames
  <2>4. CASE k # "forCond" /\ \E j \in {"then", "thenElse", "while"} : HasKind(f, j)
    BY <2>1, <2>2, <2>4, ReplaceMovesFrames
  <2> QED BY <1>6, <2>3, <2>4
<1>7. CASE IfConditionDone
  BY <1>6, <1>7, FrameKind DEF IfConditionDone
<1>8. CASE IfElseConditionDone
  BY <1>6, <1>8, FrameKind DEF IfElseConditionDone
<1>9. CASE WhileConditionDone
  <2>1. mode \in Working
    BY <1>9 DEF WhileConditionDone, ExpressionDone, Working
  <2> QED BY <1>6, <1>9, <2>1, TopKind DEF WhileConditionDone
<1>10. CASE ForConditionDone
  <2>1. mode \in Working
    BY <1>10 DEF ForConditionDone, ExpressionDone, Working
  <2> QED BY <1>6, <1>10, <2>1, TopKind DEF ForConditionDone
<1>11. CASE ForPostDone
  BY <1>11, LeaveForMovesFrames DEF ForPostDone, ExpressionDone, Working, ForKinds
<1> QED BY <1>2, <1>3, <1>4, <1>5, <1>7, <1>8, <1>9, <1>10, <1>11 DEF ContinuationStep

LEMMA FramesNestInductive ==
    ASSUME FramesNest, [Next]_vars
    PROVE  FramesNest'
<1>1. CASE StatementStep
  BY <1>1, StatementsMoveFrames, MovesKeepFrames
<1>2. CASE ContinuationStep
  BY <1>2, ContinuationsMoveFrames, MovesKeepFrames
<1>3. CASE ExpressionStep
  <2>1. CASE UNCHANGED <<frames, scopes, mode, reachable>>
    BY <2>1 DEF FramesNest, top
  <2>2. CASE \E d : Reject(d)
    BY <2>2, RejectMovesFrames, MovesKeepFrames
  <2> QED BY <1>3, <2>1, <2>2, ExpressionsLeaveFrames
<1>4. CASE UNCHANGED vars
  BY <1>4 DEF vars, FramesNest, top
<1> QED BY <1>1, <1>2, <1>3, <1>4, Steps

LEMMA FramesNestInitially ==
    ASSUME Init
    PROVE  FramesNest
<1>1. /\ frames = <<Frame("function")>> /\ scopes = <<NoNames>>
      /\ mode = "params" /\ reachable
  BY DEF Init
<1>2. /\ IsList(frames) /\ Len(frames) = 1 /\ IsList(scopes) /\ Len(scopes) = 1
  BY <1>1, ShortLists
<1>3. frames[1] = Frame("function") /\ HasKind(frames[1], "function")
  BY <1>1, FrameKind
<1>4. Nested(frames)
  BY <1>2, <1>3 DEF Nested, HasKind
<1>5. ScopeSet(frames) = {1}
  BY <1>2, <1>3 DEF ScopeSet, HasKind, ScopeKinds, BlockKinds
<1>6. Cardinality(ScopeSet(frames)) = 1
  BY <1>5, FS_Singleton
<1> QED BY <1>1, <1>2, <1>4, <1>6 DEF FramesNest

\* pushScope and popScope are balanced: a scope is open for every function,
\* block and for being lowered and for nothing else, in every state of the walk.
THEOREM ScopesBalanced == Spec => []ScopesMatchFrames
<1>1. FramesNest => ScopesMatchFrames
  <2> SUFFICES ASSUME FramesNest PROVE ScopesMatchFrames
    OBVIOUS
  <2>1. DOMAIN frames = 1..Len(frames)
    BY ListLength DEF FramesNest, Nested
  <2> QED BY <2>1 DEF FramesNest, ScopesMatchFrames, ScopeSet
<1> QED BY <1>1, FramesNestInitially, FramesNestInductive, PTL DEF Spec

(***************************************************************************)
(* Layout: what stands behind a terminator, and what an unreachable end    *)
(* looks like.                                                             *)
(***************************************************************************)

\* Control gets to the end of the list.
Open(c) == Len(c) = 0 \/ ~IsTerminator(c[Len(c)])

\* No instruction but a label follows a terminator.
Separated(c) ==
    /\ IsList(c)
    /\ \A i \in 1..(Len(c) - 1) : IsTerminator(c[i]) => c[i + 1].kind = "label"

\* A statement follows, or an expression is being computed.
Continues == mode \in {"params", "stmt", "expr"} \/ (mode = "after" /\ reachable)

\* The invariant: code that is continued is open, and code reported not to
\* complete ends in a return.
LayoutInv ==
    /\ Separated(code)
    /\ Continues => Open(code)
    /\ mode = "after" /\ ~reachable => Len(code) >= 1 /\ code[Len(code)].kind = "ret"

\* What a step does to the layout: it throws the code away, leaves it alone, or
\* appends instructions that may stand there.
Discards == code' = <<>> /\ mode' = "rejected"
Waits ==
    /\ code' = code
    /\ Continues' => Continues
    /\ mode' = "after" /\ ~reachable' => mode = "after" /\ ~reachable
Extends(s) ==
    /\ code' = code \o s
    /\ Separated(s) /\ Len(s) >= 1
    /\ Open(code) \/ s[1].kind = "label"
    /\ Continues' => Open(s)
    /\ mode' = "after" /\ ~reachable' => s[Len(s)].kind = "ret"
LaysOut == Discards \/ Waits \/ \E s : Extends(s)

LEMMA SeparatedConcat ==
    ASSUME NEW c, NEW s, Separated(c), Separated(s), Len(s) >= 1,
           Open(c) \/ s[1].kind = "label"
    PROVE  /\ Separated(c \o s)
           /\ Len(c \o s) >= 1
           /\ (c \o s)[Len(c \o s)] = s[Len(s)]
           /\ Len(c) >= 1 => (c \o s)[1] = c[1]
<1> DEFINE d == c \o s
           m == Len(c)
           n == Len(s)
<1>1. /\ IsList(d) /\ Len(d) = m + n /\ m \in Nat /\ n \in Nat /\ n >= 1
      /\ \A i \in 1..m : d[i] = c[i]
      /\ \A i \in 1..n : d[m + i] = s[i]
  BY ListConcat, ListLength DEF Separated
<1> HIDE DEF d
<1>2. ASSUME NEW i \in 1..(m + n - 1), IsTerminator(d[i])
      PROVE  d[i + 1].kind = "label"
  <2>1. CASE i < m
    <3>1. i \in 1..(m - 1) /\ i \in 1..m /\ i + 1 \in 1..m
      BY <1>1, <2>1
    <3> QED BY <1>1, <1>2, <3>1 DEF Separated
  <2>2. CASE i = m
    <3>1. m \in 1..m /\ 1 \in 1..n /\ m # 0
      BY <1>1, <2>2
    <3>2. IsTerminator(c[m])
      BY <1>1, <1>2, <2>2, <3>1
    <3>3. s[1].kind = "label"
      BY <3>1, <3>2 DEF Open
    <3> QED BY <1>1, <2>2, <3>1, <3>3
  <2>3. CASE i > m
    <3> DEFINE j == i - m
    <3>1. j \in 1..(n - 1) /\ j \in 1..n /\ j + 1 \in 1..n
          /\ i = m + j /\ i + 1 = m + (j + 1)
      BY <1>1, <2>3
    <3> HIDE DEF j
    <3>2. IsTerminator(s[j])
      BY <1>1, <1>2, <3>1
    <3>3. s[j + 1].kind = "label"
      BY <3>1, <3>2 DEF Separated
    <3> QED BY <1>1, <3>1, <3>3
  <2> QED BY <1>1, <2>1, <2>2, <2>3
<1>3. d[m + n] = s[n] /\ m + n >= 1
  BY <1>1
<1>4. m >= 1 => d[1] = c[1]
  BY <1>1
<1> QED BY <1>1, <1>2, <1>3, <1>4 DEF Separated, d

LEMMA LayingOutKeepsLayout ==
    ASSUME LayoutInv, LaysOut
    PROVE  LayoutInv'
<1>1. CASE Discards
  BY <1>1, EmptyList DEF Discards, LayoutInv, Separated, Continues
<1>2. CASE Waits
  BY <1>2 DEF Waits, LayoutInv
<1>3. ASSUME NEW s, Extends(s) PROVE LayoutInv'
  <2>1. /\ Separated(code') /\ Len(code') >= 1 /\ code'[Len(code')] = s[Len(s)]
    BY <1>3, SeparatedConcat DEF Extends, LayoutInv
  <2>2. Open(s) => Open(code')
    BY <1>3, <2>1 DEF Open, Extends
  <2> QED BY <1>3, <2>1, <2>2 DEF Extends, LayoutInv
<1> QED BY <1>1, <1>2, <1>3 DEF LaysOut

\* The shapes of the lists that are appended.
LEMMA Shapes ==
    /\ \A a : Separated(<<a>>) /\ Len(<<a>>) >= 1 /\ <<a>>[1] = a /\ <<a>>[Len(<<a>>)] = a
    /\ \A a, b : ~IsTerminator(a) \/ b.kind = "label" =>
          /\ Separated(<<a, b>>) /\ Len(<<a, b>>) >= 1
          /\ <<a, b>>[1] = a /\ <<a, b>>[Len(<<a, b>>)] = b
    /\ \A a, b, c : ~IsTerminator(a) /\ ~IsTerminator(b) =>
          /\ Separated(<<a, b, c>>) /\ Len(<<a, b, c>>) >= 1
          /\ <<a, b, c>>[1] = a /\ <<a, b, c>>[Len(<<a, b, c>>)] = c
<1>1. ASSUME NEW a
      PROVE  Separated(<<a>>) /\ Len(<<a>>) >= 1 /\ <<a>>[1] = a /\ <<a>>[Len(<<a>>)] = a
  BY ShortLists DEF Separated
<1>2. ASSUME NEW a, NEW b, ~IsTerminator(a) \/ b.kind = "label"
      PROVE  /\ Separated(<<a, b>>) /\ Len(<<a, b>>) >= 1
             /\ <<a, b>>[1] = a /\ <<a, b>>[Len(<<a, b>>)] = b
  <2>1. IsList(<<a, b>>) /\ Len(<<a, b>>) = 2 /\ <<a, b>>[1] = a /\ <<a, b>>[2] = b
    BY ShortLists
  <2>2. \A i \in 1..(2 - 1) : i = 1 /\ i + 1 = 2
    OBVIOUS
  <2> QED BY <1>2, <2>1, <2>2 DEF Separated
<1>3. ASSUME NEW a, NEW b, NEW c, ~IsTerminator(a), ~IsTerminator(b)
      PROVE  /\ Separated(<<a, b, c>>) /\ Len(<<a, b, c>>) >= 1
             /\ <<a, b, c>>[1] = a /\ <<a, b, c>>[Len(<<a, b, c>>)] = c
  <2>1. /\ IsList(<<a, b, c>>) /\ Len(<<a, b, c>>) = 3
        /\ <<a, b, c>>[1] = a /\ <<a, b, c>>[2] = b /\ <<a, b, c>>[3] = c
    BY ShortLists
  <2>2. \A i \in 1..(3 - 1) : i = 1 \/ i = 2
    OBVIOUS
  <2> QED BY <1>3, <2>1, <2>2 DEF Separated
<1> QED BY <1>1, <1>2, <1>3

LEMMA Terminators ==
    /\ \A i : i.kind = "op" \/ i.kind = "label" => ~IsTerminator(i)
BY DEF IsTerminator, TerminatorKinds

LEMMA Joined ==
    /\ \A a, b : <<a>> \o <<b>> = <<a, b>>
    /\ \A s : IsList(s) => <<>> \o s = s /\ s \o <<>> = s
<1>1. ASSUME NEW a, NEW b PROVE <<a>> \o <<b>> = <<a, b>>
  <2>1. <<a>> \in Seq({a, b}) /\ <<b>> \in Seq({a, b}) /\ <<a, b>> \in Seq({a, b})
    OBVIOUS
  <2>2. /\ <<a>> \o <<b>> \in Seq({a, b}) /\ Len(<<a>> \o <<b>>) = 2
        /\ (<<a>> \o <<b>>)[1] = a /\ (<<a>> \o <<b>>)[2] = b
    BY <2>1, ConcatProperties
  <2>3. Len(<<a, b>>) = 2 /\ <<a, b>>[1] = a /\ <<a, b>>[2] = b
    OBVIOUS
  <2>4. \A i \in 1..2 : i = 1 \/ i = 2
    OBVIOUS
  <2> QED BY <2>1, <2>2, <2>3, <2>4, SeqEqual
<1>2. ASSUME NEW s, IsList(s) PROVE <<>> \o s = s /\ s \o <<>> = s
  BY <1>2, ConcatEmptySeq DEF IsList
<1> QED BY <1>1, <1>2

\* A label, with a jump before it where control gets there.
LEMMA ClosedByLabel ==
    ASSUME NEW l, NEW m, NEW s, s = JmpIf(reachable, l) \o <<Label(m)>>
    PROVE  /\ Separated(s) /\ Len(s) >= 1 /\ Open(s)
           /\ reachable \/ s[1].kind = "label"
<1>1. CASE reachable
  <2>1. s = <<Jmp(l), Label(m)>>
    BY <1>1, Joined DEF JmpIf
  <2>2. Label(m).kind = "label" /\ ~IsTerminator(Label(m))
    BY Terminators, InstructionParts
  <2>3. Separated(s) /\ Len(s) >= 1 /\ s[Len(s)] = Label(m)
    <3> DEFINE a == Jmp(l)
               b == Label(m)
    <3>1. b.kind = "label" /\ s = <<a, b>>
      BY <2>1, <2>2
    <3> HIDE DEF a, b
    <3>2. /\ Separated(<<a, b>>) /\ Len(<<a, b>>) >= 1
          /\ <<a, b>>[Len(<<a, b>>)] = b
      BY <3>1, Shapes
    <3> QED BY <3>1, <3>2 DEF b
  <2> QED BY <1>1, <2>2, <2>3 DEF Open
<1>2. CASE ~reachable
  <2>1. s = <<Label(m)>>
    BY <1>2, Joined, ShortLists DEF JmpIf
  <2>2. Label(m).kind = "label" /\ ~IsTerminator(Label(m))
    BY Terminators, InstructionParts
  <2>3. Separated(s) /\ Len(s) >= 1 /\ s[1] = Label(m) /\ s[Len(s)] = Label(m)
    BY <2>1, Shapes
  <2> QED BY <2>2, <2>3 DEF Open
<1> QED BY <1>1, <1>2

\* The step does not end in a statement that cannot complete.
Completes == mode' # "after" \/ reachable'

LEMMA RejectLaysOut ==
    ASSUME NEW d, Reject(d)
    PROVE  LaysOut
BY DEF Reject, LaysOut, Discards

LEMMA OpenLaysOut ==
    ASSUME LayoutInv, Continues, NEW s, Separated(s), Len(s) >= 1, Open(s),
           code' = code \o s, Completes
    PROVE  LaysOut
<1>1. Open(code)
  BY DEF LayoutInv
<1>2. ~(mode' = "after" /\ ~reachable')
  BY DEF Completes
<1>3. Extends(s)
  BY <1>1, <1>2 DEF Extends
<1> QED BY <1>3 DEF LaysOut

LEMMA OpLaysOut ==
    ASSUME LayoutInv, Continues, NEW op, op.kind = "op", code' = code \o <<op>>, Completes
    PROVE  LaysOut
<1>1. Separated(<<op>>) /\ Len(<<op>>) >= 1 /\ <<op>>[Len(<<op>>)] = op
  BY Shapes
<1>2. Open(<<op>>)
  BY <1>1, Terminators DEF Open
<1> QED BY <1>1, <1>2, OpenLaysOut

\* Two instructions, the last of which is an operation or a label.
LEMMA PairLaysOut ==
    ASSUME LayoutInv, Continues, NEW i, NEW j, code' = code \o <<i, j>>, Completes,
           (i.kind = "op" /\ j.kind = "op") \/ j.kind = "label"
    PROVE  LaysOut
<1>1. ~IsTerminator(i) \/ j.kind = "label"
  BY Terminators
<1>2. Separated(<<i, j>>) /\ Len(<<i, j>>) >= 1 /\ <<i, j>>[Len(<<i, j>>)] = j
  BY <1>1, Shapes
<1>3. Open(<<i, j>>)
  BY <1>2, Terminators DEF Open
<1> QED BY <1>2, <1>3, OpenLaysOut

LEMMA RetLaysOut ==
    ASSUME LayoutInv, Continues, NEW v, code' = code \o <<Ret(v)>>,
           mode' = "lowered" \/ (mode' = "after" /\ ~reachable')
    PROVE  LaysOut
<1> DEFINE i == Ret(v)
<1>1. i.kind = "ret"
  BY InstructionParts
<1> HIDE DEF i
<1>2. Separated(<<i>>) /\ Len(<<i>>) >= 1 /\ <<i>>[Len(<<i>>)] = i
  BY Shapes
<1>3. Open(code) /\ ~Continues'
  BY DEF LayoutInv, Continues
<1>4. Extends(<<i>>)
  BY <1>1, <1>2, <1>3 DEF Extends, i
<1> QED BY <1>4 DEF LaysOut

\* Behind a statement, a label that starts or ends another part.
LEMMA LabelLaysOut ==
    ASSUME LayoutInv, mode = "after", NEW s, Separated(s), Len(s) >= 1, Open(s),
           reachable \/ s[1].kind = "label", code' = code \o s, Completes
    PROVE  LaysOut
<1>1. Open(code) \/ s[1].kind = "label"
  BY DEF LayoutInv, Continues
<1>2. ~(mode' = "after" /\ ~reachable')
  BY DEF Completes
<1>3. Extends(s)
  BY <1>1, <1>2 DEF Extends
<1> QED BY <1>3 DEF LaysOut

\* A step from a state that continues may leave the code as it is.
LEMMA WaitingLaysOut ==
    ASSUME Continues, code' = code, Completes
    PROVE  LaysOut
BY DEF LaysOut, Waits, Completes

LEMMA StartContinues ==
    ASSUME StartStatement \/ StartSimpleStatement
    PROVE  Continues
BY StartFacts DEF Continues

LEMMA StatementsLayOut ==
    ASSUME FramesNest, LayoutInv, StatementStep
    PROVE  LaysOut
<1>1. CASE LowerParameter
  <2> DEFINE p == Head(params)
             sym == NewVariable(LowerType(p.type))
             a == Alloca(sym)
             st == Store(sym.slot, Param(p.name))
  <2>1. CASE DeclarationError(p.name, sym.type) # NoDiagnostic
    BY <1>1, <2>1, RejectLaysOut DEF LowerParameter
  <2>2. CASE DeclarationError(p.name, sym.type) = NoDiagnostic
    <3>1. code' = code \o <<a, st>> /\ mode = "params" /\ mode' = mode
      BY <1>1, <2>2 DEF LowerParameter, Emit
    <3>2. a.kind = "op" /\ st.kind = "op"
      BY InstructionParts DEF Alloca, Store
    <3>3. Continues /\ Completes
      BY <3>1 DEF Continues, Completes
    <3> HIDE DEF a, st
    <3> QED BY <3>1, <3>2, <3>3, PairLaysOut
  <2> QED BY <2>1, <2>2
<1>2. CASE ParametersDone
  BY <1>2, WaitingLaysOut DEF ParametersDone, Continues, Completes, FramesNest
<1>3. CASE StartBlock
  BY <1>3, StartContinues, WaitingLaysOut DEF StartBlock, StatementDone, Completes
<1>4. CASE EndBlock
  BY <1>4 DEF EndBlock, LaysOut, Waits, Continues
<1>5. CASE EmptyStatement
  BY <1>5, WaitingLaysOut DEF EmptyStatement, NeedStmt, StatementDone, Continues, Completes
<1>6. ASSUME NEW x \in Names, NEW t \in DeclTypes, NEW i \in BOOLEAN,
             DeclarationStatement(x, t, i)
      PROVE  LaysOut
  <2> DEFINE a == Alloca(NewVariable(LowerType(t)))
  <2>1. StartSimpleStatement /\ code' = code \o <<a>> /\ Completes
    BY <1>6 DEF DeclarationStatement, StatementDone, Emit, Completes
  <2>2. a.kind = "op"
    BY InstructionParts DEF Alloca
  <2> HIDE DEF a
  <2> QED BY <2>1, <2>2, StartContinues, OpLaysOut
<1>7. CASE BadBareReturn \/ \E x \in Names, t \in DeclTypes : BadDeclaration(x, t)
  BY <1>7, RejectLaysOut DEF BadDeclaration, BadBareReturn
<1>8. CASE ExpressionStatement \/ ReturnStatement \/ IfStatement
  BY <1>8, StartContinues, WaitingLaysOut
     DEF ExpressionStatement, ReturnStatement, IfStatement, Completes
<1>9. CASE BareReturn
  BY <1>9, StartContinues, RetLaysOut DEF BareReturn, Emit, StatementDone
<1>10. CASE ThenDone
  BY <1>10, ClosedByLabel, LabelLaysOut DEF ThenDone, Emit, StatementDone, Completes
<1>11. CASE ThenElseDone
  BY <1>11, ClosedByLabel, LabelLaysOut DEF ThenElseDone, Emit, Completes
<1>12. CASE ElseDone
  <2> DEFINE end == IF top.flag \/ reachable THEN <<Label(top.end)>> ELSE <<>>
             s   == JmpIf(reachable, top.end) \o end
  <2>1. mode = "after" /\ code' = code \o s /\ mode' = "after"
        /\ reachable' = (top.flag \/ reachable)
    BY <1>12 DEF ElseDone, Emit, StatementDone
  <2>2. CASE top.flag \/ reachable
    <3>1. s = JmpIf(reachable, top.end) \o <<Label(top.end)>> /\ Completes
      BY <2>1, <2>2 DEF Completes
    <3> HIDE DEF s
    <3> QED BY <2>1, <3>1, ClosedByLabel, LabelLaysOut
  <2>3. CASE ~(top.flag \/ reachable)
    <3>1. s = <<>>
      BY <2>3, Joined, EmptyList DEF JmpIf
    <3>2. code' = code
      BY <2>1, <3>1, Joined DEF LayoutInv, Separated
    <3>3. ~reachable /\ ~reachable'
      BY <2>1, <2>3
    <3> QED BY <2>1, <3>2, <3>3 DEF LaysOut, Waits, Continues
  <2> QED BY <2>2, <2>3
<1>13. CASE WhileStatement
  BY <1>13, StartContinues, InstructionParts, PairLaysOut DEF WhileStatement, Emit, Completes
<1>14. CASE WhileDone
  BY <1>14, ClosedByLabel, LabelLaysOut DEF WhileDone, Emit, StatementDone, Completes
<1>15. ASSUME NEW hasInit \in BOOLEAN, ForStatement(hasInit) PROVE LaysOut
  <2>1. StartStatement /\ code' = code /\ Completes
    BY <1>15 DEF ForStatement, StatementDone, Completes
  <2> QED BY <2>1, StartContinues, WaitingLaysOut
<1>16. ASSUME NEW hasCond \in BOOLEAN, ForInitDone(hasCond) PROVE LaysOut
  <2> DEFINE cond == nextLabelID
             body == nextLabelID + 1
             enter == <<Jmp(cond), Label(cond)>>
             both  == enter \o <<Jmp(body), Label(body)>>
  <2>1. /\ mode = "after" /\ top.kind = "forInit"
        /\ code' = code \o enter \/ code' = code \o both
        /\ mode' = "expr" \/ mode' = "stmt"
    BY <1>16 DEF ForInitDone, Emit
  <2>2. Continues /\ Completes
    BY <2>1 DEF FramesNest, Continues, Completes
  <2>3. ASSUME NEW l
        PROVE  /\ Separated(<<Jmp(l), Label(l)>>) /\ Len(<<Jmp(l), Label(l)>>) >= 1
               /\ Open(<<Jmp(l), Label(l)>>)
    <3> DEFINE a == Jmp(l)
               c == Label(l)
    <3>1. c.kind = "label"
      BY InstructionParts
    <3> HIDE DEF a, c
    <3>2. /\ Separated(<<a, c>>) /\ Len(<<a, c>>) >= 1 /\ <<a, c>>[Len(<<a, c>>)] = c
      BY <3>1, Shapes
    <3>3. Open(<<a, c>>)
      BY <3>1, <3>2, Terminators DEF Open
    <3> QED BY <3>2, <3>3 DEF a, c
  <2>4. Separated(both) /\ Len(both) >= 1 /\ Open(both)
    <3> DEFINE e2 == <<Jmp(body), Label(body)>>
    <3>1. Separated(enter) /\ Open(enter) /\ Separated(e2) /\ Len(e2) >= 1 /\ Open(e2)
      BY <2>3
    <3> HIDE DEF enter, e2
    <3>2. /\ Separated(enter \o e2) /\ Len(enter \o e2) >= 1
          /\ (enter \o e2)[Len(enter \o e2)] = e2[Len(e2)]
      BY <3>1, SeparatedConcat
    <3>3. Open(enter \o e2)
      BY <3>1, <3>2 DEF Open
    <3> QED BY <3>2, <3>3 DEF e2
  <2> HIDE DEF enter, both
  <2>5. CASE code' = code \o enter
    BY <2>2, <2>3, <2>5, OpenLaysOut DEF enter
  <2>6. CASE code' = code \o both
    BY <2>2, <2>4, <2>6, OpenLaysOut
  <2> QED BY <2>1, <2>5, <2>6
<1>17. CASE ForBodyDoneWithPost
  BY <1>17, InstructionParts, PairLaysOut DEF ForBodyDoneWithPost, Emit, Completes, Continues
<1>18. CASE ForBodyDone
  <2> DEFINE first == JmpIf(reachable, top.alt) \o <<Label(top.alt)>>
             jump  == JmpIf(reachable, top.head)
             last  == <<Label(top.end)>>
             all   == (first \o jump) \o last
  <2>1. mode = "after" /\ code' = code \o all /\ Completes
    BY <1>18 DEF ForBodyDone, Emit, LeaveFor, StatementDone, Completes
  <2>2. /\ Separated(first) /\ Len(first) >= 1 /\ Open(first)
        /\ reachable \/ first[1].kind = "label"
    BY ClosedByLabel
  <2>3. /\ Separated(last) /\ Len(last) >= 1 /\ last[1] = Label(top.end)
        /\ last[Len(last)] = Label(top.end)
    BY Shapes
  <2>4. Label(top.end).kind = "label" /\ ~IsTerminator(Label(top.end))
    BY InstructionParts, Terminators
  <2>5. Separated(first \o jump) /\ Len(first \o jump) >= 1
        /\ (first \o jump)[1] = first[1]
    <3>1. CASE reachable
      <4>1. jump = <<Jmp(top.head)>>
        BY <3>1 DEF JmpIf
      <4>2. Separated(jump) /\ Len(jump) >= 1
        BY <4>1, Shapes
      <4> HIDE DEF first, jump
      <4> QED BY <2>2, <4>2, SeparatedConcat
    <3>2. CASE ~reachable
      <4>1. jump = <<>>
        BY <3>2 DEF JmpIf
      <4> HIDE DEF first, jump
      <4>2. first \o jump = first
        BY <2>2, <4>1, Joined DEF Separated
      <4> QED BY <2>2, <4>2
    <3> QED BY <3>1, <3>2
  <2>6. /\ Separated(all) /\ Len(all) >= 1 /\ all[1] = first[1]
        /\ all[Len(all)] = Label(top.end)
    <3> HIDE DEF first, jump, last
    <3> QED BY <2>3, <2>4, <2>5, SeparatedConcat
  <2> HIDE DEF first, jump, last, all
  <2>7. Open(all)
    BY <2>4, <2>6 DEF Open
  <2> QED BY <2>1, <2>2, <2>6, <2>7, LabelLaysOut
<1>19. CASE EndFunction
  <2>1. CASE reachable /\ header.ret.spec # "void"
    BY <1>19, <2>1, RejectLaysOut DEF EndFunction
  <2>2. CASE ~(reachable /\ header.ret.spec # "void")
    <3>1. /\ mode = "after" /\ mode' = "lowered"
          /\ code' = code \o IF reachable THEN <<Ret(NoOperand)>> ELSE <<>>
      BY <1>19, <2>2 DEF EndFunction, Emit
    <3>2. CASE reachable
      BY <3>1, <3>2, RetLaysOut DEF Continues
    <3>3. CASE ~reachable
      <4>1. code' = code
        BY <3>1, <3>3, Joined DEF LayoutInv, Separated
      <4> QED BY <3>1, <4>1 DEF LaysOut, Waits, Continues
    <3> QED BY <3>2, <3>3
  <2> QED BY <2>1, <2>2
<1> QED BY <1>1, <1>2, <1>3, <1>4, <1>5, <1>6, <1>7, <1>8, <1>9, <1>10, <1>11, <1>12,
           <1>13, <1>14, <1>15, <1>16, <1>17, <1>18, <1>19 DEF StatementStep

\* An expression adds operations at the end, or nothing.
LEMMA ExpressionsLayOut ==
    ASSUME LayoutInv, ExpressionStep
    PROVE  LaysOut
<1>1. CASE \E d : Reject(d)
  BY <1>1, RejectLaysOut
<1>2. CASE UNCHANGED <<frames, scopes, mode, reachable>> /\ mode = "expr"
  <2>1. Continues /\ Completes
    BY <1>2 DEF Continues, Completes
  <2>2. ASSUME code' = code PROVE LaysOut
    BY <2>1, <2>2, WaitingLaysOut
  <2>3. ASSUME NEW n, NEW op, NEW operands, NEW type, Compute(n, op, operands, type)
        PROVE  LaysOut
    BY <2>1, <2>3, InstructionParts, OpLaysOut DEF Compute, Emit
  <2>4. ASSUME NEW c \in Literals, Literal(c) PROVE LaysOut
    BY <2>1, <2>4, InstructionParts, OpLaysOut DEF Literal, Emit
  <2>5. ASSUME NEW x \in Names, Identifier(x) PROVE LaysOut
    BY <2>1, <2>5, InstructionParts, OpLaysOut DEF Identifier, Emit
  <2>6. CASE \/ \E x \in Names : AddressOfIdentifier(x)
             \/ AddressOfDereference \/ AddressOf
             \/ \E f \in Functions : StartCall(f)
    BY <2>2, <2>6 DEF AddressOfIdentifier, AddressOfDereference, AddressOf, StartCall
  <2>7. CASE Dereference \/ \E op \in BinaryOps : Binary(op)
    BY <2>3, <2>7 DEF Dereference, Binary
  <2>8. ASSUME NEW op \in UnaryOps, Unary(op) PROVE LaysOut
    <3>1. code' = code \/ Compute(1, op, <<Top(1).operand>>, I32)
      BY <2>8 DEF Unary
    <3> QED BY <2>2, <2>3, <3>1
  <2>9. ASSUME NEW op \in LogicalOps, Logical(op) PROVE LaysOut
    <3> DEFINE zero == Immediate(<<"n", 0>>)
               lhs  == Temp(nextTempID)
               rhs  == Temp(nextTempID + 1)
               a    == Op("ne", lhs, <<Top(2).operand, zero>>)
               c    == Op("ne", rhs, <<Top(1).operand, zero>>)
               d    == Op(op, Temp(nextTempID + 2), <<lhs, rhs>>)
    <3>1. code' = code \o <<a, c, d>>
      BY <2>9 DEF Logical, Emit
    <3>2. ~IsTerminator(a) /\ ~IsTerminator(c) /\ ~IsTerminator(d)
      BY InstructionParts, Terminators
    <3> HIDE DEF a, c, d
    <3>3. /\ Separated(<<a, c, d>>) /\ Len(<<a, c, d>>) >= 1
          /\ <<a, c, d>>[Len(<<a, c, d>>)] = d
      BY <3>2, Shapes
    <3>4. Open(<<a, c, d>>)
      BY <3>2, <3>3 DEF Open
    <3> QED BY <2>1, <3>1, <3>3, <3>4, OpenLaysOut
  <2>10. CASE Assign
    BY <2>1, <2>10, InstructionParts, OpLaysOut DEF Assign, Emit
  <2>11. CASE FinishCall
    <3> DEFINE f    == vals[innermost].callee
               ret  == Signatures[f].ret
               dst  == IF ret = Void THEN NoOperand ELSE Temp(nextTempID)
               args == [i \in DOMAIN Arguments |-> Arguments[i].operand]
               c    == Call(f, dst, args)
    <3>1. code' = code \o <<c>>
      BY <2>11 DEF FinishCall, Emit
    <3>2. c.kind = "op"
      BY InstructionParts
    <3> HIDE DEF c
    <3> QED BY <2>1, <3>1, <3>2, OpLaysOut
  <2>12. CASE \/ \E c \in Literals : BadLiteral(c)
              \/ \E x \in Names : UndeclaredIdentifier(x)
              \/ BadTarget \/ BadDereference \/ BadUnary \/ BadBinary \/ BadAssign
              \/ BadCall \/ BadArguments
    BY <2>12, RejectLaysOut
       DEF BadLiteral, UndeclaredIdentifier, BadTarget, BadDereference, BadUnary, BadBinary,
           BadAssign, BadCall, BadArguments
  <2> QED BY <2>4, <2>5, <2>6, <2>7, <2>8, <2>9, <2>10, <2>11, <2>12 DEF ExpressionStep
<1> QED BY <1>1, <1>2, ExpressionsLeaveFrames

LEMMA ContinuationsLayOut ==
    ASSUME LayoutInv, ContinuationStep
    PROVE  LaysOut
<1>0. ASSUME NEW k, ExpressionDone(k) PROVE Continues
  BY <1>0 DEF ExpressionDone, Continues
<1>1. CASE ExpressionStatementDone
  BY <1>0, <1>1, WaitingLaysOut DEF ExpressionStatementDone, StatementDone, Completes
<1>2. CASE InitializerDone
  <2>1. CASE Top(1).type # top.decl.type
    BY <1>2, <2>1, RejectLaysOut DEF InitializerDone
  <2>2. CASE Top(1).type = top.decl.type
    <3> DEFINE i == Store(top.decl.slot, Top(1).operand)
    <3>1. ExpressionDone("decl") /\ code' = code \o <<i>> /\ Completes
      BY <1>2, <2>2 DEF InitializerDone, Emit, StatementDone, Completes
    <3>2. i.kind = "op"
      BY InstructionParts DEF Store
    <3> HIDE DEF i
    <3> QED BY <1>0, <3>1, <3>2, OpLaysOut
  <2> QED BY <2>1, <2>2
<1>3. CASE ReturnDone
  <2>1. CASE Top(1).type # LowerType(header.ret) \/ Top(1).type = Void
    BY <1>3, <2>1, RejectLaysOut DEF ReturnDone
  <2>2. CASE ~(Top(1).type # LowerType(header.ret) \/ Top(1).type = Void)
    BY <1>0, <1>3, <2>2, RetLaysOut DEF ReturnDone, Emit, StatementDone
  <2> QED BY <2>1, <2>2
<1>4. CASE VoidCondition
  BY <1>4, RejectLaysOut DEF VoidCondition
<1>5. ASSUME NEW k, ExpressionDone(k), NEW f, NEW l, NEW frame, EnterBody(f, l, frame)
      PROVE  LaysOut
  BY <1>0, <1>5, InstructionParts, PairLaysOut DEF EnterBody, Emit, Completes
<1>6. CASE IfConditionDone \/ IfElseConditionDone \/ WhileConditionDone \/ ForConditionDone
  BY <1>5, <1>6
     DEF IfConditionDone, IfElseConditionDone, WhileConditionDone, ForConditionDone
<1>7. CASE ForPostDone
  BY <1>0, <1>7, InstructionParts, PairLaysOut
     DEF ForPostDone, Emit, LeaveFor, StatementDone, Completes
<1> QED BY <1>1, <1>2, <1>3, <1>4, <1>6, <1>7 DEF ContinuationStep

LEMMA LayoutInductive ==
    ASSUME FramesNest, LayoutInv, [Next]_vars
    PROVE  LayoutInv'
<1>1. CASE StatementStep
  BY <1>1, StatementsLayOut, LayingOutKeepsLayout
<1>2. CASE ExpressionStep
  BY <1>2, ExpressionsLayOut, LayingOutKeepsLayout
<1>3. CASE ContinuationStep
  BY <1>3, ContinuationsLayOut, LayingOutKeepsLayout
<1>4. CASE UNCHANGED vars
  BY <1>4 DEF vars, LayoutInv, Continues
<1> QED BY <1>1, <1>2, <1>3, <1>4, Steps

LEMMA LayoutHolds == Spec => []LayoutInv
<1>1. Init => LayoutInv
  BY EmptyList DEF Init, LayoutInv, Separated, Open, Continues
<1>2. FramesNest /\ LayoutInv /\ [Next]_vars => LayoutInv'
  BY LayoutInductive
<1> QED BY <1>1, <1>2, FramesNestInitially, FramesNestInductive, PTL DEF Spec

\* Whatever is lowered, an instruction behind a jump, a branch or a return is a
\* label: unreachable statements leave nothing in the code.
THEOREM LabelsFollowTerminators == Spec => []TerminatorsAreFollowedByLabels
<1>1. LayoutInv => TerminatorsAreFollowedByLabels
  BY DEF LayoutInv, Separated, TerminatorsAreFollowedByLabels
<1> QED BY <1>1, LayoutHolds, PTL

\* A statement lowerStatement reports unable to complete has a return at its
\* end, on every path through if, while, for and blocks.
THEOREM UnreachableEndsReturn == Spec => []UnreachableMeansReturned
<1>1. LayoutInv => UnreachableMeansReturned
  <2> SUFFICES ASSUME LayoutInv, mode = "after", ~reachable
               PROVE  code # <<>> /\ code[Len(code)].kind = "ret"
    BY DEF UnreachableMeansReturned
  <2> QED BY EmptyList DEF LayoutInv
<1> QED BY <1>1, LayoutHolds, PTL

(***************************************************************************)
(* The types of the state, with what the walk knows of its values: an      *)
(* operand that is not void is a value, a pending call is of a function,   *)
(* a declared variable has a slot, and every instruction is one the        *)
(* validator takes.                                                        *)
(***************************************************************************)

Values == {o \in Operands : o.kind \in ValueKinds}

GoodEntries ==
    {e \in Entries : /\ e.cat = "call" => e.callee \in Functions
                     /\ e.cat # "call" /\ e.type # Void => e.operand \in Values
                     /\ e.cat = "address" => e.type # Void}
GoodSymbols == {s \in Symbols : s # Undeclared => s.type # Void /\ s.slot \in Slots}

\* The labels a frame has still to place, and the label of a loop's head, by
\* the kinds of frames that have one.
EndKinds  == {"then", "thenElse", "else", "whileCond", "while", "forCond", "forBody", "forPost"}
AltKinds  == {"thenElse", "forCond", "forBody"}
BodyKinds == {"whileCond", "forCond"}
HeadKinds == {"whileCond", "while", "forCond", "forBody", "forPost"}

GoodFrames ==
    {f \in FrameSet : /\ f.kind = "decl" => f.decl \in GoodSymbols \ {Undeclared}
                      /\ f.kind \in EndKinds  => f.end  \in Nat
                      /\ f.kind \in AltKinds  => f.alt  \in Nat
                      /\ f.kind \in BodyKinds => f.body \in Nat
                      /\ f.kind \in HeadKinds => f.head \in Nat}
GoodInstructions == {i \in Instructions(Operands, Nat, Functions) : VerifyInstruction(i)}

TypeInv ==
    /\ header \in Headers
    /\ params \in Seq(Parameters)
    /\ code \in Seq(GoodInstructions)
    /\ nextTempID \in Nat /\ nextLabelID \in Nat /\ nodes \in Nat
    /\ scopes \in Seq([Names -> GoodSymbols])
    /\ frames \in Seq(GoodFrames)
    /\ vals \in Seq(GoodEntries)
    /\ mode \in Modes
    /\ reachable \in BOOLEAN
    /\ diagnostic \in Diagnostics

LEMMA TypeInvTypes == TypeInv => TypeOK
<1>1. /\ GoodInstructions \subseteq Instructions(Operands, Nat, Functions)
      /\ GoodFrames \subseteq FrameSet /\ GoodEntries \subseteq Entries
  BY DEF GoodInstructions, GoodFrames, GoodEntries
<1>2. [Names -> GoodSymbols] \subseteq [Names -> Symbols]
  BY DEF GoodSymbols
<1>3. \A S, T : S \subseteq T => Seq(S) \subseteq Seq(T)
  OBVIOUS
<1> QED BY <1>1, <1>2, <1>3 DEF TypeInv, TypeOK

\* Sequences that grow and shrink at the end.
LEMMA SeqFacts ==
    ASSUME NEW S, NEW s \in Seq(S)
    PROVE  /\ \A e \in S : Append(s, e) \in Seq(S)
           /\ \A t \in Seq(S) : s \o t \in Seq(S)
           /\ \A n \in Nat : n <= Len(s) => /\ SubSeq(s, 1, Len(s) - n) \in Seq(S)
                                            /\ Len(SubSeq(s, 1, Len(s) - n)) = Len(s) - n
           /\ \A m \in Nat : m <= Len(s) => SubSeq(s, m + 1, Len(s)) \in Seq(S)
           /\ \A i \in 1..Len(s) : s[i] \in S
           /\ Len(s) \in Nat /\ DOMAIN s = 1..Len(s)
OBVIOUS

LEMMA ShortSeqs ==
    ASSUME NEW S
    PROVE  /\ <<>> \in Seq(S)
           /\ \A a \in S : <<a>> \in Seq(S)
           /\ \A a, b \in S : <<a, b>> \in Seq(S)
           /\ \A a, b, c \in S : <<a, b, c>> \in Seq(S)
           /\ \A a, b, c, d \in S : <<a, b, c, d>> \in Seq(S)
OBVIOUS

(***************************************************************************)
(* Operands, symbols and instructions.                                     *)
(***************************************************************************)

LEMMA OperandFacts ==
    /\ \A n \in Nat : Temp(n) \in Values /\ StackSlot(n) \in Slots
    /\ Slots \subseteq Values /\ \A o \in Slots : o.kind = "slot"
    /\ \A x \in Names : Param(x) \in Values
    /\ \A n \in Nat : Immediate(<<"n", n>>) \in Values /\ Immediate(<<"n", n>>).kind = "imm"
    /\ \A t \in Types : Immediate(<<"type", t>>) \in Values /\ Immediate(<<"type", t>>).kind = "imm"
    /\ Values \subseteq Operands /\ NoOperand \in Operands
    /\ \A n \in Nat : Temp(n).kind = "temp" /\ StackSlot(n).kind = "slot"
    /\ NoOperand.kind = "none"
    /\ \A o \in Values : o.kind \in ValueKinds
BY DEF Values, Operands, Slots, Operand, Temp, StackSlot, Param, Immediate, NoOperand, ValueKinds

LEMMA TypeFacts ==
    /\ I32 \in Types /\ Void \in Types /\ I32 # Void
    /\ \A t \in SourceTypes : LowerType(t) \in Types
    /\ \A t \in Types : PointerTo(t) \in Types /\ PointerTo(t) # Void
    /\ \A t \in Types : IsPointerType(t) => PointeeType(t) \in Types
<1>1. \A t \in Types : t = [base |-> t.base, depth |-> t.depth] /\ t.depth \in Nat
  BY DEF Types
<1>2. \A t \in Types : PointerTo(t) = [base |-> t.base, depth |-> t.depth + 1]
  BY <1>1 DEF PointerTo, Types
<1>3. \A t \in Types : PointeeType(t) = [base |-> t.base, depth |-> t.depth - 1]
  BY <1>1 DEF PointeeType, Types
<1>4. \A t \in Types : PointerTo(t) \in Types /\ PointerTo(t) # Void
  BY <1>1, <1>2 DEF Types, Void
<1>5. \A t \in Types : IsPointerType(t) => PointeeType(t) \in Types
  BY <1>1, <1>3 DEF Types, IsPointerType
<1> QED BY <1>4, <1>5 DEF Types, I32, Void, SourceTypes, LowerType

\* Instructions the walk emits.
LEMMA GoodControl ==
    /\ \A l \in Nat : Label(l) \in GoodInstructions /\ Jmp(l) \in GoodInstructions
    /\ \A c \in Values, t, f \in Nat : Br(c, t, f) \in GoodInstructions
    /\ \A v \in Operands : Ret(v) \in GoodInstructions
<1>1. \A l \in Nat : l # NoLabel
  BY DEF NoLabel
<1>2. \A l \in Nat : Label(l) \in GoodInstructions /\ Jmp(l) \in GoodInstructions
  BY <1>1 DEF GoodInstructions, Instructions, Label, Jmp, VerifyInstruction
<1>3. \A c \in Values, t, f \in Nat : Br(c, t, f) \in GoodInstructions
  BY DEF GoodInstructions, Instructions, Br, VerifyInstruction, Values, ValueKinds
<1>4. \A v \in Operands : Ret(v) \in GoodInstructions
  BY DEF GoodInstructions, Instructions, Ret, VerifyInstruction
<1> QED BY <1>2, <1>3, <1>4

LEMMA OperandKindsOf ==
    /\ \A o \in {"const", "alloca"} : OperandKinds(o) = <<{"imm"}>>
    /\ \A o \in UnaryOpcodes \cup {"loadInd"} : OperandKinds(o) = <<ValueKinds>>
    /\ \A o \in BinaryOpcodes \cup {"storeInd"} : OperandKinds(o) = <<ValueKinds, ValueKinds>>
    /\ OperandKinds("load") = <<{"slot"}>>
    /\ OperandKinds("store") = <<{"slot"}, ValueKinds>>
BY DEF OperandKinds, UnaryOpcodes, BinaryOpcodes, ArithOpcodes, CompareOpcodes

\* An operation whose operands and destination are what its opcode asks for.
LEMMA GoodOp ==
    ASSUME NEW o \in Opcodes \ {"call"}, NEW dst \in Operands,
           dst.kind \in {"temp", "slot", "none"},
           NEW ops \in Seq(Values), Len(ops) = Len(OperandKinds(o)),
           \A k \in 1..Len(ops) : ops[k].kind \in OperandKinds(o)[k]
    PROVE  Op(o, dst, ops) \in GoodInstructions
<1> DEFINE i == Op(o, dst, ops)
<1>1. /\ i.kind = "op" /\ i.opcode = o /\ i.dst = dst /\ i.operands = ops
      /\ i = [kind |-> "op", opcode |-> o, dst |-> dst, operands |-> ops, callee |-> NoCallee]
  BY DEF Op
<1>2. ops \in Seq(Operands)
  BY DEF Values
<1>3. i \in Instructions(Operands, Nat, Functions)
  BY <1>1, <1>2 DEF Instructions
<1>4. DOMAIN i.operands = 1..Len(ops)
  BY <1>1
<1>5. VerifyOpcodeOperands(i)
  <2> HIDE DEF i
  <2> QED BY <1>1, <1>4 DEF VerifyOpcodeOperands
<1>6. VerifyInstruction(i)
  <2> HIDE DEF i
  <2> QED BY <1>1, <1>5 DEF VerifyInstruction
<1> QED BY <1>3, <1>6 DEF GoodInstructions

LEMMA GoodOpOfOne ==
    ASSUME NEW o \in Opcodes \ {"call"}, NEW dst \in Operands,
           dst.kind \in {"temp", "slot", "none"},
           NEW a \in Values, NEW K, OperandKinds(o) = <<K>>, a.kind \in K
    PROVE  Op(o, dst, <<a>>) \in GoodInstructions
<1>1. <<a>> \in Seq(Values) /\ Len(<<a>>) = 1 /\ <<a>>[1] = a /\ 1..1 = {1}
  OBVIOUS
<1>2. Len(<<K>>) = 1 /\ <<K>>[1] = K
  OBVIOUS
<1> DEFINE ops == <<a>>
           kinds == OperandKinds(o)
<1>3. ops \in Seq(Values) /\ Len(ops) = 1 /\ ops[1] = a /\ Len(kinds) = 1 /\ kinds[1] = K
  BY <1>1, <1>2
<1> HIDE DEF ops, kinds
<1>4. Len(ops) = Len(kinds) /\ \A k \in 1..Len(ops) : ops[k].kind \in kinds[k]
  BY <1>1, <1>3
<1>5. Op(o, dst, ops) \in GoodInstructions
  BY <1>3, <1>4, GoodOp DEF kinds
<1> QED BY <1>5 DEF ops

LEMMA GoodOpOfTwo ==
    ASSUME NEW o \in Opcodes \ {"call"}, NEW dst \in Operands,
           dst.kind \in {"temp", "slot", "none"},
           NEW a \in Values, NEW b \in Values, NEW K, NEW L, OperandKinds(o) = <<K, L>>,
           a.kind \in K, b.kind \in L
    PROVE  Op(o, dst, <<a, b>>) \in GoodInstructions
<1>1. /\ <<a, b>> \in Seq(Values) /\ Len(<<a, b>>) = 2
      /\ <<a, b>>[1] = a /\ <<a, b>>[2] = b /\ 1..2 = {1, 2}
  OBVIOUS
<1>2. Len(<<K, L>>) = 2 /\ <<K, L>>[1] = K /\ <<K, L>>[2] = L
  OBVIOUS
<1> DEFINE ops == <<a, b>>
           kinds == OperandKinds(o)
<1>3. /\ ops \in Seq(Values) /\ Len(ops) = 2 /\ ops[1] = a /\ ops[2] = b
      /\ Len(kinds) = 2 /\ kinds[1] = K /\ kinds[2] = L
  BY <1>1, <1>2
<1> HIDE DEF ops, kinds
<1>4. Len(ops) = Len(kinds) /\ \A k \in 1..Len(ops) : ops[k].kind \in kinds[k]
  BY <1>1, <1>3
<1>5. Op(o, dst, ops) \in GoodInstructions
  BY <1>3, <1>4, GoodOp DEF kinds
<1> QED BY <1>5 DEF ops

LEMMA GoodOps ==
    ASSUME NEW n \in Nat, NEW a \in Values, NEW b \in Values, NEW s \in Slots
    PROVE  /\ \A o \in UnaryOpcodes \cup {"loadInd"} : Op(o, Temp(n), <<a>>) \in GoodInstructions
           /\ \A o \in BinaryOpcodes : Op(o, Temp(n), <<a, b>>) \in GoodInstructions
           /\ \A c \in Nat : Op("const", Temp(n), <<Immediate(<<"n", c>>)>>) \in GoodInstructions
           /\ \A t \in Types : Op("alloca", s, <<Immediate(<<"type", t>>)>>) \in GoodInstructions
           /\ a.kind = "slot" => /\ Op("load", Temp(n), <<a>>) \in GoodInstructions
                                 /\ Op("store", NoOperand, <<a, b>>) \in GoodInstructions
           /\ Op("storeInd", NoOperand, <<a, b>>) \in GoodInstructions
<1>1. UnaryOpcodes \cup BinaryOpcodes
          \cup {"loadInd", "const", "alloca", "load", "store", "storeInd"} \subseteq Opcodes \ {"call"}
  BY DEF Opcodes, UnaryOpcodes, BinaryOpcodes, ArithOpcodes, CompareOpcodes
<1>2. /\ Temp(n) \in Operands /\ Temp(n).kind \in {"temp", "slot", "none"}
      /\ s \in Operands /\ s.kind \in {"temp", "slot", "none"}
      /\ NoOperand \in Operands /\ NoOperand.kind \in {"temp", "slot", "none"}
      /\ a.kind \in ValueKinds /\ b.kind \in ValueKinds
  BY OperandFacts
<1>3. \A o \in UnaryOpcodes \cup {"loadInd"} : Op(o, Temp(n), <<a>>) \in GoodInstructions
  BY <1>1, <1>2, OperandKindsOf, GoodOpOfOne
<1>4. \A o \in BinaryOpcodes : Op(o, Temp(n), <<a, b>>) \in GoodInstructions
  BY <1>1, <1>2, OperandKindsOf, GoodOpOfTwo
<1>5. \A c \in Nat : Op("const", Temp(n), <<Immediate(<<"n", c>>)>>) \in GoodInstructions
  <2> TAKE c \in Nat
  <2>1. Immediate(<<"n", c>>) \in Values /\ Immediate(<<"n", c>>).kind \in {"imm"}
    BY OperandFacts
  <2> QED BY <1>1, <1>2, <2>1, OperandKindsOf, GoodOpOfOne
<1>6. \A t \in Types : Op("alloca", s, <<Immediate(<<"type", t>>)>>) \in GoodInstructions
  <2> TAKE t \in Types
  <2>1. Immediate(<<"type", t>>) \in Values /\ Immediate(<<"type", t>>).kind \in {"imm"}
    BY OperandFacts
  <2> QED BY <1>1, <1>2, <2>1, OperandKindsOf, GoodOpOfOne
<1>7. ASSUME a.kind = "slot" PROVE Op("load", Temp(n), <<a>>) \in GoodInstructions
  <2>1. a.kind \in {"slot"}
    BY <1>7
  <2> QED BY <1>1, <1>2, <2>1, OperandKindsOf, GoodOpOfOne
<1>8. ASSUME a.kind = "slot" PROVE Op("store", NoOperand, <<a, b>>) \in GoodInstructions
  <2>1. a.kind \in {"slot"}
    BY <1>8
  <2> QED BY <1>1, <1>2, <2>1, OperandKindsOf, GoodOpOfTwo
<1>9. Op("storeInd", NoOperand, <<a, b>>) \in GoodInstructions
  BY <1>1, <1>2, OperandKindsOf, GoodOpOfTwo
<1> QED BY <1>3, <1>4, <1>5, <1>6, <1>7, <1>8, <1>9

LEMMA GoodCall ==
    ASSUME NEW f \in Functions, NEW dst \in Operands, dst.kind \in {"temp", "slot", "none"},
           NEW args \in Seq(Values)
    PROVE  Call(f, dst, args) \in GoodInstructions
<1> DEFINE i == Call(f, dst, args)
<1>1. /\ i.kind = "op" /\ i.opcode = "call" /\ i.dst = dst /\ i.operands = args /\ i.callee = f
      /\ i = [kind |-> "op", opcode |-> "call", dst |-> dst, operands |-> args, callee |-> f]
  BY DEF Call
<1>2. args \in Seq(Operands) /\ "call" \in Opcodes
  BY DEF Values, Opcodes
<1>3. i \in Instructions(Operands, Nat, Functions)
  BY <1>1, <1>2 DEF Instructions
<1>4. \A k \in DOMAIN i.operands : i.operands[k].kind \in ValueKinds
  <2> HIDE DEF i
  <2> QED BY <1>1, OperandFacts
<1>5. f # NoCallee
  BY FunctionsAssumption
<1>6. VerifyOpcodeOperands(i)
  <2> HIDE DEF i
  <2> QED BY <1>1, <1>2, <1>4, <1>5 DEF VerifyOpcodeOperands
<1>7. VerifyInstruction(i)
  <2> HIDE DEF i
  <2> QED BY <1>1, <1>6 DEF VerifyInstruction
<1> QED BY <1>3, <1>7 DEF GoodInstructions

(***************************************************************************)
(* The parts of the state.                                                 *)
(***************************************************************************)

LEMMA FramesTyped ==
    ASSUME TypeInv, FramesNest, mode \in Working
    PROVE  /\ Len(frames) \in Nat \ {0} /\ top \in GoodFrames
           /\ Pop \in Seq(GoodFrames)
           /\ \A f \in GoodFrames : /\ Append(frames, f) \in Seq(GoodFrames)
                                   /\ ReplaceTop(f) \in Seq(GoodFrames)
<1>1. frames \in Seq(GoodFrames) /\ Len(frames) \in Nat /\ Len(frames) >= 1
  BY DEF TypeInv, FramesNest
<1>2. Pop \in Seq(GoodFrames)
  BY <1>1, SeqFacts DEF Pop
<1>3. top \in GoodFrames
  BY <1>1, SeqFacts DEF top
<1> QED BY <1>1, <1>2, <1>3, SeqFacts DEF ReplaceTop

LEMMA NewFrames ==
    /\ \A k \in FrameKinds \ (EndKinds \cup {"decl"}) : Frame(k) \in GoodFrames
    /\ \A d \in GoodSymbols \ {Undeclared} : [Frame("decl") EXCEPT !.decl = d] \in GoodFrames
    /\ \A h, b, e \in Nat :
          [Frame("whileCond") EXCEPT !.head = h, !.body = b, !.end = e] \in GoodFrames
    /\ \A h, b, a, e \in Nat :
          [Frame("forCond") EXCEPT !.head = h, !.body = b, !.alt = a, !.end = e] \in GoodFrames
    /\ \A e \in Nat : [Frame("then") EXCEPT !.end = e] \in GoodFrames
    /\ \A e, a \in Nat : [Frame("thenElse") EXCEPT !.end = e, !.alt = a] \in GoodFrames
<1>1. /\ NoLabel \in LabelIDs /\ Nat \subseteq LabelIDs
      /\ Undeclared \in Symbols /\ GoodSymbols \subseteq Symbols
  BY TypeFacts DEF LabelIDs, Undeclared, Symbol, Symbols, GoodSymbols, NoOperand
<1>2. \A k \in FrameKinds : Frame(k) \in FrameSet /\ Frame(k).kind = k
  BY <1>1 DEF Frame, FrameSet
<1>3. /\ {"decl", "whileCond", "forCond", "then", "thenElse"} \subseteq FrameKinds
      /\ AltKinds \cup BodyKinds \cup HeadKinds \subseteq EndKinds
      /\ "decl" \notin EndKinds
      /\ {"whileCond", "then"} \cap AltKinds = {}
      /\ {"then", "thenElse"} \cap (BodyKinds \cup HeadKinds) = {}
  BY DEF EndKinds, FrameKinds, AltKinds, BodyKinds, HeadKinds, ExprKinds, ScopeKinds, BlockKinds,
         ForKinds
<1>4. \A k \in FrameKinds \ (EndKinds \cup {"decl"}) : Frame(k) \in GoodFrames
  BY <1>2, <1>3 DEF GoodFrames
<1>5. ASSUME NEW d \in GoodSymbols \ {Undeclared}
      PROVE  [Frame("decl") EXCEPT !.decl = d] \in GoodFrames
  <2> DEFINE f == Frame("decl")
             g == [f EXCEPT !.decl = d]
  <2>1. f \in FrameSet /\ f.kind = "decl"
    BY <1>2, <1>3
  <2> HIDE DEF f
  <2>2. g \in FrameSet /\ g.kind = "decl" /\ g.decl = d
    BY <1>1, <2>1 DEF FrameSet
  <2> HIDE DEF g
  <2>3. g \in GoodFrames
    BY <1>3, <2>2 DEF GoodFrames
  <2> QED BY <2>3 DEF f, g
<1>6. ASSUME NEW h \in Nat, NEW b \in Nat, NEW e \in Nat
      PROVE  [Frame("whileCond") EXCEPT !.head = h, !.body = b, !.end = e] \in GoodFrames
  <2> DEFINE f == Frame("whileCond")
             g == [f EXCEPT !.head = h, !.body = b, !.end = e]
  <2>1. f \in FrameSet /\ f.kind = "whileCond"
    BY <1>2, <1>3
  <2> HIDE DEF f
  <2>2. g \in FrameSet /\ g.kind = "whileCond" /\ g.head = h /\ g.body = b /\ g.end = e
    BY <1>1, <2>1 DEF FrameSet
  <2> HIDE DEF g
  <2>3. g \in GoodFrames
    BY <1>3, <2>2 DEF GoodFrames
  <2> QED BY <2>3 DEF f, g
<1>7. ASSUME NEW h \in Nat, NEW b \in Nat, NEW a \in Nat, NEW e \in Nat
      PROVE  [Frame("forCond") EXCEPT !.head = h, !.body = b, !.alt = a, !.end = e] \in GoodFrames
  <2> DEFINE f == Frame("forCond")
             g == [f EXCEPT !.head = h, !.body = b, !.alt = a, !.end = e]
  <2>1. f \in FrameSet /\ f.kind = "forCond"
    BY <1>2, <1>3
  <2> HIDE DEF f
  <2>2. g \in FrameSet /\ g.kind = "forCond" /\ g.head = h /\ g.body = b /\ g.alt = a /\ g.end = e
    BY <1>1, <2>1 DEF FrameSet
  <2> HIDE DEF g
  <2>3. g \in GoodFrames
    BY <1>3, <2>2 DEF GoodFrames
  <2> QED BY <2>3 DEF f, g
<1>8. ASSUME NEW e \in Nat
      PROVE  [Frame("then") EXCEPT !.end = e] \in GoodFrames
  <2> DEFINE f == Frame("then")
             g == [f EXCEPT !.end = e]
  <2>1. f \in FrameSet /\ f.kind = "then"
    BY <1>2, <1>3
  <2> HIDE DEF f
  <2>2. g \in FrameSet /\ g.kind = "then" /\ g.end = e
    BY <1>1, <2>1 DEF FrameSet
  <2> HIDE DEF g
  <2>3. g \in GoodFrames
    BY <1>3, <2>2 DEF GoodFrames
  <2> QED BY <2>3 DEF f, g
<1>9. ASSUME NEW e \in Nat, NEW a \in Nat
      PROVE  [Frame("thenElse") EXCEPT !.end = e, !.alt = a] \in GoodFrames
  <2> DEFINE f == Frame("thenElse")
             g == [f EXCEPT !.end = e, !.alt = a]
  <2>1. f \in FrameSet /\ f.kind = "thenElse"
    BY <1>2, <1>3
  <2> HIDE DEF f
  <2>2. g \in FrameSet /\ g.kind = "thenElse" /\ g.end = e /\ g.alt = a
    BY <1>1, <2>1 DEF FrameSet
  <2> HIDE DEF g
  <2>3. g \in GoodFrames
    BY <1>3, <2>2 DEF GoodFrames
  <2> QED BY <2>3 DEF f, g
<1> QED BY <1>4, <1>5, <1>6, <1>7, <1>8, <1>9

\* The frames made of the frame on top.
LEMMA NextFrames ==
    ASSUME NEW f \in GoodFrames, NEW r \in BOOLEAN
    PROVE  /\ f.kind = "thenElse" =>
                  [f EXCEPT !.kind = "else", !.alt = NoLabel, !.flag = r] \in GoodFrames
           /\ f.kind = "whileCond" => [f EXCEPT !.kind = "while", !.body = NoLabel] \in GoodFrames
           /\ f.kind = "forCond" => [f EXCEPT !.kind = "forBody", !.body = NoLabel] \in GoodFrames
           /\ f.kind = "forBody" => [f EXCEPT !.kind = "forPost", !.alt = NoLabel] \in GoodFrames
<1>1. /\ f \in FrameSet
      /\ f = [kind |-> f.kind, head |-> f.head, body |-> f.body, alt |-> f.alt, end |-> f.end,
               flag |-> f.flag, decl |-> f.decl]
  BY DEF GoodFrames, FrameSet
<1>2. NoLabel \in LabelIDs /\ {"else", "while", "forBody", "forPost"} \subseteq FrameKinds
  BY DEF LabelIDs, FrameKinds, ScopeKinds, ForKinds
<1>3. CASE f.kind = "thenElse"
  <2>1. [f EXCEPT !.kind = "else", !.alt = NoLabel, !.flag = r] \in FrameSet
    BY <1>1, <1>2 DEF FrameSet
  <2> QED BY <1>3, <2>1 DEF GoodFrames, FrameSet, EndKinds, AltKinds, BodyKinds, HeadKinds
<1>4. CASE f.kind = "whileCond"
  <2>1. [f EXCEPT !.kind = "while", !.body = NoLabel] \in FrameSet
    BY <1>1, <1>2 DEF FrameSet
  <2> QED BY <1>4, <2>1 DEF GoodFrames, FrameSet, EndKinds, AltKinds, BodyKinds, HeadKinds
<1>5. CASE f.kind = "forCond"
  <2>1. [f EXCEPT !.kind = "forBody", !.body = NoLabel] \in FrameSet
    BY <1>1, <1>2 DEF FrameSet
  <2> QED BY <1>5, <2>1 DEF GoodFrames, FrameSet, EndKinds, AltKinds, BodyKinds, HeadKinds
<1>6. CASE f.kind = "forBody"
  <2>1. [f EXCEPT !.kind = "forPost", !.alt = NoLabel] \in FrameSet
    BY <1>1, <1>2 DEF FrameSet
  <2> QED BY <1>6, <2>1 DEF GoodFrames, FrameSet, EndKinds, AltKinds, BodyKinds, HeadKinds
<1> QED BY <1>3, <1>4, <1>5, <1>6

LEMMA ScopesTyped ==
    ASSUME TypeInv, FramesNest, mode \in Working
    PROVE  /\ PushScope => scopes' \in Seq([Names -> GoodSymbols])
           /\ PopScope => scopes' \in Seq([Names -> GoodSymbols])
           /\ \A x \in Names, sym \in GoodSymbols :
                  DeclareLocal(x, sym) => scopes' \in Seq([Names -> GoodSymbols])
           /\ \A x \in Names : ResolveVariable(x) \in GoodSymbols
<1>1. /\ scopes \in Seq([Names -> GoodSymbols])
      /\ Len(scopes) \in Nat /\ Len(scopes) >= 1 /\ DOMAIN scopes = 1..Len(scopes)
  BY ScopeMoves, SeqFacts DEF TypeInv
<1>2. Undeclared \in GoodSymbols
  BY TypeFacts DEF GoodSymbols, Undeclared, Symbol, Symbols
<1>3. NoNames \in [Names -> GoodSymbols]
  BY <1>2 DEF NoNames
<1>4. PushScope => scopes' \in Seq([Names -> GoodSymbols])
  BY <1>1, <1>3, SeqFacts DEF PushScope
<1>5. PopScope => scopes' \in Seq([Names -> GoodSymbols])
  BY <1>1, SeqFacts DEF PopScope
<1>6. ASSUME NEW x \in Names, NEW sym \in GoodSymbols, DeclareLocal(x, sym)
      PROVE  scopes' \in Seq([Names -> GoodSymbols])
  <2> DEFINE n == Len(scopes)
             e == [scopes[n] EXCEPT ![x] = sym]
  <2>1. n \in 1..n /\ scopes[n] \in [Names -> GoodSymbols]
    BY <1>1
  <2>2. e \in [Names -> GoodSymbols]
    BY <2>1
  <2>3. scopes' = [scopes EXCEPT ![n] = e]
    BY <1>6 DEF DeclareLocal
  <2> HIDE DEF e
  <2> QED BY <1>1, <2>1, <2>2, <2>3
<1>7. ASSUME NEW x \in Names PROVE ResolveVariable(x) \in GoodSymbols
  <2>1. CASE DeclaredIn(x) = {}
    BY <1>2, <2>1 DEF ResolveVariable
  <2>2. CASE DeclaredIn(x) # {}
    <3>1. DeclaredIn(x) \in SUBSET (0..Len(scopes))
      BY <1>1 DEF DeclaredIn
    <3>2. Max(DeclaredIn(x)) \in DeclaredIn(x)
      <4>1. PICK m \in DeclaredIn(x) : \A k \in DeclaredIn(x) : k <= m
        BY <1>1, <2>2, <3>1, GreatestNatural
      <4>2. \A k \in DeclaredIn(x) : m >= k
        BY <1>1, <3>1, <4>1
      <4> QED BY <4>2 DEF Max
    <3>3. Max(DeclaredIn(x)) \in 1..Len(scopes)
      BY <1>1, <3>2 DEF DeclaredIn
    <3> QED BY <1>1, <2>2, <3>3 DEF ResolveVariable
  <2> QED BY <2>1, <2>2
<1> QED BY <1>4, <1>5, <1>6, <1>7

LEMMA EntryFacts ==
    /\ \A o \in Operands, t \in Types :
          (t # Void => o \in Values) => Value(o, t) \in GoodEntries
    /\ \A o \in Values, t \in Types \ {Void} : Address(o, t) \in GoodEntries
    /\ \A f \in Functions : PendingCall(f) \in GoodEntries
    /\ \A e \in GoodEntries :
          /\ e.operand \in Operands /\ e.type \in Types
          /\ e.cat \in {"value", "address"} /\ e.type # Void => e.operand \in Values
          /\ e.cat = "address" => e.type # Void
          /\ e.cat = "call" => e.callee \in Functions
<1>1. \A o \in Operands, t \in Types :
          (t # Void => o \in Values) => Value(o, t) \in GoodEntries
  BY DEF Value, GoodEntries, Entries
<1>2. \A o \in Values, t \in Types \ {Void} : Address(o, t) \in GoodEntries
  BY DEF Address, GoodEntries, Entries, Values
<1>3. \A f \in Functions : PendingCall(f) \in GoodEntries
  BY OperandFacts, TypeFacts DEF PendingCall, GoodEntries, Entries
<1>4. \A e \in GoodEntries :
          /\ e.operand \in Operands /\ e.type \in Types
          /\ e.cat \in {"value", "address"} /\ e.type # Void => e.operand \in Values
          /\ e.cat = "address" => e.type # Void
          /\ e.cat = "call" => e.callee \in Functions
  BY DEF GoodEntries, Entries
<1> QED BY <1>1, <1>2, <1>3, <1>4

LEMMA ValsTyped ==
    ASSUME TypeInv
    PROVE  /\ Len(vals) \in Nat
           /\ \A e \in GoodEntries : Append(vals, e) \in Seq(GoodEntries)
           /\ \A n \in 1..Len(vals) :
                 /\ Top(n) \in GoodEntries
                 /\ Below(n) \in Seq(GoodEntries)
                 /\ \A e \in GoodEntries : Append(Below(n), e) \in Seq(GoodEntries)
           /\ \A cat : \A n \in {1, 2} : HasTop(n, cat) => n \in 1..Len(vals) /\ Top(n).cat = cat
           /\ \A cat : HasTop(2, cat) => 1 \in 1..Len(vals)
<1>1. vals \in Seq(GoodEntries) /\ Len(vals) \in Nat
  BY DEF TypeInv
<1>2. \A n \in 1..Len(vals) : Len(vals) - n + 1 \in 1..Len(vals) /\ n \in Nat /\ n <= Len(vals)
  BY <1>1
<1>3. \A n \in 1..Len(vals) : Top(n) \in GoodEntries
  BY <1>1, <1>2, SeqFacts DEF Top
<1>4. \A n \in 1..Len(vals) : Below(n) \in Seq(GoodEntries)
  BY <1>1, <1>2, SeqFacts DEF Below
<1> QED BY <1>1, <1>3, <1>4, SeqFacts DEF HasTop

LEMMA RejectTyped ==
    ASSUME TypeInv, NEW d \in Diagnostics, Reject(d)
    PROVE  TypeInv'
BY ShortSeqs DEF Reject, TypeInv, Modes

\* What a step of an expression changes: the code grows by good instructions and
\* the values are good.
LEMMA GrowsTyped ==
    ASSUME TypeInv, NEW s \in Seq(GoodInstructions), code' = code \o s,
           header' = header, params' = params, diagnostic' = diagnostic,
           nextTempID' \in Nat, nextLabelID' \in Nat, nodes' \in Nat,
           scopes' \in Seq([Names -> GoodSymbols]), frames' \in Seq(GoodFrames),
           vals' \in Seq(GoodEntries), mode' \in Modes, reachable' \in BOOLEAN
    PROVE  TypeInv'
<1>1. code' \in Seq(GoodInstructions)
  BY SeqFacts DEF TypeInv
<1> QED BY <1>1 DEF TypeInv

LEMMA SameCodeTyped ==
    ASSUME TypeInv, code' = code,
           header' = header, params' = params, diagnostic' = diagnostic,
           nextTempID' \in Nat, nextLabelID' \in Nat, nodes' \in Nat,
           scopes' \in Seq([Names -> GoodSymbols]), frames' \in Seq(GoodFrames),
           vals' \in Seq(GoodEntries), mode' \in Modes, reachable' \in BOOLEAN
    PROVE  TypeInv'
BY DEF TypeInv

(***************************************************************************)
(* Expressions.                                                            *)
(***************************************************************************)

\* A step of an expression, but for the code, the counter, the values and the
\* number of nodes.
InExpression == UNCHANGED unchangedByExpressions

LEMMA PushTyped ==
    ASSUME TypeInv, InExpression,
           NEW i \in GoodInstructions, NEW e \in GoodEntries,
           code' = code \o <<i>>, vals' = Append(vals, e),
           nextTempID' \in Nat, nodes' \in Nat
    PROVE  TypeInv'
<1>1. <<i>> \in Seq(GoodInstructions) /\ Append(vals, e) \in Seq(GoodEntries)
  BY ShortSeqs, ValsTyped
<1> QED BY <1>1, GrowsTyped DEF InExpression, unchangedByExpressions, TypeInv

LEMMA ReplaceTyped ==
    ASSUME TypeInv, InExpression, NEW n \in 1..Len(vals),
           NEW e \in GoodEntries, vals' = Append(Below(n), e), 
           nextTempID' \in Nat, nodes' \in Nat,
           code' = code \/ \E s \in Seq(GoodInstructions) : code' = code \o s
    PROVE  TypeInv'
<1>1. Append(Below(n), e) \in Seq(GoodEntries)
  BY ValsTyped
<1>2. CASE code' = code
  BY <1>1, <1>2, SameCodeTyped DEF InExpression, unchangedByExpressions, TypeInv
<1>3. CASE \E s \in Seq(GoodInstructions) : code' = code \o s
  BY <1>1, <1>3, GrowsTyped DEF InExpression, unchangedByExpressions, TypeInv
<1> QED BY <1>2, <1>3

LEMMA ComputeTyped ==
    ASSUME TypeInv, InExpression, NEW n \in 1..Len(vals), NEW op, NEW operands, NEW t \in Types,
           Op(op, Temp(nextTempID), operands) \in GoodInstructions,
           Compute(n, op, operands, t), nodes' \in Nat
    PROVE  TypeInv'
<1> DEFINE i == Op(op, Temp(nextTempID), operands)
<1>1. code' = code \o <<i>> /\ <<i>> \in Seq(GoodInstructions)
  BY ShortSeqs DEF Compute, Emit
<1>2. nextTempID \in Nat /\ nextTempID' \in Nat
  BY DEF Compute, TypeInv
<1>3. Value(Temp(nextTempID), t) \in GoodEntries
  BY <1>2, OperandFacts, EntryFacts
<1> HIDE DEF i
<1> QED BY <1>1, <1>2, <1>3, ReplaceTyped DEF Compute

\* The innermost call that waits for its arguments, and the arguments.
LEMMA InnermostCall ==
    ASSUME TypeInv, ArgumentsDone, ArgumentsMatch
    PROVE  /\ innermost \in 1..Len(vals)
           /\ vals[innermost].callee \in Functions
           /\ SubSeq(vals, 1, innermost - 1) \in Seq(GoodEntries)
           /\ Arguments \in Seq(GoodEntries)
           /\ [i \in DOMAIN Arguments |-> Arguments[i].operand] \in Seq(Values)
<1>1. vals \in Seq(GoodEntries) /\ Len(vals) \in Nat /\ DOMAIN vals = 1..Len(vals)
  BY SeqFacts DEF TypeInv
<1>2. innermost \in PendingCalls
  <2>1. PendingCalls \in SUBSET (0..Len(vals)) /\ PendingCalls # {}
    BY <1>1 DEF PendingCalls, ArgumentsDone
  <2>2. PICK m \in PendingCalls : \A k \in PendingCalls : k <= m
    BY <1>1, <2>1, GreatestNatural
  <2>3. \A k \in PendingCalls : m >= k
    BY <1>1, <2>1, <2>2
  <2> QED BY <2>3 DEF innermost, Max
<1>3. innermost \in 1..Len(vals) /\ vals[innermost].cat = "call"
  BY <1>1, <1>2 DEF PendingCalls
<1>4. vals[innermost].callee \in Functions
  BY <1>1, <1>3, SeqFacts, EntryFacts
<1>5. SubSeq(vals, 1, innermost - 1) \in Seq(GoodEntries)
  <2>1. Len(vals) - innermost + 1 \in Nat /\ Len(vals) - innermost + 1 <= Len(vals)
        /\ innermost - 1 = Len(vals) - (Len(vals) - innermost + 1)
    BY <1>1, <1>3
  <2> QED BY <1>1, <2>1, SeqFacts
<1>6. Arguments \in Seq(GoodEntries)
  BY <1>1, <1>3, SeqFacts DEF Arguments
<1>7. ArgumentTypes \in Seq(Types \ {Void})
  BY <1>4, SignaturesAssumption DEF ArgumentTypes
<1>8. \A i \in 1..Len(Arguments) : Arguments[i].operand \in Values
  <2> SUFFICES ASSUME NEW i \in 1..Len(Arguments) PROVE Arguments[i].operand \in Values
    OBVIOUS
  <2>1. Arguments[i] \in GoodEntries /\ i \in DOMAIN Arguments
    BY <1>6, SeqFacts
  <2>2. Len(Arguments) = Len(ArgumentTypes) /\ Arguments[i].cat = "value"
    BY <2>1 DEF ArgumentsDone
  <2>3. ArgumentTypes[i] \in Types \ {Void}
    BY <1>7, <2>2, SeqFacts
  <2>4. Arguments[i].type # Void
    BY <2>1, <2>3 DEF ArgumentsMatch
  <2> QED BY <2>1, <2>2, <2>4, EntryFacts
<1>9. [i \in DOMAIN Arguments |-> Arguments[i].operand] \in Seq(Values)
  <2>1. DOMAIN Arguments = 1..Len(Arguments) /\ Len(Arguments) \in Nat
    BY <1>6, SeqFacts
  <2> QED BY <1>8, <2>1
<1> QED BY <1>3, <1>4, <1>5, <1>6, <1>9

LEMMA ExpressionsTyped ==
    ASSUME TypeInv, FramesNest, ExpressionStep
    PROVE  TypeInv'
<1>0. /\ nodes \in Nat /\ nodes + 1 \in Nat /\ nextTempID \in Nat /\ nextTempID + 1 \in Nat
      /\ nextTempID + 2 \in Nat /\ nextTempID + 3 \in Nat
  BY DEF TypeInv
<1>1. ASSUME NEW c \in Literals, Literal(c) PROVE TypeInv'
  <2>1. c \in Nat
    BY LiteralsAssumption
  <2>2. Op("const", Temp(nextTempID), <<Immediate(<<"n", c>>)>>) \in GoodInstructions
    BY <1>0, <2>1, GoodOps, OperandFacts
  <2>3. Value(Temp(nextTempID), I32) \in GoodEntries
    BY <1>0, OperandFacts, TypeFacts, EntryFacts
  <2> QED BY <1>0, <1>1, <2>2, <2>3, PushTyped DEF Literal, Push, Emit, InExpression
<1>2. ASSUME NEW x \in Names, Identifier(x) PROVE TypeInv'
  <2> DEFINE sym == ResolveVariable(x)
  <2>1. mode \in Working
    BY <1>2 DEF Identifier, MayAddOperand, OperandNeeded, OperandFits, Working
  <2>2. sym \in GoodSymbols /\ sym # Undeclared
    BY <1>2, <2>1, ScopesTyped DEF Identifier
  <2>3. sym.type \in Types /\ sym.slot \in Slots
    BY <2>2 DEF GoodSymbols, Symbols
  <2>4. Op("load", Temp(nextTempID), <<sym.slot>>) \in GoodInstructions
    BY <1>0, <2>3, GoodOps, OperandFacts
  <2>5. Value(Temp(nextTempID), sym.type) \in GoodEntries
    BY <1>0, <2>3, OperandFacts, EntryFacts
  <2> QED BY <1>0, <1>2, <2>4, <2>5, PushTyped DEF Identifier, Push, Emit, InExpression
<1>3. ASSUME NEW x \in Names, AddressOfIdentifier(x) PROVE TypeInv'
  <2> DEFINE sym == ResolveVariable(x)
  <2>1. mode \in Working
    BY <1>3 DEF AddressOfIdentifier, MayAddOperand, OperandNeeded, OperandFits, Working
  <2>2. sym \in GoodSymbols /\ sym # Undeclared
    BY <1>3, <2>1, ScopesTyped DEF AddressOfIdentifier
  <2>3. sym.type \in Types \ {Void} /\ sym.slot \in Values
    BY <2>2, OperandFacts DEF GoodSymbols, Symbols
  <2>4. Append(vals, Address(sym.slot, sym.type)) \in Seq(GoodEntries)
    BY <2>3, EntryFacts, ValsTyped
  <2> QED BY <1>0, <1>3, <2>4, SameCodeTyped
          DEF AddressOfIdentifier, Push, unchangedByExpressions, TypeInv
<1>4. CASE Dereference
  <2>1. 1 \in 1..Len(vals) /\ Top(1) \in GoodEntries /\ Top(1).cat = "value"
    BY <1>4, ValsTyped DEF Dereference
  <2>2. Top(1).type \in Types /\ IsPointerType(Top(1).type)
    BY <1>4, <2>1, EntryFacts DEF Dereference, DerefError, NoDiagnostic
  <2>3. Top(1).type # Void
    BY <2>2 DEF IsPointerType, Void
  <2>4. Top(1).operand \in Values /\ PointeeType(Top(1).type) \in Types
    BY <2>1, <2>2, <2>3, EntryFacts, TypeFacts
  <2> DEFINE op == IF Top(1).operand.kind = "slot" THEN "load" ELSE "loadInd"
  <2>5. Op(op, Temp(nextTempID), <<Top(1).operand>>) \in GoodInstructions
    BY <1>0, <2>4, GoodOps, OperandFacts
  <2>6. Compute(1, op, <<Top(1).operand>>, PointeeType(Top(1).type)) /\ nodes' = nodes + 1
    BY <1>4 DEF Dereference
  <2> HIDE DEF op
  <2> QED BY <1>0, <1>4, <2>1, <2>4, <2>5, <2>6, ComputeTyped DEF Dereference, InExpression
<1>5. CASE AddressOfDereference
  <2>1. 1 \in 1..Len(vals) /\ Top(1) \in GoodEntries /\ Top(1).cat = "value"
    BY <1>5, ValsTyped DEF AddressOfDereference
  <2>2. /\ Top(1).type \in Types /\ IsPointerType(Top(1).type)
        /\ PointeeType(Top(1).type) # Void
    BY <1>5, <2>1, EntryFacts DEF AddressOfDereference, DerefError, NoDiagnostic
  <2>3. Top(1).type # Void
    BY <2>2 DEF IsPointerType, Void
  <2>4. Top(1).operand \in Values /\ PointeeType(Top(1).type) \in Types
    BY <2>1, <2>2, <2>3, EntryFacts, TypeFacts
  <2>5. Address(Top(1).operand, PointeeType(Top(1).type)) \in GoodEntries
    BY <2>2, <2>4, EntryFacts
  <2> QED BY <1>0, <1>5, <2>1, <2>5, ReplaceTyped DEF AddressOfDereference, InExpression
<1>6. CASE AddressOf
  <2>1. 1 \in 1..Len(vals) /\ Top(1) \in GoodEntries /\ Top(1).cat = "address"
    BY <1>6, ValsTyped DEF AddressOf
  <2>2. Top(1).operand \in Values /\ Top(1).type \in Types
    BY <2>1, EntryFacts
  <2>3. Value(Top(1).operand, PointerTo(Top(1).type)) \in GoodEntries
    BY <2>2, EntryFacts, TypeFacts, OperandFacts
  <2> QED BY <1>0, <1>6, <2>1, <2>3, ReplaceTyped DEF AddressOf, InExpression
<1>7. ASSUME NEW op \in UnaryOps, Unary(op) PROVE TypeInv'
  <2>1. 1 \in 1..Len(vals) /\ Top(1) \in GoodEntries /\ Top(1).cat = "value"
    BY <1>7, ValsTyped DEF Unary
  <2>2. Top(1).operand \in Values
    BY <1>7, <2>1, EntryFacts, TypeFacts DEF Unary
  <2>3. CASE op = "plus"
    BY <1>0, <1>7, <2>3, SameCodeTyped DEF Unary, unchangedByExpressions, TypeInv
  <2>4. CASE op # "plus"
    <3>1. op \in UnaryOpcodes
      BY <2>4, OperatorsAssumption
    <3>2. Op(op, Temp(nextTempID), <<Top(1).operand>>) \in GoodInstructions
      BY <1>0, <2>2, <3>1, GoodOps, OperandFacts
    <3>3. Compute(1, op, <<Top(1).operand>>, I32) /\ nodes' = nodes + 1 /\ InExpression
      BY <1>7, <2>4 DEF Unary, InExpression
    <3> QED BY <1>0, <2>1, <3>2, <3>3, ComputeTyped, TypeFacts
  <2> QED BY <2>3, <2>4
<1>8. ASSUME TwoValues, NonVoid
      PROVE  /\ 1 \in 1..Len(vals) /\ 2 \in 1..Len(vals)
             /\ Top(1).operand \in Values /\ Top(2).operand \in Values
             /\ Top(1).type \in Types /\ Top(2).type \in Types
  BY <1>8, ValsTyped, EntryFacts DEF TwoValues, NonVoid
<1>9. ASSUME NEW op \in BinaryOps, Binary(op) PROVE TypeInv'
  <2> DEFINE t == IF op \in CompareOpcodes THEN I32 ELSE Top(2).type
  <2>1. TwoValues /\ NonVoid /\ InExpression /\ nodes' = nodes
        /\ Compute(2, op, <<Top(2).operand, Top(1).operand>>, t)
    BY <1>9 DEF Binary, InExpression
  <2>2. t \in Types
    BY <1>8, <2>1, TypeFacts
  <2>3. op \in BinaryOpcodes
    BY OperatorsAssumption
  <2>4. Op(op, Temp(nextTempID), <<Top(2).operand, Top(1).operand>>) \in GoodInstructions
    BY <1>0, <1>8, <2>1, <2>3, GoodOps, OperandFacts
  <2> HIDE DEF t
  <2> QED BY <1>0, <1>8, <2>1, <2>2, <2>4, ComputeTyped
<1>10. ASSUME NEW op \in LogicalOps, Logical(op) PROVE TypeInv'
  <2> DEFINE zero == Immediate(<<"n", 0>>)
             lhs  == Temp(nextTempID)
             rhs  == Temp(nextTempID + 1)
             res  == Temp(nextTempID + 2)
             a    == Op("ne", lhs, <<Top(2).operand, zero>>)
             b    == Op("ne", rhs, <<Top(1).operand, zero>>)
             c    == Op(op, res, <<lhs, rhs>>)
  <2>1. /\ TwoValues /\ NonVoid /\ InExpression /\ nodes' = nodes
        /\ code' = code \o <<a, b, c>> /\ nextTempID' = nextTempID + 3
        /\ vals' = Append(Below(2), Value(res, I32))
    BY <1>10 DEF Logical, Emit, InExpression
  <2>2. op \in BinaryOpcodes /\ "ne" \in BinaryOpcodes
    BY OperatorsAssumption DEF BinaryOpcodes, ArithOpcodes, CompareOpcodes
  <2>3. zero \in Values /\ lhs \in Values /\ rhs \in Values /\ res \in Values
    BY <1>0, OperandFacts
  <2>4. Top(1).operand \in Values /\ Top(2).operand \in Values /\ 2 \in 1..Len(vals)
    BY <1>8, <2>1
  <2>5. a \in GoodInstructions /\ b \in GoodInstructions /\ c \in GoodInstructions
    BY <1>0, <2>2, <2>3, <2>4, GoodOps, OperandFacts
  <2>6. Value(res, I32) \in GoodEntries
    BY <2>3, EntryFacts, TypeFacts, OperandFacts
  <2> HIDE DEF a, b, c
  <2>7. <<a, b, c>> \in Seq(GoodInstructions)
    BY <2>5, ShortSeqs
  <2> QED BY <1>0, <2>1, <2>4, <2>6, <2>7, ReplaceTyped
<1>11. CASE Assign
  <2> DEFINE op == IF Top(2).operand.kind = "slot" THEN "store" ELSE "storeInd"
             i  == Op(op, NoOperand, <<Top(2).operand, Top(1).operand>>)
  <2>1. /\ 1 \in 1..Len(vals) /\ 2 \in 1..Len(vals)
        /\ Top(1) \in GoodEntries /\ Top(2) \in GoodEntries
        /\ Top(1).cat = "value" /\ Top(2).cat = "address" /\ Top(1).type = Top(2).type
    BY <1>11, ValsTyped DEF Assign
  <2>2. Top(1).operand \in Values /\ Top(2).operand \in Values
    BY <2>1, EntryFacts
  <2>3. i \in GoodInstructions
    BY <1>0, <2>2, GoodOps, OperandFacts
  <2>4. code' = code \o <<i>> /\ vals' = Append(Below(2), Top(1)) /\ InExpression
        /\ nextTempID' = nextTempID /\ nodes' = nodes
    BY <1>11 DEF Assign, Emit, InExpression
  <2> HIDE DEF i
  <2>5. <<i>> \in Seq(GoodInstructions)
    BY <2>3, ShortSeqs
  <2> QED BY <1>0, <2>1, <2>4, <2>5, ReplaceTyped
<1>12. ASSUME NEW f \in Functions, StartCall(f) PROVE TypeInv'
  <2>1. Append(vals, PendingCall(f)) \in Seq(GoodEntries)
    BY EntryFacts, ValsTyped
  <2> QED BY <1>0, <1>12, <2>1, SameCodeTyped DEF StartCall, Push, unchangedByExpressions, TypeInv
<1>13. CASE FinishCall
  <2> DEFINE f    == vals[innermost].callee
             ret  == Signatures[f].ret
             dst  == IF ret = Void THEN NoOperand ELSE Temp(nextTempID)
             args == [i \in DOMAIN Arguments |-> Arguments[i].operand]
             base == SubSeq(vals, 1, innermost - 1)
  <2>1. /\ code' = code \o <<Call(f, dst, args)>> /\ vals' = Append(base, Value(dst, ret))
        /\ nextTempID' = nextTempID + IF ret = Void THEN 0 ELSE 1
        /\ InExpression /\ nodes' = nodes /\ ArgumentsDone /\ ArgumentsMatch
    BY <1>13 DEF FinishCall, Emit, InExpression
  <2>2. f \in Functions /\ base \in Seq(GoodEntries) /\ args \in Seq(Values)
    BY <2>1, InnermostCall
  <2>3. ret \in Types
    BY <2>2, SignaturesAssumption
  <2>4. /\ dst \in Operands /\ dst.kind \in {"temp", "slot", "none"}
        /\ ret # Void => dst \in Values
    BY <1>0, OperandFacts
  <2> HIDE DEF f, ret, dst, args, base
  <2>5. Value(dst, ret) \in GoodEntries
    BY <2>3, <2>4, EntryFacts
  <2>6. Call(f, dst, args) \in GoodInstructions
    BY <2>2, <2>4, GoodCall
  <2>7. <<Call(f, dst, args)>> \in Seq(GoodInstructions)
    BY <2>6, ShortSeqs
  <2>8. vals' \in Seq(GoodEntries) /\ nextTempID' \in Nat
    BY <1>0, <2>1, <2>2, <2>5
  <2> QED BY <1>0, <2>1, <2>7, <2>8, GrowsTyped DEF InExpression, unchangedByExpressions, TypeInv
<1>14. CASE \/ \E c \in Literals : BadLiteral(c)
            \/ \E x \in Names : UndeclaredIdentifier(x)
            \/ BadTarget \/ BadDereference \/ BadUnary \/ BadBinary \/ BadAssign \/ BadCall
            \/ BadArguments
  <2>1. ASSUME NEW t PROVE DerefError(t) \in Diagnostics
    <3>1. CASE ~IsPointerType(t)
      BY <3>1 DEF DerefError, Diagnostics
    <3>2. CASE IsPointerType(t) /\ PointeeType(t) = Void
      BY <3>2 DEF DerefError, Diagnostics
    <3>3. CASE IsPointerType(t) /\ PointeeType(t) # Void
      BY <3>3 DEF DerefError, Diagnostics
    <3> QED BY <3>1, <3>2, <3>3
  <2>2. BadDereference => TypeInv'
    BY <2>1, RejectTyped DEF BadDereference
  <2> QED BY <1>14, <2>2, RejectTyped
     DEF BadLiteral, UndeclaredIdentifier, BadTarget, BadUnary, BadBinary,
         BadAssign, BadCall, BadArguments, Diagnostics
<1> QED BY <1>1, <1>2, <1>3, <1>4, <1>5, <1>6, <1>7, <1>9, <1>10, <1>11, <1>12, <1>13, <1>14
       DEF ExpressionStep

(***************************************************************************)
(* Statements.                                                             *)
(***************************************************************************)

LEMMA StatementTyped ==
    ASSUME TypeInv, UNCHANGED unchangedByStatements,
           code' = code \/ \E s \in Seq(GoodInstructions) : code' = code \o s,
           nextTempID' \in Nat, nextLabelID' \in Nat, nodes' \in Nat,
           scopes' \in Seq([Names -> GoodSymbols]), frames' \in Seq(GoodFrames),
           mode' \in Modes, reachable' \in BOOLEAN
    PROVE  TypeInv'
<1>1. vals' \in Seq(GoodEntries)
  BY DEF TypeInv, unchangedByStatements
<1>2. CASE code' = code
  BY <1>1, <1>2, SameCodeTyped DEF unchangedByStatements
<1>3. CASE \E s \in Seq(GoodInstructions) : code' = code \o s
  BY <1>1, <1>3, GrowsTyped DEF unchangedByStatements
<1> QED BY <1>2, <1>3

\* A declared variable has a slot.
LEMMA VariableTyped ==
    ASSUME TypeInv, NEW x, NEW t \in Types,
           DeclarationError(x, t) = NoDiagnostic
    PROVE  /\ NewVariable(t) \in GoodSymbols \ {Undeclared}
           /\ NewVariable(t).slot \in Slots
           /\ Alloca(NewVariable(t)) \in GoodInstructions
           /\ \A p \in Names :
                 Store(NewVariable(t).slot, Param(p)) \in GoodInstructions
<1> DEFINE sym == NewVariable(t)
<1>1. nextTempID + 1 \in Nat
  BY DEF TypeInv
<1>2. t # Void
  BY DEF DeclarationError, NoDiagnostic
<1>3. sym.type = t /\ sym.slot = StackSlot(nextTempID + 1) /\ sym.slot \in Slots
      /\ sym \in Symbols
  BY <1>1, OperandFacts DEF NewVariable, Symbol, Symbols
<1>4. sym # Undeclared
  BY <1>2, <1>3 DEF Undeclared, Symbol
<1> HIDE DEF sym
<1>5. sym \in GoodSymbols \ {Undeclared}
  BY <1>2, <1>3, <1>4 DEF GoodSymbols
<1>6. Alloca(sym) \in GoodInstructions
  BY <1>1, <1>3, OperandFacts, GoodOps DEF Alloca
<1>7. ASSUME NEW p \in Names PROVE Store(sym.slot, Param(p)) \in GoodInstructions
  <2>1. sym.slot \in Values /\ sym.slot.kind = "slot" /\ Param(p) \in Values
    BY <1>3, OperandFacts
  <2> QED BY <1>1, <1>3, <2>1, GoodOps DEF Store
<1> QED BY <1>3, <1>5, <1>6, <1>7 DEF sym

\* The messages of a declaration.
LEMMA DeclarationErrors ==
    ASSUME NEW x, NEW t
    PROVE  DeclarationError(x, t) \in Diagnostics
<1>1. CASE t = Void
  BY <1>1 DEF DeclarationError, Diagnostics
<1>2. CASE t # Void /\ scopes[Len(scopes)][x] # Undeclared
  BY <1>2 DEF DeclarationError, Diagnostics
<1>3. CASE t # Void /\ scopes[Len(scopes)][x] = Undeclared
  BY <1>3 DEF DeclarationError, Diagnostics
<1> QED BY <1>1, <1>2, <1>3

\* The control instructions a statement ends with.
LEMMA ClosingTyped ==
    ASSUME NEW r, NEW l \in Nat, NEW m \in Nat
    PROVE  /\ JmpIf(r, l) \in Seq(GoodInstructions)
           /\ <<Label(m)>> \in Seq(GoodInstructions)
           /\ JmpIf(r, l) \o <<Label(m)>> \in Seq(GoodInstructions)
           /\ <<Jmp(l), Label(m)>> \in Seq(GoodInstructions)
<1>1. Jmp(l) \in GoodInstructions /\ Label(m) \in GoodInstructions
  BY GoodControl
<1> DEFINE j == Jmp(l)
           a == Label(m)
<1> HIDE DEF j, a
<1>2. <<j>> \in Seq(GoodInstructions) /\ <<a>> \in Seq(GoodInstructions)
      /\ <<j, a>> \in Seq(GoodInstructions) /\ <<>> \in Seq(GoodInstructions)
  BY <1>1, ShortSeqs DEF j, a
<1>3. JmpIf(r, l) \in Seq(GoodInstructions)
  BY <1>2 DEF JmpIf, j
<1> QED BY <1>2, <1>3, SeqFacts DEF j, a

LEMMA StatementsTyped ==
    ASSUME TypeInv, FramesNest, StatementStep
    PROVE  TypeInv'
<1>0. /\ nodes \in Nat /\ nodes + 1 \in Nat /\ nextTempID \in Nat /\ nextTempID + 2 \in Nat
      /\ nextLabelID \in Nat /\ nextLabelID + 1 \in Nat /\ nextLabelID + 2 \in Nat
      /\ nextLabelID + 3 \in Nat /\ nextLabelID + 4 \in Nat
      /\ reachable \in BOOLEAN /\ mode \in Modes
      /\ {"params", "after", "stmt", "expr", "lowered"} \subseteq Modes
      /\ scopes \in Seq([Names -> GoodSymbols]) /\ frames \in Seq(GoodFrames)
  BY DEF TypeInv, Modes
<1>a. StartStatement \/ StartSimpleStatement => mode \in Working /\ nodes' \in Nat
  BY <1>0, StartFacts DEF StartStatement, StartSimpleStatement
<1>b. mode = "after" \/ mode = "params" => mode \in Working
  BY DEF Working
<1>c. {"block", "expr", "return", "ifCond", "forInit"} \subseteq FrameKinds \ (EndKinds \cup {"decl"})
  BY DEF FrameKinds, ExprKinds, ScopeKinds, BlockKinds, ForKinds, EndKinds
<1>1. CASE LowerParameter
  <2> DEFINE p == Head(params)
             sym == NewVariable(LowerType(p.type))
             err == DeclarationError(p.name, sym.type)
             s == <<Alloca(sym), Store(sym.slot, Param(p.name))>>
  <2>1. p \in Parameters /\ Tail(params) \in Seq(Parameters) /\ mode \in Working
    BY <1>b, <1>1 DEF LowerParameter, TypeInv
  <2>2. p.name \in Names /\ LowerType(p.type) \in Types
    BY <2>1, TypeFacts DEF Parameters
  <2>3. sym.type = LowerType(p.type)
    BY DEF NewVariable, Symbol
  <2>4. CASE err # NoDiagnostic
    BY <1>1, <2>4, DeclarationErrors, RejectTyped DEF LowerParameter
  <2>5. CASE err = NoDiagnostic
    <3>1. /\ DeclareLocal(p.name, sym) /\ code' = code \o s /\ params' = Tail(params)
          /\ nextTempID' = nextTempID + 2
          /\ UNCHANGED <<header, nextLabelID, frames, vals, mode, reachable, diagnostic, nodes>>
      BY <1>1, <2>5 DEF LowerParameter, Emit
    <3>2. /\ sym \in GoodSymbols /\ Alloca(sym) \in GoodInstructions
          /\ Store(sym.slot, Param(p.name)) \in GoodInstructions
      BY <2>2, <2>3, <2>5, VariableTyped
    <3>3. s \in Seq(GoodInstructions)
      BY <3>2, ShortSeqs
    <3>4. scopes' \in Seq([Names -> GoodSymbols])
      BY <2>1, <2>2, <3>1, <3>2, ScopesTyped
    <3>5. code' \in Seq(GoodInstructions)
      <4> HIDE DEF s
      <4> QED BY <3>1, <3>3, SeqFacts DEF TypeInv
    <3> QED BY <1>0, <2>1, <3>1, <3>4, <3>5 DEF TypeInv
  <2> QED BY <2>4, <2>5
<1>2. CASE ParametersDone
  BY <1>0, <1>2, SameCodeTyped DEF ParametersDone, TypeInv
<1>3. CASE StartBlock
  <2>1. mode \in Working /\ nodes' \in Nat
    BY <1>a, <1>3 DEF StartBlock
  <2>2. scopes' \in Seq([Names -> GoodSymbols]) /\ frames' \in Seq(GoodFrames)
    BY <1>c, <1>3, <2>1, ScopesTyped, FramesTyped, NewFrames DEF StartBlock
  <2> QED BY <1>0, <1>3, <2>1, <2>2, StatementTyped DEF StartBlock, StatementDone
<1>4. CASE EndBlock
  <2>1. scopes' \in Seq([Names -> GoodSymbols]) /\ frames' \in Seq(GoodFrames)
    BY <1>b, <1>4, ScopesTyped, FramesTyped DEF EndBlock
  <2> QED BY <1>0, <1>4, <2>1, StatementTyped DEF EndBlock
<1>5. CASE EmptyStatement
  BY <1>0, <1>5, StatementTyped DEF EmptyStatement, StatementDone
<1>6. ASSUME NEW x \in Names, NEW t \in DeclTypes, NEW i \in BOOLEAN,
             DeclarationStatement(x, t, i)
      PROVE  TypeInv'
  <2> DEFINE sym == NewVariable(LowerType(t))
             f   == [Frame("decl") EXCEPT !.decl = sym]
  <2>1. /\ StartSimpleStatement /\ DeclareLocal(x, sym)
        /\ DeclarationError(x, sym.type) = NoDiagnostic
        /\ code' = code \o <<Alloca(sym)>> /\ nextTempID' = nextTempID + 2
        /\ \/ frames' = Append(frames, f) /\ mode' = "expr" /\ reachable' = reachable
           \/ frames' = frames /\ mode' = "after" /\ reachable' = TRUE
        /\ UNCHANGED unchangedByStatements /\ nextLabelID' = nextLabelID
    BY <1>6 DEF DeclarationStatement, StatementDone, Emit
  <2>2. sym.type = LowerType(t) /\ LowerType(t) \in Types
    BY TypeFacts, DeclTypesAssumption DEF NewVariable, Symbol
  <2>3. /\ sym \in GoodSymbols \ {Undeclared} /\ Alloca(sym) \in GoodInstructions
    BY <2>1, <2>2, VariableTyped
  <2>4. f \in GoodFrames
    BY <2>3, NewFrames
  <2>5. <<Alloca(sym)>> \in Seq(GoodInstructions)
    BY <2>3, ShortSeqs
  <2> HIDE DEF sym, f
  <2>6. scopes' \in Seq([Names -> GoodSymbols]) /\ frames' \in Seq(GoodFrames)
    BY <1>0, <1>a, <2>1, <2>3, <2>4, ScopesTyped, FramesTyped
  <2> QED BY <1>0, <1>a, <2>1, <2>5, <2>6, StatementTyped
<1>7. CASE BadBareReturn \/ \E x \in Names, t \in DeclTypes : BadDeclaration(x, t)
  <2>1. "non-void function must return a value" \in Diagnostics
    BY DEF Diagnostics
  <2> QED BY <1>7, <2>1, RejectTyped, DeclarationErrors DEF BadBareReturn, BadDeclaration
<1>8. CASE ExpressionStatement \/ ReturnStatement \/ IfStatement
  <2>1. mode \in Working /\ nodes' \in Nat /\ mode' = "expr"
    BY <1>a, <1>8 DEF ExpressionStatement, ReturnStatement, IfStatement
  <2>2. frames' \in Seq(GoodFrames)
    BY <1>c, <1>8, <2>1, FramesTyped, NewFrames DEF ExpressionStatement, ReturnStatement, IfStatement
  <2> QED BY <1>0, <1>8, <2>1, <2>2, StatementTyped
          DEF ExpressionStatement, ReturnStatement, IfStatement
<1>9. CASE BareReturn
  <2>1. <<Ret(NoOperand)>> \in Seq(GoodInstructions)
    BY GoodControl, OperandFacts, ShortSeqs
  <2> QED BY <1>0, <1>a, <1>9, <2>1, StatementTyped DEF BareReturn, StatementDone, Emit
<1>10. ASSUME mode = "after", top.kind \in EndKinds, NEW l \in Nat
       PROVE  /\ JmpIf(reachable, l) \in Seq(GoodInstructions)
              /\ <<Label(top.end)>> \in Seq(GoodInstructions)
              /\ JmpIf(reachable, l) \o <<Label(top.end)>> \in Seq(GoodInstructions)
              /\ top.end \in Nat /\ Pop \in Seq(GoodFrames)
  <2>1. top \in GoodFrames /\ Pop \in Seq(GoodFrames)
    BY <1>b, <1>10, FramesTyped
  <2>2. top.end \in Nat
    BY <1>10, <2>1 DEF GoodFrames
  <2> QED BY <1>10, <2>1, <2>2, ClosingTyped
<1>11. CASE ThenDone
  <2>1. top.kind \in EndKinds /\ mode = "after"
    BY <1>11 DEF ThenDone, EndKinds
  <2>2. top.end \in Nat
    BY <1>10, <2>1, <1>0
  <2>3. JmpIf(reachable, top.end) \o <<Label(top.end)>> \in Seq(GoodInstructions)
        /\ Pop \in Seq(GoodFrames)
    BY <1>10, <2>1, <2>2
  <2> QED BY <1>0, <1>11, <2>3, StatementTyped DEF ThenDone, StatementDone, Emit
<1>12. CASE ThenElseDone
  <2> DEFINE f == [top EXCEPT !.kind = "else", !.alt = NoLabel, !.flag = reachable]
  <2>1. mode = "after" /\ mode \in Working /\ top.kind = "thenElse"
    BY <1>b, <1>12 DEF ThenElseDone
  <2>2. top \in GoodFrames /\ top.end \in Nat /\ top.alt \in Nat
    BY <2>1, FramesTyped DEF GoodFrames, EndKinds, AltKinds
  <2>3. JmpIf(reachable, top.end) \o <<Label(top.alt)>> \in Seq(GoodInstructions)
    BY <2>2, ClosingTyped
  <2>4. f \in GoodFrames
    BY <1>0, <2>1, <2>2, NextFrames
  <2>5. frames' = ReplaceTop(f)
    BY <1>12 DEF ThenElseDone
  <2> HIDE DEF f
  <2>6. frames' \in Seq(GoodFrames)
    BY <2>1, <2>4, <2>5, FramesTyped
  <2> QED BY <1>0, <1>12, <2>3, <2>6, StatementTyped DEF ThenElseDone, Emit
<1>13. CASE ElseDone
  <2> DEFINE e == IF top.flag \/ reachable THEN <<Label(top.end)>> ELSE <<>>
             s == JmpIf(reachable, top.end) \o e
  <2>1. mode = "after" /\ mode \in Working /\ top.kind = "else"
    BY <1>b, <1>13 DEF ElseDone
  <2>2. top \in GoodFrames /\ top.end \in Nat /\ top.flag \in BOOLEAN /\ Pop \in Seq(GoodFrames)
    BY <2>1, FramesTyped DEF GoodFrames, EndKinds, FrameSet
  <2>3. JmpIf(reachable, top.end) \in Seq(GoodInstructions) /\ e \in Seq(GoodInstructions)
    BY <2>2, ClosingTyped, ShortSeqs
  <2>4. s \in Seq(GoodInstructions)
    <3> HIDE DEF e
    <3> QED BY <2>3, SeqFacts
  <2>5. code' = code \o s /\ frames' = Pop /\ mode' = "after"
        /\ reachable' = (top.flag \/ reachable)
        /\ UNCHANGED <<unchangedByStatements, nextTempID, nextLabelID, scopes, nodes>>
    BY <1>13 DEF ElseDone, StatementDone, Emit
  <2> HIDE DEF s
  <2> QED BY <1>0, <2>2, <2>4, <2>5, StatementTyped
<1>14. CASE WhileStatement
  <2> DEFINE f == [Frame("whileCond") EXCEPT !.head = nextLabelID,
                     !.body = nextLabelID + 1, !.end = nextLabelID + 2]
  <2>1. mode \in Working /\ nodes' \in Nat
    BY <1>a, <1>14 DEF WhileStatement
  <2>2. f \in GoodFrames
    BY <1>0, NewFrames
  <2>3. frames' = Append(frames, f)
    BY <1>14 DEF WhileStatement
  <2> HIDE DEF f
  <2>4. frames' \in Seq(GoodFrames)
    BY <2>1, <2>2, <2>3, FramesTyped
  <2>5. <<Jmp(nextLabelID), Label(nextLabelID)>> \in Seq(GoodInstructions)
    BY <1>0, ClosingTyped
  <2> QED BY <1>0, <1>14, <2>1, <2>4, <2>5, StatementTyped DEF WhileStatement, Emit
<1>15. CASE WhileDone
  <2>1. top.kind \in EndKinds /\ top.kind \in HeadKinds /\ mode = "after" /\ mode \in Working
    BY <1>b, <1>15 DEF WhileDone, EndKinds, HeadKinds
  <2>2. top.head \in Nat
    BY <2>1, FramesTyped DEF GoodFrames
  <2>3. JmpIf(reachable, top.head) \o <<Label(top.end)>> \in Seq(GoodInstructions)
        /\ Pop \in Seq(GoodFrames)
    BY <1>10, <2>1, <2>2
  <2> QED BY <1>0, <1>15, <2>3, StatementTyped DEF WhileDone, StatementDone, Emit
<1>16. ASSUME NEW hasInit \in BOOLEAN, ForStatement(hasInit) PROVE TypeInv'
  <2>1. mode \in Working /\ nodes' \in Nat
    BY <1>a, <1>16 DEF ForStatement
  <2>2. scopes' \in Seq([Names -> GoodSymbols]) /\ frames' \in Seq(GoodFrames)
    BY <1>c, <1>16, <2>1, ScopesTyped, FramesTyped, NewFrames DEF ForStatement
  <2>3. mode' \in Modes /\ reachable' \in BOOLEAN
    BY <1>0, <1>16 DEF ForStatement, StatementDone
  <2> QED BY <1>0, <1>16, <2>1, <2>2, <2>3, StatementTyped DEF ForStatement
<1>17. ASSUME NEW hasCond \in BOOLEAN, ForInitDone(hasCond) PROVE TypeInv'
  <2> DEFINE cond == nextLabelID
             body == nextLabelID + 1
             f    == [Frame("forCond") EXCEPT !.head = cond, !.body = body,
                        !.alt = nextLabelID + 2, !.end = nextLabelID + 3]
             g    == [f EXCEPT !.kind = "forBody", !.body = NoLabel]
             enter == <<Jmp(cond), Label(cond)>>
             both  == enter \o <<Jmp(body), Label(body)>>
  <2>1. /\ mode = "after" /\ mode \in Working /\ nextLabelID' = nextLabelID + 4
        /\ \/ code' = code \o enter /\ frames' = ReplaceTop(f) /\ mode' = "expr"
           \/ code' = code \o both /\ frames' = ReplaceTop(g) /\ mode' = "stmt"
        /\ UNCHANGED <<unchangedByStatements, nextTempID, scopes, reachable, nodes>>
    BY <1>b, <1>17 DEF ForInitDone, Emit
  <2>2. f \in GoodFrames /\ f.kind = "forCond"
    <3>1. f \in GoodFrames
      BY <1>0, NewFrames
    <3>2. HasKind(f, "forCond")
      BY FrameKind
    <3> HIDE DEF f
    <3> QED BY <3>1, <3>2 DEF HasKind
  <2>3. g \in GoodFrames
    <3> HIDE DEF f
    <3> QED BY <1>0, <2>2, NextFrames
  <2>4. enter \in Seq(GoodInstructions) /\ <<Jmp(body), Label(body)>> \in Seq(GoodInstructions)
    BY <1>0, ClosingTyped
  <2>5. both \in Seq(GoodInstructions)
    <3> DEFINE second == <<Jmp(body), Label(body)>>
    <3> HIDE DEF enter, second
    <3> QED BY <2>4, SeqFacts DEF second
  <2> HIDE DEF f, g, enter, both
  <2>6. frames' \in Seq(GoodFrames)
    BY <2>1, <2>2, <2>3, FramesTyped
  <2> QED BY <1>0, <2>1, <2>4, <2>5, <2>6, StatementTyped
<1>18. CASE ForBodyDoneWithPost
  <2> DEFINE f == [top EXCEPT !.kind = "forPost", !.alt = NoLabel]
  <2>1. mode = "after" /\ mode \in Working /\ top.kind = "forBody"
    BY <1>b, <1>18 DEF ForBodyDoneWithPost
  <2>2. top \in GoodFrames /\ top.alt \in Nat
    BY <2>1, FramesTyped DEF GoodFrames, AltKinds
  <2>3. <<Jmp(top.alt), Label(top.alt)>> \in Seq(GoodInstructions)
    BY <2>2, ClosingTyped
  <2>4. f \in GoodFrames
    BY <1>0, <2>1, <2>2, NextFrames
  <2>5. frames' = ReplaceTop(f)
    BY <1>18 DEF ForBodyDoneWithPost
  <2> HIDE DEF f
  <2>6. frames' \in Seq(GoodFrames)
    BY <2>1, <2>4, <2>5, FramesTyped
  <2> QED BY <1>0, <1>18, <2>3, <2>6, StatementTyped DEF ForBodyDoneWithPost, Emit
<1>19. CASE ForBodyDone
  <2> DEFINE a == JmpIf(reachable, top.alt) \o <<Label(top.alt)>>
             b == JmpIf(reachable, top.head)
             c == <<Label(top.end)>>
  <2>1. mode = "after" /\ mode \in Working /\ top.kind = "forBody"
    BY <1>b, <1>19 DEF ForBodyDone
  <2>2. top \in GoodFrames /\ top.alt \in Nat /\ top.end \in Nat /\ top.head \in Nat
    BY <2>1, FramesTyped DEF GoodFrames, AltKinds, EndKinds, HeadKinds
  <2>3. a \in Seq(GoodInstructions) /\ b \in Seq(GoodInstructions) /\ c \in Seq(GoodInstructions)
    BY <2>2, ClosingTyped
  <2>4. code' = code \o ((a \o b) \o c) /\ LeaveFor
        /\ UNCHANGED <<unchangedByStatements, nextTempID, nextLabelID, nodes>>
    BY <1>19 DEF ForBodyDone, Emit
  <2> HIDE DEF a, b, c
  <2>5. (a \o b) \o c \in Seq(GoodInstructions)
    BY <2>3, SeqFacts
  <2>6. scopes' \in Seq([Names -> GoodSymbols]) /\ frames' \in Seq(GoodFrames)
        /\ mode' = "after" /\ reachable' = TRUE
    BY <2>1, <2>4, ScopesTyped, FramesTyped DEF LeaveFor, StatementDone
  <2> QED BY <1>0, <2>4, <2>5, <2>6, StatementTyped
<1>20. CASE EndFunction
  <2>1. CASE reachable /\ header.ret.spec # "void"
    BY <1>20, <2>1, RejectTyped DEF EndFunction, Diagnostics
  <2>2. CASE ~(reachable /\ header.ret.spec # "void")
    <3> DEFINE s == IF reachable THEN <<Ret(NoOperand)>> ELSE <<>>
    <3>1. /\ mode = "after" /\ mode \in Working /\ code' = code \o s /\ frames' = Pop /\ PopScope
          /\ mode' = "lowered"
          /\ UNCHANGED <<unchangedByStatements, nextTempID, nextLabelID, reachable, nodes>>
      BY <1>b, <1>20, <2>2 DEF EndFunction, Emit
    <3>2. s \in Seq(GoodInstructions)
      BY GoodControl, OperandFacts, ShortSeqs
    <3>3. scopes' \in Seq([Names -> GoodSymbols]) /\ frames' \in Seq(GoodFrames)
      BY <3>1, ScopesTyped, FramesTyped
    <3> HIDE DEF s
    <3> QED BY <1>0, <3>1, <3>2, <3>3, StatementTyped
  <2> QED BY <2>1, <2>2
<1> QED BY <1>1, <1>2, <1>3, <1>4, <1>5, <1>6, <1>7, <1>8, <1>9, <1>11, <1>12, <1>13, <1>14,
           <1>15, <1>16, <1>17, <1>18, <1>19, <1>20 DEF StatementStep

(***************************************************************************)
(* The statement around an expression, and the theorem.                    *)
(***************************************************************************)

\* The value of a complete expression.
LEMMA ExpressionValue ==
    ASSUME TypeInv, NEW k, ExpressionDone(k)
    PROVE  /\ mode \in Working /\ top.kind = k
           /\ Top(1).operand \in Operands /\ Top(1).type \in Types
           /\ Top(1).type # Void => Top(1).operand \in Values
<1>1. HasTop(1, "value") /\ mode = "expr" /\ top.kind = k
  BY DEF ExpressionDone, HasTop
<1>2. Top(1) \in GoodEntries /\ Top(1).cat = "value"
  BY <1>1, ValsTyped
<1> QED BY <1>1, <1>2, EntryFacts DEF Working

LEMMA ContinuationTyped ==
    ASSUME TypeInv, UNCHANGED unchangedByContinuations, nextLabelID' \in Nat,
           code' = code \/ \E s \in Seq(GoodInstructions) : code' = code \o s,
           scopes' \in Seq([Names -> GoodSymbols]), frames' \in Seq(GoodFrames),
           vals' = <<>>, mode' \in {"after", "stmt"}, reachable' \in BOOLEAN
    PROVE  TypeInv'
<1>1. vals' \in Seq(GoodEntries) /\ mode' \in Modes
  BY ShortSeqs DEF Modes
<1>2. nextTempID' \in Nat /\ nodes' \in Nat
  BY DEF unchangedByContinuations, TypeInv
<1>3. CASE code' = code
  BY <1>1, <1>2, <1>3, SameCodeTyped DEF unchangedByContinuations
<1>4. CASE \E s \in Seq(GoodInstructions) : code' = code \o s
  BY <1>1, <1>2, <1>4, GrowsTyped DEF unchangedByContinuations
<1> QED BY <1>3, <1>4

LEMMA EnterBodyTyped ==
    ASSUME TypeInv, FramesNest, NEW k, ExpressionDone(k),
           NEW a \in Nat, NEW b \in Nat, NEW f \in GoodFrames, EnterBody(a, b, f),
           nextLabelID' \in Nat
    PROVE  TypeInv'
<1> DEFINE s == <<Br(Top(1).operand, b, a), Label(b)>>
<1>1. /\ Top(1).type # Void /\ code' = code \o s /\ frames' = ReplaceTop(f) /\ mode' = "stmt"
      /\ vals' = <<>> /\ UNCHANGED <<unchangedByContinuations, scopes, reachable>>
  BY DEF EnterBody, Emit
<1>2. mode \in Working /\ Top(1).operand \in Values
  BY <1>1, ExpressionValue
<1>3. Br(Top(1).operand, b, a) \in GoodInstructions /\ Label(b) \in GoodInstructions
  BY <1>2, GoodControl
<1>4. s \in Seq(GoodInstructions)
  BY <1>3, ShortSeqs
<1>5. frames' \in Seq(GoodFrames)
  BY <1>1, <1>2, FramesTyped
<1>6. scopes' \in Seq([Names -> GoodSymbols]) /\ reachable' \in BOOLEAN
  BY <1>1 DEF TypeInv
<1> HIDE DEF s
<1> QED BY <1>1, <1>4, <1>5, <1>6, ContinuationTyped

LEMMA ContinuationsTyped ==
    ASSUME TypeInv, FramesNest, ContinuationStep
    PROVE  TypeInv'
<1>0. /\ nextLabelID \in Nat /\ nextLabelID + 1 \in Nat /\ nextLabelID + 2 \in Nat
      /\ nextLabelID + 3 \in Nat
      /\ scopes \in Seq([Names -> GoodSymbols])
  BY DEF TypeInv
<1>1. CASE ExpressionStatementDone
  <2>1. Pop \in Seq(GoodFrames)
    BY <1>1, ExpressionValue, FramesTyped DEF ExpressionStatementDone
  <2> QED BY <1>0, <1>1, <2>1, ContinuationTyped DEF ExpressionStatementDone, StatementDone
<1>2. CASE InitializerDone
  <2>1. CASE Top(1).type # top.decl.type
    BY <1>2, <2>1, RejectTyped DEF InitializerDone, Diagnostics
  <2>2. CASE Top(1).type = top.decl.type
    <3> DEFINE i == Store(top.decl.slot, Top(1).operand)
    <3>1. /\ ExpressionDone("decl") /\ code' = code \o <<i>> /\ frames' = Pop /\ mode' = "after"
          /\ reachable' = TRUE /\ vals' = <<>>
          /\ UNCHANGED <<unchangedByContinuations, nextLabelID, scopes>>
      BY <1>2, <2>2 DEF InitializerDone, Emit, StatementDone
    <3>2. mode \in Working /\ top.kind = "decl"
      BY <3>1, ExpressionValue
    <3>3. top \in GoodFrames /\ Pop \in Seq(GoodFrames)
      BY <3>2, FramesTyped
    <3>4. top.decl.type # Void /\ top.decl.slot \in Slots
      BY <3>2, <3>3 DEF GoodFrames, GoodSymbols
    <3>5. Top(1).operand \in Values
      BY <2>2, <3>1, <3>4, ExpressionValue
    <3>6. top.decl.slot \in Values /\ top.decl.slot.kind = "slot"
      BY <3>4, OperandFacts
    <3>7. i \in GoodInstructions
      BY <1>0, <3>4, <3>5, <3>6, GoodOps DEF Store
    <3> HIDE DEF i
    <3>8. <<i>> \in Seq(GoodInstructions)
      BY <3>7, ShortSeqs
    <3> QED BY <1>0, <3>1, <3>3, <3>8, ContinuationTyped
  <2> QED BY <2>1, <2>2
<1>3. CASE ReturnDone
  <2>1. CASE Top(1).type # LowerType(header.ret) \/ Top(1).type = Void
    BY <1>3, <2>1, RejectTyped DEF ReturnDone, Diagnostics
  <2>2. CASE ~(Top(1).type # LowerType(header.ret) \/ Top(1).type = Void)
    <3> DEFINE i == Ret(Top(1).operand)
    <3>1. /\ ExpressionDone("return") /\ code' = code \o <<i>> /\ frames' = Pop
          /\ mode' = "after" /\ reachable' = FALSE /\ vals' = <<>>
          /\ UNCHANGED <<unchangedByContinuations, nextLabelID, scopes>>
      BY <1>3, <2>2 DEF ReturnDone, Emit, StatementDone
    <3>2. mode \in Working /\ Top(1).operand \in Operands
      BY <3>1, ExpressionValue
    <3>3. Pop \in Seq(GoodFrames)
      BY <3>2, FramesTyped
    <3>4. i \in GoodInstructions
      BY <3>2, GoodControl
    <3> HIDE DEF i
    <3>5. <<i>> \in Seq(GoodInstructions)
      BY <3>4, ShortSeqs
    <3> QED BY <1>0, <3>1, <3>3, <3>5, ContinuationTyped
  <2> QED BY <2>1, <2>2
<1>4. CASE VoidCondition
  BY <1>4, RejectTyped DEF VoidCondition, Diagnostics
<1>5. CASE IfConditionDone
  <2>1. [Frame("then") EXCEPT !.end = nextLabelID + 1] \in GoodFrames
    BY <1>0, NewFrames
  <2> QED BY <1>0, <1>5, <2>1, EnterBodyTyped DEF IfConditionDone
<1>6. CASE IfElseConditionDone
  <2>1. [Frame("thenElse") EXCEPT !.end = nextLabelID + 1, !.alt = nextLabelID + 2] \in GoodFrames
    BY <1>0, NewFrames
  <2> QED BY <1>0, <1>6, <2>1, EnterBodyTyped DEF IfElseConditionDone
<1>7. ASSUME NEW k \in {"whileCond", "forCond"}, ExpressionDone(k)
      PROVE  /\ top \in GoodFrames /\ top.kind = k
             /\ top.end \in Nat /\ top.body \in Nat
  <2>1. mode \in Working /\ top.kind = k
    BY <1>7, ExpressionValue
  <2>2. top \in GoodFrames
    BY <2>1, FramesTyped
  <2> QED BY <2>1, <2>2 DEF GoodFrames, EndKinds, BodyKinds
<1>8. CASE WhileConditionDone
  <2>1. ExpressionDone("whileCond") /\ nextLabelID' = nextLabelID
        /\ EnterBody(top.end, top.body, [top EXCEPT !.kind = "while", !.body = NoLabel])
    BY <1>8 DEF WhileConditionDone
  <2>2. [top EXCEPT !.kind = "while", !.body = NoLabel] \in GoodFrames
    BY <1>7, <2>1, NextFrames
  <2> QED BY <1>0, <1>7, <2>1, <2>2, EnterBodyTyped
<1>9. CASE ForConditionDone
  <2>1. ExpressionDone("forCond") /\ nextLabelID' = nextLabelID
        /\ EnterBody(top.end, top.body, [top EXCEPT !.kind = "forBody", !.body = NoLabel])
    BY <1>9 DEF ForConditionDone
  <2>2. [top EXCEPT !.kind = "forBody", !.body = NoLabel] \in GoodFrames
    BY <1>7, <2>1, NextFrames
  <2> QED BY <1>0, <1>7, <2>1, <2>2, EnterBodyTyped
<1>10. CASE ForPostDone
  <2>1. ExpressionDone("forPost")
    BY <1>10 DEF ForPostDone
  <2>2. mode \in Working /\ top.kind = "forPost"
    BY <2>1, ExpressionValue
  <2>3. top.head \in Nat /\ top.end \in Nat
    BY <2>2, FramesTyped DEF GoodFrames, EndKinds, HeadKinds
  <2>4. <<Jmp(top.head), Label(top.end)>> \in Seq(GoodInstructions)
    BY <2>3, ClosingTyped
  <2>5. scopes' \in Seq([Names -> GoodSymbols]) /\ frames' \in Seq(GoodFrames)
        /\ mode' = "after" /\ reachable' = TRUE
    BY <1>10, <2>2, ScopesTyped, FramesTyped DEF ForPostDone, LeaveFor, StatementDone
  <2> QED BY <1>0, <1>10, <2>4, <2>5, ContinuationTyped DEF ForPostDone, Emit
<1> QED BY <1>1, <1>2, <1>3, <1>4, <1>5, <1>6, <1>8, <1>9, <1>10 DEF ContinuationStep

LEMMA TypeInvInductive ==
    ASSUME TypeInv, FramesNest, [Next]_vars
    PROVE  TypeInv'
<1>1. CASE UNCHANGED vars
  BY <1>1 DEF vars, TypeInv
<1> QED BY <1>1, StatementsTyped, ExpressionsTyped, ContinuationsTyped, Steps

LEMMA TypeInvInitially ==
    ASSUME Init
    PROVE  TypeInv
<1>1. "function" \in FrameKinds \ (EndKinds \cup {"decl"})
  BY DEF FrameKinds, ExprKinds, ScopeKinds, BlockKinds, ForKinds, EndKinds
<1>2. frames \in Seq(GoodFrames)
  BY <1>1, NewFrames, ShortSeqs DEF Init
<1>3. Undeclared \in GoodSymbols
  BY TypeFacts DEF GoodSymbols, Undeclared, Symbol, Symbols
<1>4. scopes \in Seq([Names -> GoodSymbols])
  <2>1. NoNames \in [Names -> GoodSymbols]
    BY <1>3 DEF NoNames
  <2> QED BY <2>1, ShortSeqs DEF Init
<1>5. params \in Seq(Parameters)
  BY HeadersAssumption DEF Init
<1>6. code \in Seq(GoodInstructions) /\ vals \in Seq(GoodEntries)
  BY ShortSeqs DEF Init
<1> QED BY <1>2, <1>4, <1>5, <1>6 DEF Init, TypeInv, Modes, Diagnostics

LEMMA TypeInvHolds == Spec => [](TypeInv /\ FramesNest)
<1>1. Init => TypeInv /\ FramesNest
  BY TypeInvInitially, FramesNestInitially
<1>2. TypeInv /\ FramesNest /\ [Next]_vars => (TypeInv /\ FramesNest)'
  BY TypeInvInductive, FramesNestInductive
<1> QED BY <1>1, <1>2, PTL DEF Spec

\* The state of lowering keeps its types, for every tree: the operands of the
\* instructions emitted and of the values on the stack are ones the program
\* makes, labels are numbers and no other message is reported.
THEOREM LoweringTypes == Spec => []TypeOK
BY TypeInvHolds, TypeInvTypes, PTL

(***************************************************************************)
(* Labels.                                                                 *)
(***************************************************************************)

\* The labels a frame has still to place, and those of them a jump that is
\* already in the code may go to: the end of an if with an else is jumped to
\* only behind a then part that completes.
OpenLabels(f) ==
    {l \in Nat : \/ f.kind \in EndKinds  /\ l = f.end
                 \/ f.kind \in AltKinds  /\ l = f.alt
                 \/ f.kind \in BodyKinds /\ l = f.body}
EndAwaited(f) == f.kind \in EndKinds \ {"thenElse", "else"} \/ (f.kind = "else" /\ f.flag)
AwaitedLabels(f) ==
    {l \in Nat : \/ EndAwaited(f) /\ l = f.end
                 \/ f.kind \in AltKinds  /\ l = f.alt
                 \/ f.kind \in BodyKinds /\ l = f.body}

AllOpen(fs)    == UNION {OpenLabels(fs[i]) : i \in 1..Len(fs)}
AllAwaited(fs) == UNION {AwaitedLabels(fs[i]) : i \in 1..Len(fs)}
AllTargets(c)  == UNION {Targets(c[i]) : i \in DOMAIN c}

Distinct(f) ==
    /\ f.kind \in AltKinds  => f.alt # f.end
    /\ f.kind \in BodyKinds => f.body # f.end
    /\ f.kind \in BodyKinds \cap AltKinds => f.body # f.alt

\* A frame's labels are different, below the counter and not placed; the label
\* of its loop's head is.
FrameLabels(f, defined, n) ==
    /\ \A l \in OpenLabels(f) : l < n /\ l \notin defined
    /\ Distinct(f)
    /\ f.kind \in HeadKinds => f.head \in defined

\* The code c below the counter n with the frames fs, of which jumps may also go
\* to the labels in awaited.
LabelsOf(c, n, fs, awaited) ==
    /\ LabelsUnique(c)
    /\ \A l \in Defined(c) : l \in Nat /\ l < n
    /\ AllTargets(c) \subseteq Defined(c) \cup AllAwaited(fs) \cup awaited
    /\ \A i \in 1..Len(fs) : FrameLabels(fs[i], Defined(c), n)
    /\ \A i, j \in 1..Len(fs) : i # j => OpenLabels(fs[i]) \cap OpenLabels(fs[j]) = {}

LabelInv == LabelsOf(code, nextLabelID, frames, {})

\* A frame more on the stack.
LEMMA LabelsOfPush ==
    ASSUME NEW c, NEW n, NEW fs, IsList(fs), NEW f
    PROVE  LabelsOf(c, n, Append(fs, f), {}) <=>
              /\ LabelsOf(c, n, fs, AwaitedLabels(f))
              /\ FrameLabels(f, Defined(c), n)
              /\ OpenLabels(f) \cap AllOpen(fs) = {}
<1> DEFINE gs == Append(fs, f)
           m  == Len(fs)
<1>1. /\ m \in Nat /\ Len(gs) = m + 1 /\ gs[m + 1] = f
      /\ \A i \in 1..m : gs[i] = fs[i]
  BY ListLength, ListAppend
<1>2. \A i \in 1..(m + 1) : i \in 1..m \/ i = m + 1
  BY <1>1
<1>3. \A i \in 1..m : i \in 1..(m + 1) /\ i # m + 1
  BY <1>1
<1>4. m + 1 \in 1..(m + 1)
  BY <1>1
<1> HIDE DEF gs, m
<1>5. AllAwaited(gs) = AllAwaited(fs) \cup AwaitedLabels(f)
  BY <1>1, <1>2, <1>3, <1>4 DEF AllAwaited, m
<1>6. (\A i \in 1..Len(gs) : FrameLabels(gs[i], Defined(c), n))
        <=> (\A i \in 1..Len(fs) : FrameLabels(fs[i], Defined(c), n))
              /\ FrameLabels(f, Defined(c), n)
  BY <1>1, <1>2, <1>3, <1>4 DEF m
<1>7. (\A i, j \in 1..Len(gs) : i # j => OpenLabels(gs[i]) \cap OpenLabels(gs[j]) = {})
        <=> (\A i, j \in 1..Len(fs) : i # j => OpenLabels(fs[i]) \cap OpenLabels(fs[j]) = {})
              /\ OpenLabels(f) \cap AllOpen(fs) = {}
  <2>1. OpenLabels(f) \cap AllOpen(fs) = {}
          <=> \A i \in 1..m : OpenLabels(f) \cap OpenLabels(fs[i]) = {}
    BY DEF AllOpen, m
  <2>2. ASSUME NEW i \in 1..m
        PROVE  i # m + 1 /\ gs[i] = fs[i] /\ gs[m + 1] = f
    BY <1>1, <1>3
  <2> QED BY <1>1, <1>2, <1>3, <1>4, <2>1, <2>2 DEF m
<1> QED BY <1>5, <1>6, <1>7 DEF LabelsOf, gs

\* A stack that is not empty is what is below its top, and the top.
LEMMA StackOfTop ==
    ASSUME FramesNest, mode \in Working
    PROVE  IsList(frames) /\ IsList(Pop) /\ frames = Append(Pop, top)
<1>1. PICK S : frames \in Seq(S)
  BY DEF FramesNest, Nested, IsList
<1>2. Len(frames) \in Nat /\ Len(frames) >= 1
  BY <1>1 DEF FramesNest
<1>3. Pop \in Seq(S) /\ frames = Append(Pop, top)
  BY <1>1, <1>2 DEF Pop, top
<1> QED BY <1>1, <1>3 DEF IsList

(***************************************************************************)
(* The labels of the lists emitted.                                        *)
(***************************************************************************)

\* A list that places the labels in d, each once, and jumps to those in t.
Lists(s, d, t) ==
    /\ IsList(s)
    /\ Defined(s) = d /\ LabelsUnique(s)
    /\ AllTargets(s) = t

LEMMA ListsConcat ==
    ASSUME NEW c, NEW s, NEW d, NEW e, NEW t, NEW u, Lists(c, d, t), Lists(s, e, u), d \cap e = {}
    PROVE  Lists(c \o s, d \cup e, t \cup u)
<1> DEFINE r == c \o s
           m == Len(c)
<1>1. /\ IsList(r) /\ Len(r) = m + Len(s) /\ DOMAIN r = 1..Len(r)
      /\ m \in Nat /\ Len(s) \in Nat /\ DOMAIN c = 1..m /\ DOMAIN s = 1..Len(s)
      /\ \A i \in 1..m : r[i] = c[i]
      /\ \A i \in 1..Len(s) : r[m + i] = s[i]
  BY ListConcat, ListLength DEF Lists
<1> HIDE DEF r, m
<1>2. \A i \in DOMAIN r : \/ i \in DOMAIN c /\ r[i] = c[i]
                          \/ i - m \in DOMAIN s /\ r[i] = s[i - m] /\ i \notin DOMAIN c
  <2> SUFFICES ASSUME NEW i \in 1..Len(r), i \notin 1..m
               PROVE  i - m \in 1..Len(s) /\ r[i] = s[i - m]
    BY <1>1
  <2>1. i - m \in 1..Len(s) /\ i = m + (i - m)
    BY <1>1
  <2> QED BY <1>1, <2>1
<1>3. \A i \in DOMAIN c : i \in DOMAIN r
  BY <1>1
<1>4. \A i \in DOMAIN s : m + i \in DOMAIN r
  BY <1>1
<1>5. \A i \in DOMAIN c : r[i] = c[i]
  BY <1>1
<1>6. \A i \in DOMAIN s : r[m + i] = s[i]
  BY <1>1
<1>7. \A i \in DOMAIN r : Targets(r[i]) \subseteq t \cup u
  BY <1>2 DEF Lists, AllTargets
<1>8. AllTargets(r) = t \cup u
  <2>1. AllTargets(r) \subseteq t \cup u
    BY <1>7 DEF AllTargets
  <2>2. ASSUME NEW l \in t PROVE l \in AllTargets(r)
    <3>1. PICK i \in DOMAIN c : l \in Targets(c[i])
      BY DEF Lists, AllTargets
    <3> QED BY <1>3, <1>5, <3>1 DEF AllTargets
  <2>3. ASSUME NEW l \in u PROVE l \in AllTargets(r)
    <3>1. PICK i \in DOMAIN s : l \in Targets(s[i])
      BY DEF Lists, AllTargets
    <3> QED BY <1>4, <1>6, <3>1 DEF AllTargets
  <2> QED BY <2>1, <2>2, <2>3
<1>9. \A i \in DOMAIN c : c[i].kind = "label" => c[i].label \in d
  BY DEF Lists, Defined
<1>10. \A i \in DOMAIN s : s[i].kind = "label" => s[i].label \in e
  BY DEF Lists, Defined
<1>11. Defined(r) = d \cup e
  <2>1. Defined(r) \subseteq d \cup e
    BY <1>2, <1>9, <1>10 DEF Defined
  <2>2. ASSUME NEW l \in d PROVE l \in Defined(r)
    <3>1. PICK i \in DOMAIN c : c[i].kind = "label" /\ l = c[i].label
      BY DEF Lists, Defined
    <3> QED BY <1>3, <1>5, <3>1 DEF Defined
  <2>3. ASSUME NEW l \in e PROVE l \in Defined(r)
    <3>1. PICK i \in DOMAIN s : s[i].kind = "label" /\ l = s[i].label
      BY DEF Lists, Defined
    <3> QED BY <1>4, <1>6, <3>1 DEF Defined
  <2> QED BY <2>1, <2>2, <2>3
<1>12. LabelsUnique(r)
  <2> SUFFICES ASSUME NEW i \in DOMAIN r, NEW j \in DOMAIN r, r[i].kind = "label",
                      r[j].kind = "label", r[i].label = r[j].label
               PROVE  i = j
    BY DEF LabelsUnique
  <2>1. CASE i \in DOMAIN c /\ j \in DOMAIN c
    BY <1>5, <2>1 DEF Lists, LabelsUnique
  <2>2. CASE i \notin DOMAIN c /\ j \notin DOMAIN c
    <3>1. i - m = j - m
      BY <1>2, <2>2 DEF Lists, LabelsUnique
    <3> QED BY <1>1, <3>1
  <2>3. CASE i \in DOMAIN c /\ j \notin DOMAIN c
    BY <1>2, <1>9, <1>10, <2>3
  <2>4. CASE i \notin DOMAIN c /\ j \in DOMAIN c
    BY <1>2, <1>9, <1>10, <2>4
  <2> QED BY <2>1, <2>2, <2>3, <2>4
<1> QED BY <1>1, <1>8, <1>11, <1>12 DEF Lists, r

Placed(i) == IF i.kind = "label" THEN {i.label} ELSE {}

LEMMA ShortListsLabels ==
    /\ Lists(<<>>, {}, {})
    /\ \A a : Lists(<<a>>, Placed(a), Targets(a))
    /\ \A a, b : a.kind # "label" => Lists(<<a, b>>, Placed(b), Targets(a) \cup Targets(b))
<1>1. Lists(<<>>, {}, {})
  BY EmptyList DEF Lists, Defined, LabelsUnique, AllTargets
<1>2. ASSUME NEW a PROVE Lists(<<a>>, Placed(a), Targets(a))
  <2> DEFINE s == <<a>>
  <2>1. IsList(s) /\ DOMAIN s = {1} /\ s[1] = a
    BY ShortLists
  <2> HIDE DEF s
  <2>2. Defined(s) = Placed(a) /\ LabelsUnique(s)
    BY <2>1 DEF Defined, LabelsUnique, Placed
  <2>3. AllTargets(s) = Targets(a)
    BY <2>1 DEF AllTargets
  <2> QED BY <2>1, <2>2, <2>3 DEF Lists, s
<1>3. ASSUME NEW a, NEW b, a.kind # "label"
      PROVE  Lists(<<a, b>>, Placed(b), Targets(a) \cup Targets(b))
  <2> DEFINE s == <<a, b>>
  <2>1. IsList(s) /\ DOMAIN s = {1, 2} /\ s[1] = a /\ s[2] = b
    BY ShortLists
  <2> HIDE DEF s
  <2>2. Defined(s) = Placed(b) /\ LabelsUnique(s)
    BY <1>3, <2>1 DEF Defined, LabelsUnique, Placed
  <2>3. AllTargets(s) = Targets(a) \cup Targets(b)
    BY <2>1 DEF AllTargets
  <2> QED BY <2>1, <2>2, <2>3 DEF Lists, s
<1> QED BY <1>1, <1>2, <1>3

LEMMA InstructionLabels ==
    /\ \A l : Placed(Label(l)) = {l} /\ Targets(Label(l)) = {} /\ Label(l).kind = "label"
    /\ \A l : Placed(Jmp(l)) = {} /\ Targets(Jmp(l)) = {l} /\ Jmp(l).kind # "label"
    /\ \A c, t, f : /\ Placed(Br(c, t, f)) = {} /\ Targets(Br(c, t, f)) = {t, f}
                    /\ Br(c, t, f).kind # "label"
    /\ \A i : i.kind \in {"op", "ret"} => Placed(i) = {} /\ Targets(i) = {} /\ i.kind # "label"
<1>1. \A l : Placed(Label(l)) = {l} /\ Targets(Label(l)) = {} /\ Label(l).kind = "label"
  BY DEF Placed, Targets, Label
<1>2. \A l : Placed(Jmp(l)) = {} /\ Targets(Jmp(l)) = {l} /\ Jmp(l).kind # "label"
  BY DEF Placed, Targets, Jmp
<1>3. \A c, t, f : /\ Placed(Br(c, t, f)) = {} /\ Targets(Br(c, t, f)) = {t, f}
                   /\ Br(c, t, f).kind # "label"
  BY DEF Placed, Targets, Br
<1>4. \A i : i.kind \in {"op", "ret"} => Placed(i) = {} /\ Targets(i) = {} /\ i.kind # "label"
  BY DEF Placed, Targets
<1> QED BY <1>1, <1>2, <1>3, <1>4

\* The lists of control instructions.
LEMMA ControlLists ==
    ASSUME NEW r, NEW l, NEW m
    PROVE  /\ Lists(<<Jmp(l), Label(m)>>, {m}, {l})
           /\ \A c : Lists(<<Br(c, m, l), Label(m)>>, {m}, {m, l})
           /\ Lists(JmpIf(r, l), {}, IF r THEN {l} ELSE {})
           /\ Lists(JmpIf(r, l) \o <<Label(m)>>, {m}, IF r THEN {l} ELSE {})
           /\ Lists(<<Label(m)>>, {m}, {})
<1> DEFINE a == Label(m)
           j == Jmp(l)
<1>0. Placed(a) = {m} /\ Targets(a) = {} /\ Placed(j) = {} /\ Targets(j) = {l} /\ j.kind # "label"
  BY InstructionLabels
<1> HIDE DEF a, j
<1>1. Lists(<<j, a>>, {m}, {l})
  <2>1. Lists(<<j, a>>, Placed(a), Targets(j) \cup Targets(a))
    BY <1>0, ShortListsLabels
  <2> QED BY <1>0, <2>1
<1>2. ASSUME NEW c PROVE Lists(<<Br(c, m, l), a>>, {m}, {m, l})
  <2> DEFINE b == Br(c, m, l)
  <2>1. Targets(b) = {m, l} /\ b.kind # "label"
    BY InstructionLabels
  <2> HIDE DEF b
  <2>2. Lists(<<b, a>>, Placed(a), Targets(b) \cup Targets(a))
    BY <2>1, ShortListsLabels
  <2> QED BY <1>0, <2>1, <2>2 DEF b
<1>3. Lists(JmpIf(r, l), {}, IF r THEN {l} ELSE {})
  <2>1. Lists(<<j>>, {}, {l})
    <3>1. Lists(<<j>>, Placed(j), Targets(j))
      BY ShortListsLabels
    <3> QED BY <1>0, <3>1
  <2>2. JmpIf(r, l) = IF r THEN <<j>> ELSE <<>>
    BY DEF JmpIf, j
  <2> QED BY <2>1, <2>2, ShortListsLabels
<1>4. Lists(<<a>>, {m}, {})
  <2>1. Lists(<<a>>, Placed(a), Targets(a))
    BY ShortListsLabels
  <2> QED BY <1>0, <2>1
<1>5. Lists(JmpIf(r, l) \o <<a>>, {} \cup {m}, (IF r THEN {l} ELSE {}) \cup {})
  BY <1>3, <1>4, ListsConcat
<1> QED BY <1>1, <1>2, <1>3, <1>4, <1>5 DEF a, j

\* The labels of the code r made of c, over the frames fs below the top.
Ordered(r, c, n, m, fs, open, awaiting, d) ==
    /\ LabelsOf(r, m, fs, awaiting)
    /\ Defined(r) = Defined(c) \cup d
    /\ \A l \in Nat : (l \in open \/ (n <= l /\ l < m)) /\ l \notin d =>
          l < m /\ l \notin Defined(r) /\ l \notin AllOpen(fs)

\* Appending a list keeps the labels in order: it places labels of the frame that
\* was on top, which are open, or new ones, and jumps to labels that are placed
\* or that the frame now on top still awaits.
LEMMA LabelsOfEmission ==
    ASSUME NEW c, IsList(c), NEW n \in Nat, NEW m \in Nat, n <= m, NEW fs, IsList(fs),
           NEW open, NEW awaited, NEW awaiting, LabelsOf(c, n, fs, awaited),
           \A l \in open : l \in Nat /\ l < n /\ l \notin Defined(c) /\ l \notin AllOpen(fs),
           NEW s, NEW d, NEW t, Lists(s, d, t),
           \A l \in d : l \in open \/ (l \in Nat /\ n <= l /\ l < m),
           awaited \subseteq d \cup awaiting,
           t \subseteq Defined(c) \cup d \cup awaiting
    PROVE  Ordered(c \o s, c, n, m, fs, open, awaiting, d)
<1>1. \A l \in Defined(c) : l \in Nat /\ l < n
  BY DEF LabelsOf
<1>2. \A l \in d : l \in Nat /\ l < m /\ l \notin Defined(c)
  BY <1>1
<1>3. \A i \in 1..Len(fs) : \A l \in OpenLabels(fs[i]) :
          l \in Nat /\ l < n /\ l \notin Defined(c) /\ l \in AllOpen(fs)
  BY DEF LabelsOf, FrameLabels, OpenLabels, AllOpen
<1>4. \A l \in AllOpen(fs) : l \in Nat /\ l < n /\ l \notin Defined(c)
  BY <1>3 DEF AllOpen
<1>5. \A l \in AllOpen(fs) : l \notin d
  BY <1>4
<1>6. Lists(c, Defined(c), AllTargets(c))
  BY DEF Lists, LabelsOf
<1>7. Lists(c \o s, Defined(c) \cup d, AllTargets(c) \cup t)
  BY <1>2, <1>6, ListsConcat
<1>8. Defined(c \o s) = Defined(c) \cup d /\ LabelsUnique(c \o s)
      /\ AllTargets(c \o s) = AllTargets(c) \cup t
  BY <1>7 DEF Lists
<1> DEFINE r == c \o s
<1> HIDE DEF r
<1>9. \A l \in Defined(r) : l \in Nat /\ l < m
  BY <1>1, <1>2, <1>8 DEF r
<1>10. AllTargets(r) \subseteq Defined(r) \cup AllAwaited(fs) \cup awaiting
  BY <1>8 DEF LabelsOf, r
<1>11. \A i \in 1..Len(fs) : FrameLabels(fs[i], Defined(r), m)
  <2> SUFFICES ASSUME NEW i \in 1..Len(fs) PROVE FrameLabels(fs[i], Defined(r), m)
    OBVIOUS
  <2>1. FrameLabels(fs[i], Defined(c), n)
    BY DEF LabelsOf
  <2>2. \A l \in OpenLabels(fs[i]) : l < m /\ l \notin Defined(r)
    BY <1>3, <1>5, <1>8 DEF r
  <2> QED BY <1>8, <2>1, <2>2 DEF FrameLabels, r
<1>12. LabelsOf(r, m, fs, awaiting)
  BY <1>8, <1>9, <1>10, <1>11 DEF LabelsOf, r
<1>13. ASSUME NEW l \in Nat, l \in open \/ (n <= l /\ l < m), l \notin d
       PROVE  l < m /\ l \notin Defined(r) /\ l \notin AllOpen(fs)
  BY <1>1, <1>4, <1>8, <1>13 DEF r
<1> QED BY <1>8, <1>12, <1>13 DEF r, Ordered

\* A step emits a list under the frame f, which takes the place of the labels in
\* open.
New(l) == nextLabelID <= l /\ l < nextLabelID'
Emits(s, d, t) ==
    /\ Lists(s, d, t)
    /\ code' = code \o s
    /\ nextLabelID' \in Nat /\ nextLabelID <= nextLabelID'

LEMMA LabelsPushed ==
    ASSUME TypeInv, FramesNest, LabelInv, NEW s, NEW d, NEW t, Emits(s, d, t),
           NEW f, frames' = Append(frames, f),
           \A l \in d \cup OpenLabels(f) : l \in Nat /\ New(l),
           d \cap OpenLabels(f) = {}, t \subseteq d \cup AwaitedLabels(f),
           Distinct(f), f.kind \in HeadKinds => f.head \in d
    PROVE  LabelInv'
<1>1. /\ IsList(code) /\ nextLabelID \in Nat /\ IsList(frames)
      /\ LabelsOf(code, nextLabelID, frames, {})
  BY DEF TypeInv, IsList, LabelInv
<1>2. /\ LabelsOf(code', nextLabelID', frames, AwaitedLabels(f))
      /\ Defined(code') = Defined(code) \cup d
      /\ \A l \in Nat : New(l) /\ l \notin d =>
            l < nextLabelID' /\ l \notin Defined(code') /\ l \notin AllOpen(frames)
  <2> DEFINE none == {}
  <2>1. \A l \in none : FALSE
    OBVIOUS
  <2>2. LabelsOf(code, nextLabelID, frames, none)
    BY <1>1
  <2> HIDE DEF none
  <2>3. none \subseteq d \cup AwaitedLabels(f)
    BY <2>1
  <2>4. Lists(s, d, t) /\ code' = code \o s /\ nextLabelID' \in Nat /\ nextLabelID <= nextLabelID'
    BY DEF Emits
  <2>5. \A l \in d : l \in none \/ (l \in Nat /\ nextLabelID <= l /\ l < nextLabelID')
    BY DEF New
  <2>6. t \subseteq Defined(code) \cup d \cup AwaitedLabels(f)
    OBVIOUS
  <2> DEFINE m == nextLabelID'
             awaiting == AwaitedLabels(f)
  <2> HIDE DEF m, awaiting
  <2>7. m \in Nat /\ nextLabelID <= m /\ none \subseteq d \cup awaiting
        /\ t \subseteq Defined(code) \cup d \cup awaiting
        /\ \A l \in d : l \in none \/ (l \in Nat /\ nextLabelID <= l /\ l < m)
    BY <2>3, <2>4, <2>5, <2>6 DEF m, awaiting
  <2>8. \A l \in none : l \in Nat /\ l < nextLabelID /\ l \notin Defined(code)
                        /\ l \notin AllOpen(frames)
    BY <2>1
  <2>9. Ordered(code \o s, code, nextLabelID, m, frames, none, awaiting, d)
    BY <1>1, <2>2, <2>4, <2>7, <2>8, LabelsOfEmission
  <2> QED BY <2>4, <2>9 DEF New, m, awaiting, Ordered
<1>3. \A l \in OpenLabels(f) : l < nextLabelID' /\ l \notin Defined(code') /\ l \notin AllOpen(frames)
  BY <1>2
<1>4. FrameLabels(f, Defined(code'), nextLabelID')
  BY <1>2, <1>3 DEF FrameLabels
<1>5. LabelsOf(code', nextLabelID', Append(frames, f), {})
  BY <1>1, <1>2, <1>3, <1>4, LabelsOfPush
<1> QED BY <1>5 DEF LabelInv

\* What the invariant says of the frame on top.
LEMMA LabelsOfTop ==
    ASSUME TypeInv, FramesNest, LabelInv, mode \in Working
    PROVE  /\ IsList(code) /\ nextLabelID \in Nat /\ IsList(Pop)
           /\ LabelsOf(code, nextLabelID, Pop, AwaitedLabels(top))
           /\ FrameLabels(top, Defined(code), nextLabelID)
           /\ \A l \in OpenLabels(top) : l \in Nat /\ l < nextLabelID /\ l \notin Defined(code)
                                         /\ l \notin AllOpen(Pop)
           /\ top \in GoodFrames
<1>1. IsList(code) /\ nextLabelID \in Nat
  BY DEF TypeInv, IsList
<1>2. IsList(Pop) /\ frames = Append(Pop, top)
  BY StackOfTop
<1>3. /\ LabelsOf(code, nextLabelID, Pop, AwaitedLabels(top))
      /\ FrameLabels(top, Defined(code), nextLabelID)
      /\ OpenLabels(top) \cap AllOpen(Pop) = {}
  <2>1. LabelsOf(code, nextLabelID, Append(Pop, top), {})
    BY <1>2 DEF LabelInv
  <2> QED BY <1>2, <2>1, LabelsOfPush
<1> QED BY <1>1, <1>2, <1>3, FramesTyped DEF FrameLabels, OpenLabels

LEMMA LabelsReplaced ==
    ASSUME TypeInv, FramesNest, LabelInv, mode \in Working,
           NEW s, NEW d, NEW t, Emits(s, d, t), NEW f, frames' = ReplaceTop(f),
           \A l \in d \cup OpenLabels(f) : l \in OpenLabels(top) \/ (l \in Nat /\ New(l)),
           d \cap OpenLabels(f) = {}, AwaitedLabels(top) \subseteq d \cup AwaitedLabels(f),
           t \subseteq Defined(code) \cup d \cup AwaitedLabels(f),
           Distinct(f), f.kind \in HeadKinds => f.head \in Defined(code) \cup d
    PROVE  LabelInv'
<1>1. /\ IsList(code) /\ nextLabelID \in Nat /\ IsList(Pop)
      /\ LabelsOf(code, nextLabelID, Pop, AwaitedLabels(top))
      /\ \A l \in OpenLabels(top) : l \in Nat /\ l < nextLabelID /\ l \notin Defined(code)
                                    /\ l \notin AllOpen(Pop)
  BY LabelsOfTop
<1>2. /\ LabelsOf(code', nextLabelID', Pop, AwaitedLabels(f))
      /\ Defined(code') = Defined(code) \cup d
      /\ \A l \in Nat : (l \in OpenLabels(top) \/ New(l)) /\ l \notin d =>
            l < nextLabelID' /\ l \notin Defined(code') /\ l \notin AllOpen(Pop)
  <2>1. Lists(s, d, t) /\ code' = code \o s /\ nextLabelID' \in Nat /\ nextLabelID <= nextLabelID'
    BY DEF Emits
  <2>2. \A l \in d : l \in OpenLabels(top)
                     \/ (l \in Nat /\ nextLabelID <= l /\ l < nextLabelID')
    BY DEF New
  <2> DEFINE m == nextLabelID'
             awaiting == AwaitedLabels(f)
             open == OpenLabels(top)
             awaited == AwaitedLabels(top)
             below == Pop
  <2> HIDE DEF m, awaiting, open, awaited, below
  <2>3. m \in Nat /\ nextLabelID <= m /\ awaited \subseteq d \cup awaiting
        /\ t \subseteq Defined(code) \cup d \cup awaiting
        /\ \A l \in d : l \in open \/ (l \in Nat /\ nextLabelID <= l /\ l < m)
    BY <2>1, <2>2 DEF m, awaiting, open, awaited
  <2>4. /\ IsList(below) /\ LabelsOf(code, nextLabelID, below, awaited)
        /\ \A l \in open : l \in Nat /\ l < nextLabelID /\ l \notin Defined(code)
                             /\ l \notin AllOpen(below)
    BY <1>1 DEF open, awaited, below
  <2>5. Ordered(code \o s, code, nextLabelID, m, below, open, awaiting, d)
    BY <1>1, <2>1, <2>3, <2>4, LabelsOfEmission
  <2> QED BY <2>1, <2>5 DEF New, m, awaiting, open, below, Ordered
<1>3. \A l \in OpenLabels(f) : l < nextLabelID' /\ l \notin Defined(code') /\ l \notin AllOpen(Pop)
  BY <1>1, <1>2
<1>4. FrameLabels(f, Defined(code'), nextLabelID')
  BY <1>2, <1>3 DEF FrameLabels
<1>5. LabelsOf(code', nextLabelID', Append(Pop, f), {})
  BY <1>1, <1>2, <1>3, <1>4, LabelsOfPush
<1> QED BY <1>5 DEF LabelInv, ReplaceTop

LEMMA LabelsPopped ==
    ASSUME TypeInv, FramesNest, LabelInv, mode \in Working,
           NEW s, NEW d, NEW t, Emits(s, d, t), frames' = Pop,
           d \subseteq OpenLabels(top), AwaitedLabels(top) \subseteq d,
           t \subseteq Defined(code) \cup d
    PROVE  LabelInv'
<1>1. /\ IsList(code) /\ nextLabelID \in Nat /\ IsList(Pop)
      /\ LabelsOf(code, nextLabelID, Pop, AwaitedLabels(top))
      /\ \A l \in OpenLabels(top) : l \in Nat /\ l < nextLabelID /\ l \notin Defined(code)
                                    /\ l \notin AllOpen(Pop)
  BY LabelsOfTop
<1>2. Lists(s, d, t) /\ code' = code \o s /\ nextLabelID' \in Nat /\ nextLabelID <= nextLabelID'
  BY DEF Emits
<1> DEFINE none == {}
<1>3. \A l \in d : l \in OpenLabels(top)
                   \/ (l \in Nat /\ nextLabelID <= l /\ l < nextLabelID')
  OBVIOUS
<1>4. AwaitedLabels(top) \subseteq d \cup none /\ t \subseteq Defined(code) \cup d \cup none
  OBVIOUS
<1> HIDE DEF none
<1>5. Ordered(code \o s, code, nextLabelID, nextLabelID', Pop, OpenLabels(top), none, d)
  BY <1>1, <1>2, <1>3, <1>4, LabelsOfEmission
<1> QED BY <1>2, <1>5 DEF LabelInv, Ordered, none

LEMMA LabelsStay ==
    ASSUME TypeInv, FramesNest, LabelInv, frames' = frames,
           NEW s, Emits(s, {}, {})
    PROVE  LabelInv'
<1>1. /\ IsList(code) /\ nextLabelID \in Nat /\ IsList(frames)
      /\ LabelsOf(code, nextLabelID, frames, {})
  BY DEF TypeInv, IsList, LabelInv
<1>2. Lists(s, {}, {}) /\ code' = code \o s /\ nextLabelID' \in Nat /\ nextLabelID <= nextLabelID'
  BY DEF Emits
<1> DEFINE none == {}
<1>3. /\ \A l \in none : FALSE
      /\ LabelsOf(code, nextLabelID, frames, none) /\ Lists(s, none, none)
  BY <1>1, <1>2
<1> HIDE DEF none
<1>4. none \subseteq none \cup none /\ none \subseteq Defined(code) \cup none \cup none
  BY <1>3
<1>5. Ordered(code \o s, code, nextLabelID, nextLabelID', frames, none, none, none)
  BY <1>1, <1>2, <1>3, <1>4, LabelsOfEmission
<1> QED BY <1>2, <1>5 DEF LabelInv, Ordered, none

\* An abandoned function has no labels.
LEMMA LabelsRejected ==
    ASSUME NEW d, Reject(d)
    PROVE  LabelInv'
<1>1. code' = <<>> /\ frames' = <<>>
  BY DEF Reject
<1>2. Defined(<<>>) = {} /\ LabelsUnique(<<>>) /\ AllTargets(<<>>) = {}
  BY ShortListsLabels DEF Lists
<1>3. Len(<<>>) = 0
  BY EmptyList
<1> QED BY <1>1, <1>2, <1>3 DEF LabelInv, LabelsOf

(***************************************************************************)
(* The labels of the frames, by kind.                                      *)
(***************************************************************************)

LEMMA OpenByKind ==
    ASSUME NEW f \in GoodFrames
    PROVE  /\ f.kind \notin EndKinds => /\ OpenLabels(f) = {} /\ AwaitedLabels(f) = {}
                                        /\ Distinct(f) /\ f.kind \notin HeadKinds
           /\ f.kind \in {"then", "while", "forPost"} =>
                 /\ OpenLabels(f) = {f.end} /\ AwaitedLabels(f) = {f.end} /\ Distinct(f)
           /\ f.kind = "thenElse" => /\ OpenLabels(f) = {f.alt, f.end} /\ AwaitedLabels(f) = {f.alt}
                                     /\ f.alt # f.end => Distinct(f)
           /\ f.kind = "else" => /\ OpenLabels(f) = {f.end} /\ Distinct(f)
                                 /\ AwaitedLabels(f) = IF f.flag THEN {f.end} ELSE {}
           /\ f.kind = "whileCond" => /\ OpenLabels(f) = {f.body, f.end}
                                      /\ AwaitedLabels(f) = {f.body, f.end}
                                      /\ f.body # f.end => Distinct(f)
           /\ f.kind = "forCond" => /\ OpenLabels(f) = {f.body, f.alt, f.end}
                                    /\ AwaitedLabels(f) = {f.body, f.alt, f.end}
                                    /\ f.body # f.end /\ f.alt # f.end /\ f.body # f.alt =>
                                          Distinct(f)
           /\ f.kind = "forBody" => /\ OpenLabels(f) = {f.alt, f.end}
                                    /\ AwaitedLabels(f) = {f.alt, f.end}
                                    /\ f.alt # f.end => Distinct(f)
           /\ f.kind \in EndKinds  => f.end  \in Nat
           /\ f.kind \in AltKinds  => f.alt  \in Nat
           /\ f.kind \in BodyKinds => f.body \in Nat
           /\ f.kind \in HeadKinds => f.head \in Nat
<1>1. /\ f.kind \in EndKinds  => f.end  \in Nat
      /\ f.kind \in AltKinds  => f.alt  \in Nat
      /\ f.kind \in BodyKinds => f.body \in Nat
      /\ f.kind \in HeadKinds => f.head \in Nat
  BY DEF GoodFrames
<1>2. AltKinds \cup BodyKinds \cup HeadKinds \subseteq EndKinds
  BY DEF AltKinds, BodyKinds, HeadKinds, EndKinds
<1>3. CASE f.kind \notin EndKinds
  BY <1>1, <1>2, <1>3 DEF OpenLabels, AwaitedLabels, EndAwaited, Distinct, EndKinds
<1>4. CASE f.kind \in {"then", "while", "forPost"}
  <2>1. EndAwaited(f) /\ f.kind \in EndKinds /\ f.kind \notin AltKinds \cup BodyKinds
    BY <1>4 DEF EndAwaited, EndKinds, AltKinds, BodyKinds
  <2> QED BY <1>1, <1>4, <2>1 DEF OpenLabels, AwaitedLabels, Distinct
<1>5. CASE f.kind = "thenElse"
  <2>1. ~EndAwaited(f) /\ f.kind \in EndKinds \cap AltKinds /\ f.kind \notin BodyKinds
    BY <1>5 DEF EndAwaited, EndKinds, AltKinds, BodyKinds
  <2> QED BY <1>1, <1>5, <2>1 DEF OpenLabels, AwaitedLabels, Distinct, EndKinds
<1>6. CASE f.kind = "else"
  <2>1. /\ EndAwaited(f) <=> f.flag
        /\ f.kind \in EndKinds /\ f.kind \notin AltKinds \cup BodyKinds
    BY <1>6 DEF EndAwaited, EndKinds, AltKinds, BodyKinds
  <2> QED BY <1>1, <1>6, <2>1 DEF OpenLabels, AwaitedLabels, Distinct, EndKinds
<1>7. CASE f.kind = "whileCond"
  <2>1. EndAwaited(f) /\ f.kind \in EndKinds \cap BodyKinds /\ f.kind \notin AltKinds
    BY <1>7 DEF EndAwaited, EndKinds, AltKinds, BodyKinds
  <2> QED BY <1>1, <1>7, <2>1 DEF OpenLabels, AwaitedLabels, Distinct, EndKinds
<1>8. CASE f.kind = "forCond"
  <2>1. EndAwaited(f) /\ f.kind \in EndKinds \cap AltKinds \cap BodyKinds
    BY <1>8 DEF EndAwaited, EndKinds, AltKinds, BodyKinds
  <2> QED BY <1>1, <1>8, <2>1 DEF OpenLabels, AwaitedLabels, Distinct, EndKinds
<1>9. CASE f.kind = "forBody"
  <2>1. EndAwaited(f) /\ f.kind \in EndKinds \cap AltKinds /\ f.kind \notin BodyKinds
    BY <1>9 DEF EndAwaited, EndKinds, AltKinds, BodyKinds
  <2> QED BY <1>1, <1>9, <2>1 DEF OpenLabels, AwaitedLabels, Distinct, EndKinds
<1> QED BY <1>1, <1>3, <1>4, <1>5, <1>6, <1>7, <1>8, <1>9 DEF EndKinds

\* The fields of a new frame, and of a frame made of the one on top.
LEMMA NewFrameFields ==
    ASSUME NEW k \in FrameKinds, NEW h, NEW b, NEW a, NEW e
    PROVE  /\ LET f == [Frame(k) EXCEPT !.head = h, !.body = b, !.end = e]
              IN  f.kind = k /\ f.head = h /\ f.body = b /\ f.end = e
           /\ LET f == [Frame(k) EXCEPT !.head = h, !.body = b, !.alt = a, !.end = e]
              IN  f.kind = k /\ f.head = h /\ f.body = b /\ f.alt = a /\ f.end = e
           /\ LET f == [Frame(k) EXCEPT !.end = e] IN f.kind = k /\ f.end = e
           /\ LET f == [Frame(k) EXCEPT !.end = e, !.alt = a]
              IN  f.kind = k /\ f.end = e /\ f.alt = a
           /\ Frame(k).kind = k
           /\ \A d : [Frame(k) EXCEPT !.decl = d].kind = k
<1> DEFINE f == Frame(k)
<1>1. DOMAIN f = {"kind", "head", "body", "alt", "end", "flag", "decl"} /\ f.kind = k
  BY DEF Frame
<1> HIDE DEF f
<1>2. /\ \A d : [f EXCEPT !.decl = d].kind = k
      /\ [f EXCEPT !.end = e].kind = k /\ [f EXCEPT !.end = e].end = e
  BY <1>1
<1>3. LET g == [f EXCEPT !.end = e, !.alt = a] IN g.kind = k /\ g.end = e /\ g.alt = a
  BY <1>1
<1>4. LET g == [f EXCEPT !.head = h, !.body = b, !.end = e]
      IN  g.kind = k /\ g.head = h /\ g.body = b /\ g.end = e
  BY <1>1
<1>5. LET g == [f EXCEPT !.head = h, !.body = b, !.alt = a, !.end = e]
      IN  g.kind = k /\ g.head = h /\ g.body = b /\ g.alt = a /\ g.end = e
  BY <1>1
<1> QED BY <1>1, <1>2, <1>3, <1>4, <1>5 DEF f

LEMMA NextFrameFields ==
    ASSUME NEW f \in GoodFrames, NEW k, NEW r
    PROVE  /\ LET g == [f EXCEPT !.kind = k, !.alt = NoLabel, !.flag = r]
              IN  g.kind = k /\ g.flag = r /\ g.end = f.end
           /\ LET g == [f EXCEPT !.kind = k, !.body = NoLabel]
              IN  g.kind = k /\ g.head = f.head /\ g.alt = f.alt /\ g.end = f.end
           /\ LET g == [f EXCEPT !.kind = k, !.alt = NoLabel]
              IN  g.kind = k /\ g.head = f.head /\ g.end = f.end
<1>1. DOMAIN f = {"kind", "head", "body", "alt", "end", "flag", "decl"}
  BY DEF GoodFrames, FrameSet
<1> QED BY <1>1

(***************************************************************************)
(* The steps.                                                              *)
(***************************************************************************)

\* Operations only.
Ops(s) == IsList(s) /\ \A i \in 1..Len(s) : s[i].kind = "op"

LEMMA OpsLists ==
    /\ Ops(<<>>)
    /\ \A a : a.kind = "op" => Ops(<<a>>)
    /\ \A a, b : a.kind = "op" /\ b.kind = "op" => Ops(<<a, b>>)
    /\ \A a, b, c : a.kind = "op" /\ b.kind = "op" /\ c.kind = "op" => Ops(<<a, b, c>>)
<1>1. Ops(<<>>)
  BY EmptyList DEF Ops
<1>2. ASSUME NEW a, a.kind = "op" PROVE Ops(<<a>>)
  BY <1>2, ShortLists DEF Ops
<1>3. ASSUME NEW a, NEW b, a.kind = "op", b.kind = "op" PROVE Ops(<<a, b>>)
  <2>1. \A i \in 1..2 : <<a, b>>[i] = a \/ <<a, b>>[i] = b
    OBVIOUS
  <2> QED BY <1>3, <2>1, ShortLists DEF Ops
<1>4. ASSUME NEW a, NEW b, NEW c, a.kind = "op", b.kind = "op", c.kind = "op"
      PROVE  Ops(<<a, b, c>>)
  <2>1. \A i \in 1..3 : <<a, b, c>>[i] = a \/ <<a, b, c>>[i] = b \/ <<a, b, c>>[i] = c
    OBVIOUS
  <2> QED BY <1>4, <2>1, ShortLists DEF Ops
<1> QED BY <1>1, <1>2, <1>3, <1>4

LEMMA OpsLabels ==
    ASSUME NEW s, Ops(s)
    PROVE  Lists(s, {}, {})
<1>1. DOMAIN s = 1..Len(s)
  BY ListLength DEF Ops
<1>2. \A i \in DOMAIN s : s[i].kind # "label" /\ Targets(s[i]) = {}
  BY <1>1, InstructionLabels DEF Ops
<1> QED BY <1>2 DEF Lists, Ops, Defined, LabelsUnique, AllTargets

\* An expression emits operations, or the function is abandoned.
Rejects  == \E d : Reject(d)
Computes == \E s : Ops(s) /\ code' = code \o s

LEMMA ExpressionsCompute ==
    ASSUME TypeInv, ExpressionStep
    PROVE  Rejects \/ (Computes /\ UNCHANGED unchangedByExpressions)
<1>0. IsList(code)
  BY DEF TypeInv, IsList
<1>1. ASSUME NEW i, i.kind = "op", code' = code \o <<i>> PROVE Computes
  BY <1>1, OpsLists DEF Computes
<1>2. ASSUME code' = code PROVE Computes
  BY <1>0, <1>2, OpsLists, Joined DEF Computes
<1>3. ASSUME NEW n, NEW op, NEW operands, NEW type, Compute(n, op, operands, type)
      PROVE  Computes
  <2> DEFINE i == Op(op, Temp(nextTempID), operands)
  <2>1. code' = code \o <<i>> /\ i.kind = "op"
    BY <1>3, InstructionParts DEF Compute, Emit
  <2> HIDE DEF i
  <2> QED BY <1>1, <2>1
<1>4. ASSUME NEW c \in Literals, Literal(c)
      PROVE  Computes /\ UNCHANGED unchangedByExpressions
  <2> DEFINE i == Op("const", Temp(nextTempID), <<Immediate(<<"n", c>>)>>)
  <2>1. code' = code \o <<i>> /\ i.kind = "op" /\ UNCHANGED unchangedByExpressions
    BY <1>4, InstructionParts DEF Literal, Emit
  <2> HIDE DEF i
  <2> QED BY <1>1, <2>1
<1>5. ASSUME NEW x \in Names, Identifier(x)
      PROVE  Computes /\ UNCHANGED unchangedByExpressions
  <2> DEFINE i == Op("load", Temp(nextTempID), <<ResolveVariable(x).slot>>)
  <2>1. code' = code \o <<i>> /\ i.kind = "op" /\ UNCHANGED unchangedByExpressions
    BY <1>5, InstructionParts DEF Identifier, Emit
  <2> HIDE DEF i
  <2> QED BY <1>1, <2>1
<1>6. CASE \/ \E x \in Names : AddressOfIdentifier(x)
           \/ AddressOfDereference \/ AddressOf
           \/ \E f \in Functions : StartCall(f)
  BY <1>2, <1>6 DEF AddressOfIdentifier, AddressOfDereference, AddressOf, StartCall
<1>7. CASE Dereference
  BY <1>3, <1>7 DEF Dereference
<1>13. ASSUME NEW op \in BinaryOps, Binary(op)
       PROVE  Computes /\ UNCHANGED unchangedByExpressions
  BY <1>3, <1>13 DEF Binary
<1>8. ASSUME NEW op \in UnaryOps, Unary(op)
      PROVE  Computes /\ UNCHANGED unchangedByExpressions
  <2>1. code' = code \/ Compute(1, op, <<Top(1).operand>>, I32)
    BY <1>8 DEF Unary
  <2>2. UNCHANGED unchangedByExpressions
    BY <1>8 DEF Unary
  <2> QED BY <1>2, <1>3, <2>1, <2>2
<1>9. ASSUME NEW op \in LogicalOps, Logical(op)
      PROVE  Computes /\ UNCHANGED unchangedByExpressions
  <2> DEFINE zero == Immediate(<<"n", 0>>)
             lhs  == Temp(nextTempID)
             rhs  == Temp(nextTempID + 1)
             a    == Op("ne", lhs, <<Top(2).operand, zero>>)
             b    == Op("ne", rhs, <<Top(1).operand, zero>>)
             c    == Op(op, Temp(nextTempID + 2), <<lhs, rhs>>)
  <2>1. code' = code \o <<a, b, c>> /\ UNCHANGED unchangedByExpressions
    BY <1>9 DEF Logical, Emit
  <2>2. a.kind = "op" /\ b.kind = "op" /\ c.kind = "op"
    BY InstructionParts
  <2> HIDE DEF a, b, c
  <2> QED BY <2>1, <2>2, OpsLists DEF Computes
<1>10. CASE Assign
  <2> DEFINE i == Op(IF Top(2).operand.kind = "slot" THEN "store" ELSE "storeInd", NoOperand,
                     <<Top(2).operand, Top(1).operand>>)
  <2>1. code' = code \o <<i>> /\ i.kind = "op" /\ UNCHANGED unchangedByExpressions
    BY <1>10, InstructionParts DEF Assign, Emit
  <2> HIDE DEF i
  <2> QED BY <1>1, <2>1
<1>11. CASE FinishCall
  <2> DEFINE f    == vals[innermost].callee
             ret  == Signatures[f].ret
             dst  == IF ret = Void THEN NoOperand ELSE Temp(nextTempID)
             args == [i \in DOMAIN Arguments |-> Arguments[i].operand]
             i    == Call(f, dst, args)
  <2>1. code' = code \o <<i>> /\ i.kind = "op" /\ UNCHANGED unchangedByExpressions
    BY <1>11, InstructionParts DEF FinishCall, Emit
  <2> HIDE DEF i
  <2> QED BY <1>1, <2>1
<1>12. CASE \/ \E c \in Literals : BadLiteral(c)
            \/ \E x \in Names : UndeclaredIdentifier(x)
            \/ BadTarget \/ BadDereference \/ BadUnary \/ BadBinary \/ BadAssign
            \/ BadCall \/ BadArguments
  BY <1>12 DEF BadLiteral, UndeclaredIdentifier, BadTarget, BadDereference, BadUnary, BadBinary,
               BadAssign, BadCall, BadArguments, Rejects
<1> QED BY <1>4, <1>5, <1>6, <1>7, <1>8, <1>9, <1>10, <1>11, <1>12, <1>13 DEF ExpressionStep

\* A frame without labels is pushed, or popped, and operations or a return are
\* emitted.
LEMMA PlainPush ==
    ASSUME TypeInv, FramesNest, LabelInv, NEW k \in FrameKinds \ EndKinds, NEW f \in GoodFrames,
           f.kind = k, frames' = Append(frames, f), nextLabelID' = nextLabelID,
           NEW s, Lists(s, {}, {}), code' = code \o s
    PROVE  LabelInv'
<1>1. Emits(s, {}, {})
  BY DEF Emits, TypeInv
<1>2. OpenLabels(f) = {} /\ AwaitedLabels(f) = {} /\ Distinct(f) /\ f.kind \notin HeadKinds
  BY OpenByKind
<1> DEFINE none == {}
<1>3. Emits(s, none, none) /\ OpenLabels(f) = none /\ \A l \in none : FALSE
  BY <1>1, <1>2
<1> HIDE DEF none
<1>4. /\ \A l \in none \cup OpenLabels(f) : l \in Nat /\ New(l)
      /\ none \cap OpenLabels(f) = {} /\ none \subseteq none \cup AwaitedLabels(f)
  BY <1>3
<1> QED BY <1>2, <1>3, <1>4, LabelsPushed

LEMMA PlainPop ==
    ASSUME TypeInv, FramesNest, LabelInv, mode \in Working, top.kind \notin EndKinds,
           frames' = Pop, nextLabelID' = nextLabelID,
           NEW s, Lists(s, {}, {}), code' = code \o s
    PROVE  LabelInv'
<1>1. Emits(s, {}, {})
  BY DEF Emits, TypeInv
<1>2. AwaitedLabels(top) = {}
  BY LabelsOfTop, OpenByKind
<1> QED BY <1>1, <1>2, LabelsPopped

LEMMA PlainStay ==
    ASSUME TypeInv, FramesNest, LabelInv, frames' = frames, nextLabelID' = nextLabelID,
           NEW s, Lists(s, {}, {}), code' = code \o s
    PROVE  LabelInv'
<1>1. Emits(s, {}, {})
  BY DEF Emits, TypeInv
<1> QED BY <1>1, LabelsStay

\* The list that is emitted where the code does not change.
LEMMA NothingEmitted ==
    ASSUME TypeInv
    PROVE  Lists(<<>>, {}, {}) /\ code \o <<>> = code
BY ShortListsLabels, Joined DEF TypeInv, IsList

LEMMA RetLists == Lists(<<>>, {}, {}) /\ \A v : Lists(<<Ret(v)>>, {}, {})
<1>1. ASSUME NEW v PROVE Lists(<<Ret(v)>>, {}, {})
  <2> DEFINE a == Ret(v)
  <2>1. Placed(a) = {} /\ Targets(a) = {}
    BY InstructionParts, InstructionLabels
  <2> HIDE DEF a
  <2>2. Lists(<<a>>, Placed(a), Targets(a))
    BY ShortListsLabels
  <2> QED BY <2>1, <2>2 DEF a
<1> QED BY <1>1, ShortListsLabels

LEMMA StatementsKeepLabels ==
    ASSUME TypeInv, FramesNest, LabelInv, StatementStep
    PROVE  LabelInv'
<1>0. /\ nextLabelID \in Nat /\ nextLabelID + 1 \in Nat /\ nextLabelID + 2 \in Nat
      /\ nextLabelID + 3 \in Nat /\ nextLabelID + 4 \in Nat /\ IsList(code)
  BY DEF TypeInv, IsList
<1>a. mode = "after" => mode \in Working
  BY DEF Working
<1>b. {"block", "expr", "return", "ifCond", "forInit", "decl"} \subseteq FrameKinds \ EndKinds
  BY DEF FrameKinds, ExprKinds, ScopeKinds, BlockKinds, ForKinds, EndKinds
<1>1. CASE LowerParameter
  <2> DEFINE p == Head(params)
             sym == NewVariable(LowerType(p.type))
             a == Alloca(sym)
             b == Store(sym.slot, Param(p.name))
  <2>1. CASE DeclarationError(p.name, sym.type) # NoDiagnostic
    BY <1>1, <2>1, LabelsRejected DEF LowerParameter
  <2>2. CASE DeclarationError(p.name, sym.type) = NoDiagnostic
    <3>1. code' = code \o <<a, b>> /\ frames' = frames /\ nextLabelID' = nextLabelID
      BY <1>1, <2>2 DEF LowerParameter, Emit
    <3>2. a.kind = "op" /\ b.kind = "op"
      BY InstructionParts DEF Alloca, Store
    <3> HIDE DEF a, b
    <3>3. Lists(<<a, b>>, {}, {})
      BY <3>2, OpsLists, OpsLabels
    <3> QED BY <3>1, <3>3, PlainStay
  <2> QED BY <2>1, <2>2
<1>2. CASE ParametersDone \/ EmptyStatement
  BY <1>2, NothingEmitted, PlainStay DEF ParametersDone, EmptyStatement
<1>3. ASSUME NEW k \in {"block", "expr", "return", "ifCond", "forInit"},
             frames' = Append(frames, Frame(k)), code' = code, nextLabelID' = nextLabelID
      PROVE  LabelInv'
  <2> DEFINE f == Frame(k)
  <2>1. k \in FrameKinds \ EndKinds /\ k # "decl"
    BY <1>b
  <2>2. f \in GoodFrames /\ f.kind = k
    BY <2>1, NewFrames, NewFrameFields
  <2> HIDE DEF f
  <2> QED BY <1>3, <2>1, <2>2, NothingEmitted, PlainPush DEF f
<1>4. CASE StartBlock \/ ExpressionStatement \/ ReturnStatement \/ IfStatement
  BY <1>3, <1>4 DEF StartBlock, ExpressionStatement, ReturnStatement, IfStatement
<1>5. ASSUME NEW hasInit \in BOOLEAN, ForStatement(hasInit) PROVE LabelInv'
  BY <1>3, <1>5 DEF ForStatement
<1>6. CASE EndBlock
  <2>1. mode \in Working /\ top.kind \notin EndKinds
    BY <1>a, <1>6 DEF EndBlock, EndKinds
  <2> QED BY <1>6, <2>1, NothingEmitted, PlainPop DEF EndBlock
<1>7. ASSUME NEW x \in Names, NEW t \in DeclTypes, NEW i \in BOOLEAN,
             DeclarationStatement(x, t, i)
      PROVE  LabelInv'
  <2> DEFINE sym == NewVariable(LowerType(t))
             f   == [Frame("decl") EXCEPT !.decl = sym]
             a   == Alloca(sym)
  <2>1. /\ DeclarationError(x, sym.type) = NoDiagnostic
        /\ code' = code \o <<a>> /\ nextLabelID' = nextLabelID
        /\ frames' = Append(frames, f) \/ frames' = frames
    BY <1>7 DEF DeclarationStatement, Emit
  <2>2. sym.type = LowerType(t) /\ LowerType(t) \in Types
    BY TypeFacts, DeclTypesAssumption DEF NewVariable, Symbol
  <2>3. sym \in GoodSymbols \ {Undeclared}
    BY <2>1, <2>2, VariableTyped
  <2>4. f \in GoodFrames
    BY <2>3, NewFrames
  <2>5. f.kind = "decl"
    BY <1>b, NewFrameFields
  <2>6. a.kind = "op"
    BY InstructionParts DEF Alloca
  <2> HIDE DEF sym, f, a
  <2>7. Lists(<<a>>, {}, {})
    BY <2>6, OpsLists, OpsLabels
  <2> QED BY <1>b, <2>1, <2>4, <2>5, <2>7, PlainPush, PlainStay
<1>8. CASE BadBareReturn \/ \E x \in Names, t \in DeclTypes : BadDeclaration(x, t)
  BY <1>8, LabelsRejected DEF BadBareReturn, BadDeclaration
<1>9. CASE BareReturn
  BY <1>9, RetLists, PlainStay DEF BareReturn, Emit
<1>10. ASSUME mode = "after"
       PROVE  /\ mode \in Working /\ top \in GoodFrames
              /\ FrameLabels(top, Defined(code), nextLabelID)
  BY <1>a, <1>10, LabelsOfTop
<1>11. CASE ThenDone
  <2> DEFINE s == JmpIf(reachable, top.end) \o <<Label(top.end)>>
             t == IF reachable THEN {top.end} ELSE {}
  <2>1. /\ mode = "after" /\ top.kind = "then" /\ code' = code \o s /\ frames' = Pop
        /\ nextLabelID' = nextLabelID
    BY <1>11 DEF ThenDone, Emit
  <2>2. Lists(s, {top.end}, t)
    BY ControlLists
  <2>3. OpenLabels(top) = {top.end} /\ AwaitedLabels(top) = {top.end}
    BY <1>10, <2>1, OpenByKind
  <2> HIDE DEF s
  <2>4. Emits(s, {top.end}, t)
    BY <1>0, <2>1, <2>2 DEF Emits
  <2> QED BY <1>10, <2>1, <2>3, <2>4, LabelsPopped
<1>12. CASE ThenElseDone
  <2> DEFINE s == JmpIf(reachable, top.end) \o <<Label(top.alt)>>
             t == IF reachable THEN {top.end} ELSE {}
             f == [top EXCEPT !.kind = "else", !.alt = NoLabel, !.flag = reachable]
  <2>1. /\ mode = "after" /\ top.kind = "thenElse" /\ code' = code \o s /\ frames' = ReplaceTop(f)
        /\ nextLabelID' = nextLabelID
    BY <1>12 DEF ThenElseDone, Emit
  <2>2. Lists(s, {top.alt}, t)
    BY ControlLists
  <2>3. /\ OpenLabels(top) = {top.alt, top.end} /\ AwaitedLabels(top) = {top.alt}
        /\ top.alt # top.end
    BY <1>10, <2>1, OpenByKind DEF FrameLabels, Distinct, AltKinds
  <2>4. f \in GoodFrames /\ f.kind = "else" /\ f.flag = reachable /\ f.end = top.end
    <3>1. f \in GoodFrames
      BY <1>10, <2>1, NextFrames DEF TypeInv
    <3>2. f.kind = "else" /\ f.flag = reachable /\ f.end = top.end
      BY <1>10, <2>1, NextFrameFields
    <3> QED BY <3>1, <3>2
  <2> HIDE DEF s, f
  <2>5. /\ OpenLabels(f) = {top.end} /\ Distinct(f) /\ f.kind \notin HeadKinds
        /\ AwaitedLabels(f) = t
    BY <2>4, OpenByKind DEF HeadKinds
  <2>6. Emits(s, {top.alt}, t)
    BY <1>0, <2>1, <2>2 DEF Emits
  <2> HIDE DEF t
  <2> QED BY <1>10, <2>1, <2>3, <2>5, <2>6, LabelsReplaced
<1>13. CASE ElseDone
  <2> DEFINE e == IF top.flag \/ reachable THEN <<Label(top.end)>> ELSE <<>>
             d == IF top.flag \/ reachable THEN {top.end} ELSE {}
             t == IF reachable THEN {top.end} ELSE {}
             j == JmpIf(reachable, top.end)
  <2>1. /\ mode = "after" /\ top.kind = "else" /\ code' = code \o (j \o e) /\ frames' = Pop
        /\ nextLabelID' = nextLabelID
    BY <1>13 DEF ElseDone, Emit
  <2>2. Lists(j, {}, t)
    BY ControlLists
  <2>3. Lists(e, d, {})
    BY ControlLists, ShortListsLabels
  <2>4. OpenLabels(top) = {top.end} /\ AwaitedLabels(top) \subseteq d
    BY <1>10, <2>1, OpenByKind
  <2>5. t \subseteq d /\ d \subseteq {top.end}
    OBVIOUS
  <2> HIDE DEF e, d, t, j
  <2>6. Lists(j \o e, d, t)
    <3>1. Lists(j \o e, {} \cup d, t \cup {})
      BY <2>2, <2>3, ListsConcat
    <3> QED BY <3>1
  <2>7. Emits(j \o e, d, t)
    BY <1>0, <2>1, <2>6 DEF Emits
  <2> QED BY <1>10, <2>1, <2>4, <2>5, <2>7, LabelsPopped
<1>14. CASE WhileStatement
  <2> DEFINE n == nextLabelID
             f == [Frame("whileCond") EXCEPT !.head = n, !.body = n + 1, !.end = n + 2]
             s == <<Jmp(n), Label(n)>>
  <2>1. code' = code \o s /\ frames' = Append(frames, f) /\ nextLabelID' = n + 3
    BY <1>14 DEF WhileStatement, Emit
  <2>2. Lists(s, {n}, {n})
    BY ControlLists
  <2>3. f \in GoodFrames
    BY <1>0, NewFrames
  <2>4. f.kind = "whileCond" /\ f.head = n /\ f.body = n + 1 /\ f.end = n + 2
    BY NewFrameFields DEF FrameKinds, ExprKinds
  <2> HIDE DEF f, s
  <2>5. OpenLabels(f) = {n + 1, n + 2} /\ Distinct(f)
    BY <1>0, <2>3, <2>4, OpenByKind
  <2>6. Emits(s, {n}, {n})
    BY <1>0, <2>1, <2>2 DEF Emits
  <2>7. \A l \in {n} \cup OpenLabels(f) : l \in Nat /\ New(l)
    BY <1>0, <2>1, <2>5 DEF New
  <2>8. {n} \cap OpenLabels(f) = {} /\ {n} \subseteq {n} \cup AwaitedLabels(f) /\ f.head \in {n}
    BY <1>0, <2>4, <2>5
  <2> QED BY <2>1, <2>5, <2>6, <2>7, <2>8, LabelsPushed
<1>15. CASE WhileDone
  <2> DEFINE s == JmpIf(reachable, top.head) \o <<Label(top.end)>>
             t == IF reachable THEN {top.head} ELSE {}
  <2>1. /\ mode = "after" /\ top.kind = "while" /\ code' = code \o s /\ frames' = Pop
        /\ nextLabelID' = nextLabelID
    BY <1>15 DEF WhileDone, Emit
  <2>2. Lists(s, {top.end}, t)
    BY ControlLists
  <2>3. OpenLabels(top) = {top.end} /\ AwaitedLabels(top) = {top.end}
    BY <1>10, <2>1, OpenByKind
  <2>4. top.head \in Defined(code)
    BY <1>10, <2>1 DEF FrameLabels, HeadKinds
  <2> HIDE DEF s
  <2>5. Emits(s, {top.end}, t)
    BY <1>0, <2>1, <2>2 DEF Emits
  <2>6. t \subseteq Defined(code) \cup {top.end}
    BY <2>4
  <2> HIDE DEF t
  <2> QED BY <1>10, <2>1, <2>3, <2>5, <2>6, LabelsPopped
<1>16. ASSUME NEW hasCond \in BOOLEAN, ForInitDone(hasCond) PROVE LabelInv'
  <2> DEFINE n == nextLabelID
             f == [Frame("forCond") EXCEPT !.head = n, !.body = n + 1, !.alt = n + 2, !.end = n + 3]
             g == [f EXCEPT !.kind = "forBody", !.body = NoLabel]
             enter == <<Jmp(n), Label(n)>>
             again == <<Jmp(n + 1), Label(n + 1)>>
  <2>1. /\ mode = "after" /\ top.kind = "forInit" /\ nextLabelID' = n + 4
        /\ \/ code' = code \o enter /\ frames' = ReplaceTop(f)
           \/ code' = code \o (enter \o again) /\ frames' = ReplaceTop(g)
    BY <1>16 DEF ForInitDone, Emit
  <2>2. Lists(enter, {n}, {n}) /\ Lists(again, {n + 1}, {n + 1})
    BY ControlLists
  <2>3. f \in GoodFrames
    BY <1>0, NewFrames
  <2>4. f.kind = "forCond" /\ f.head = n /\ f.body = n + 1 /\ f.alt = n + 2 /\ f.end = n + 3
    BY NewFrameFields DEF FrameKinds, ScopeKinds, ForKinds
  <2> HIDE DEF f
  <2>5. g \in GoodFrames /\ g.kind = "forBody" /\ g.head = n /\ g.alt = n + 2 /\ g.end = n + 3
    <3>1. g \in GoodFrames
      BY <2>3, <2>4, NextFrames
    <3>2. g.kind = "forBody" /\ g.head = n /\ g.alt = n + 2 /\ g.end = n + 3
      BY <2>3, <2>4, NextFrameFields
    <3> QED BY <3>1, <3>2
  <2> HIDE DEF g, enter, again
  <2>6. OpenLabels(f) = {n + 1, n + 2, n + 3} /\ Distinct(f)
    BY <1>0, <2>3, <2>4, OpenByKind
  <2>7. OpenLabels(g) = {n + 2, n + 3} /\ Distinct(g)
    BY <1>0, <2>5, OpenByKind
  <2>8. AwaitedLabels(top) = {}
    BY <1>10, <2>1, OpenByKind DEF EndKinds
  <2>9. \A l \in {n, n + 1, n + 2, n + 3} : l \in Nat /\ New(l)
    BY <1>0, <2>1 DEF New
  <2>10. nextLabelID' \in Nat /\ nextLabelID <= nextLabelID'
    BY <1>0, <2>1
  <2>11. CASE code' = code \o enter /\ frames' = ReplaceTop(f)
    <3>1. Emits(enter, {n}, {n})
      BY <2>2, <2>10, <2>11 DEF Emits
    <3>2. \A l \in {n} \cup OpenLabels(f) : l \in OpenLabels(top) \/ (l \in Nat /\ New(l))
      BY <2>6, <2>9
    <3>3. {n} \cap OpenLabels(f) = {}
      BY <1>0, <2>6
    <3>4. {n} \subseteq Defined(code) \cup {n} \cup AwaitedLabels(f)
          /\ f.head \in Defined(code) \cup {n}
          /\ AwaitedLabels(top) \subseteq {n} \cup AwaitedLabels(f)
      BY <2>4, <2>8
    <3> QED BY <1>10, <2>1, <2>6, <2>11, <3>1, <3>2, <3>3, <3>4, LabelsReplaced
  <2>12. CASE code' = code \o (enter \o again) /\ frames' = ReplaceTop(g)
    <3> DEFINE d == {n} \cup {n + 1}
    <3>1. Lists(enter \o again, d, d)
      BY <1>0, <2>2, ListsConcat
    <3>2. Emits(enter \o again, d, d)
      BY <2>10, <2>12, <3>1 DEF Emits
    <3>3. \A l \in d \cup OpenLabels(g) : l \in OpenLabels(top) \/ (l \in Nat /\ New(l))
      BY <2>7, <2>9
    <3>4. d \cap OpenLabels(g) = {}
      BY <1>0, <2>7
    <3>5. d \subseteq Defined(code) \cup d \cup AwaitedLabels(g)
          /\ g.head \in Defined(code) \cup d
          /\ AwaitedLabels(top) \subseteq d \cup AwaitedLabels(g)
      BY <2>5, <2>8
    <3> HIDE DEF d
    <3> QED BY <1>10, <2>1, <2>7, <2>12, <3>2, <3>3, <3>4, <3>5, LabelsReplaced
  <2> QED BY <2>1, <2>11, <2>12
<1>17. CASE ForBodyDoneWithPost
  <2> DEFINE s == <<Jmp(top.alt), Label(top.alt)>>
             f == [top EXCEPT !.kind = "forPost", !.alt = NoLabel]
  <2>1. /\ mode = "after" /\ top.kind = "forBody" /\ code' = code \o s /\ frames' = ReplaceTop(f)
        /\ nextLabelID' = nextLabelID
    BY <1>17 DEF ForBodyDoneWithPost, Emit
  <2>2. Lists(s, {top.alt}, {top.alt})
    BY ControlLists
  <2>3. /\ OpenLabels(top) = {top.alt, top.end} /\ AwaitedLabels(top) = {top.alt, top.end}
        /\ top.alt # top.end
    BY <1>10, <2>1, OpenByKind DEF FrameLabels, Distinct, AltKinds
  <2>4. top.head \in Defined(code)
    BY <1>10, <2>1 DEF FrameLabels, HeadKinds
  <2>5. f \in GoodFrames /\ f.kind = "forPost" /\ f.end = top.end /\ f.head = top.head
    <3>1. f \in GoodFrames
      BY <1>10, <2>1, NextFrames DEF TypeInv
    <3>2. f.kind = "forPost" /\ f.end = top.end /\ f.head = top.head
      BY <1>10, <2>1, NextFrameFields
    <3> QED BY <3>1, <3>2
  <2> HIDE DEF s, f
  <2>6. OpenLabels(f) = {top.end} /\ Distinct(f) /\ AwaitedLabels(f) = {top.end}
    BY <2>5, OpenByKind
  <2>7. Emits(s, {top.alt}, {top.alt})
    BY <1>0, <2>1, <2>2 DEF Emits
  <2> QED BY <1>10, <2>1, <2>3, <2>4, <2>5, <2>6, <2>7, LabelsReplaced
<1>18. CASE ForBodyDone
  <2> DEFINE a == JmpIf(reachable, top.alt) \o <<Label(top.alt)>>
             b == JmpIf(reachable, top.head)
             c == <<Label(top.end)>>
             t == IF reachable THEN {top.alt} ELSE {}
             u == IF reachable THEN {top.head} ELSE {}
             d == {top.alt} \cup {top.end}
  <2>1. /\ mode = "after" /\ top.kind = "forBody" /\ code' = code \o ((a \o b) \o c)
        /\ frames' = Pop /\ nextLabelID' = nextLabelID
    BY <1>18 DEF ForBodyDone, Emit, LeaveFor
  <2>2. Lists(a, {top.alt}, t) /\ Lists(b, {}, u) /\ Lists(c, {top.end}, {})
    BY ControlLists
  <2>3. /\ OpenLabels(top) = {top.alt, top.end} /\ AwaitedLabels(top) = {top.alt, top.end}
        /\ top.alt # top.end
    BY <1>10, <2>1, OpenByKind DEF FrameLabels, Distinct, AltKinds
  <2>4. top.head \in Defined(code)
    BY <1>10, <2>1 DEF FrameLabels, HeadKinds
  <2>5. t \cup u \subseteq Defined(code) \cup d
    BY <2>4
  <2> HIDE DEF a, b, c, t, u
  <2>6. Lists(a \o b, {top.alt}, t \cup u)
    <3>1. Lists(a \o b, {top.alt} \cup {}, t \cup u)
      BY <2>2, ListsConcat
    <3> QED BY <3>1
  <2>7. Lists((a \o b) \o c, d, t \cup u)
    <3>1. Lists((a \o b) \o c, {top.alt} \cup {top.end}, (t \cup u) \cup {})
      BY <2>2, <2>3, <2>6, ListsConcat
    <3> QED BY <3>1
  <2>8. Emits((a \o b) \o c, d, t \cup u)
    BY <1>0, <2>1, <2>7 DEF Emits
  <2>9. d \subseteq OpenLabels(top) /\ AwaitedLabels(top) \subseteq d
    BY <2>3
  <2> HIDE DEF d
  <2> QED BY <1>10, <2>1, <2>5, <2>8, <2>9, LabelsPopped
<1>19. CASE EndFunction
  <2>1. CASE reachable /\ header.ret.spec # "void"
    BY <1>19, <2>1, LabelsRejected DEF EndFunction
  <2>2. CASE ~(reachable /\ header.ret.spec # "void")
    <3> DEFINE s == IF reachable THEN <<Ret(NoOperand)>> ELSE <<>>
    <3>1. /\ mode = "after" /\ top.kind = "function" /\ code' = code \o s /\ frames' = Pop
          /\ nextLabelID' = nextLabelID
      BY <1>19, <2>2 DEF EndFunction, Emit
    <3>2. Lists(s, {}, {})
      BY RetLists
    <3> HIDE DEF s
    <3>3. mode \in Working /\ top.kind \notin EndKinds
      BY <1>a, <3>1 DEF EndKinds
    <3> QED BY <3>1, <3>2, <3>3, PlainPop
  <2> QED BY <2>1, <2>2
<1> QED BY <1>1, <1>2, <1>4, <1>5, <1>6, <1>7, <1>8, <1>9, <1>11, <1>12, <1>13, <1>14,
           <1>15, <1>16, <1>17, <1>18, <1>19 DEF StatementStep


\* A condition's branch places the label of the body and goes to another label.
Branches(a, b, f) == (\E s : Emits(s, {b}, {b, a})) /\ frames' = ReplaceTop(f)

LEMMA ConditionBranch ==
    ASSUME TypeInv, NEW a, NEW b, NEW f, EnterBody(a, b, f),
           nextLabelID' \in Nat, nextLabelID <= nextLabelID'
    PROVE  Branches(a, b, f)
<1> DEFINE s == <<Br(Top(1).operand, b, a), Label(b)>>
<1>1. code' = code \o s /\ frames' = ReplaceTop(f)
  BY DEF EnterBody, Emit
<1>2. Lists(s, {b}, {b, a})
  BY ControlLists
<1> HIDE DEF s
<1> QED BY <1>1, <1>2 DEF Emits, Branches

LEMMA ContinuationsKeepLabels ==
    ASSUME TypeInv, FramesNest, LabelInv, ContinuationStep
    PROVE  LabelInv'
<1>0. /\ nextLabelID \in Nat /\ nextLabelID + 1 \in Nat /\ nextLabelID + 2 \in Nat
      /\ nextLabelID + 3 \in Nat
  BY DEF TypeInv
<1>1. ASSUME NEW k, ExpressionDone(k)
      PROVE  /\ mode \in Working /\ top.kind = k /\ top \in GoodFrames
             /\ FrameLabels(top, Defined(code), nextLabelID)
  <2>1. mode \in Working /\ top.kind = k
    BY <1>1 DEF ExpressionDone, Working
  <2> QED BY <2>1, LabelsOfTop
<1>2. ASSUME NEW k \in {"expr", "decl", "return"}, ExpressionDone(k), frames' = Pop,
             nextLabelID' = nextLabelID, NEW s, Lists(s, {}, {}), code' = code \o s
      PROVE  LabelInv'
  <2>1. mode \in Working /\ top.kind \notin EndKinds
    BY <1>1, <1>2 DEF EndKinds
  <2> QED BY <1>2, <2>1, PlainPop
<1>3. CASE ExpressionStatementDone
  <2>1. /\ ExpressionDone("expr") /\ frames' = Pop /\ nextLabelID' = nextLabelID
        /\ code' = code
    BY <1>3 DEF ExpressionStatementDone
  <2> QED BY <1>2, <2>1, NothingEmitted
<1>4. CASE InitializerDone
  <2>1. CASE Top(1).type # top.decl.type
    BY <1>4, <2>1, LabelsRejected DEF InitializerDone
  <2>2. CASE Top(1).type = top.decl.type
    <3> DEFINE i == Store(top.decl.slot, Top(1).operand)
    <3>1. /\ ExpressionDone("decl") /\ frames' = Pop /\ nextLabelID' = nextLabelID
          /\ code' = code \o <<i>> /\ i.kind = "op"
      BY <1>4, <2>2, InstructionParts DEF InitializerDone, Emit, Store
    <3> HIDE DEF i
    <3>2. Lists(<<i>>, {}, {})
      BY <3>1, OpsLists, OpsLabels
    <3> QED BY <1>2, <3>1, <3>2
  <2> QED BY <2>1, <2>2
<1>5. CASE ReturnDone
  <2>1. CASE Top(1).type # LowerType(header.ret) \/ Top(1).type = Void
    BY <1>5, <2>1, LabelsRejected DEF ReturnDone
  <2>2. CASE ~(Top(1).type # LowerType(header.ret) \/ Top(1).type = Void)
    <3>1. /\ ExpressionDone("return") /\ frames' = Pop /\ nextLabelID' = nextLabelID
          /\ code' = code \o <<Ret(Top(1).operand)>>
      BY <1>5, <2>2 DEF ReturnDone, Emit
    <3> QED BY <1>2, <3>1, RetLists
  <2> QED BY <2>1, <2>2
<1>6. CASE VoidCondition
  BY <1>6, LabelsRejected DEF VoidCondition
<1>7. CASE IfConditionDone
  <2> DEFINE n == nextLabelID
             t == {n, n + 1}
             f == [Frame("then") EXCEPT !.end = n + 1]
  <2>1. ExpressionDone("ifCond") /\ nextLabelID' = n + 2 /\ EnterBody(n + 1, n, f)
    BY <1>7 DEF IfConditionDone
  <2>2. "then" \in FrameKinds
    BY DEF FrameKinds
  <2>3. f \in GoodFrames
    BY <1>0, NewFrames
  <2>4. f.kind = "then" /\ f.end = n + 1
    BY <2>2, NewFrameFields
  <2> HIDE DEF f
  <2>5. PICK s : Emits(s, {n}, t) /\ frames' = ReplaceTop(f)
    <3>1. nextLabelID' \in Nat /\ nextLabelID <= nextLabelID'
      BY <1>0, <2>1
    <3>2. Branches(n + 1, n, f)
      BY <2>1, <3>1, ConditionBranch
    <3> QED BY <3>2 DEF Branches
  <2>6. OpenLabels(f) = {n + 1} /\ AwaitedLabels(f) = {n + 1} /\ Distinct(f)
        /\ f.kind \notin HeadKinds
    BY <2>3, <2>4, OpenByKind DEF HeadKinds
  <2>7. mode \in Working /\ AwaitedLabels(top) = {}
    BY <1>1, <2>1, OpenByKind DEF EndKinds
  <2>8. \A l \in {n} \cup OpenLabels(f) : l \in OpenLabels(top) \/ (l \in Nat /\ New(l))
    BY <1>0, <2>1, <2>6 DEF New
  <2>9. {n} \cap OpenLabels(f) = {} /\ AwaitedLabels(top) \subseteq {n} \cup AwaitedLabels(f)
        /\ t \subseteq Defined(code) \cup {n} \cup AwaitedLabels(f)
    BY <1>0, <2>6, <2>7
  <2> HIDE DEF t
  <2> QED BY <2>5, <2>6, <2>7, <2>8, <2>9, LabelsReplaced
<1>8. CASE IfElseConditionDone
  <2> DEFINE n == nextLabelID
             t == {n, n + 2}
             f == [Frame("thenElse") EXCEPT !.end = n + 1, !.alt = n + 2]
  <2>1. ExpressionDone("ifCond") /\ nextLabelID' = n + 3 /\ EnterBody(n + 2, n, f)
    BY <1>8 DEF IfElseConditionDone
  <2>2. "thenElse" \in FrameKinds
    BY DEF FrameKinds
  <2>3. f \in GoodFrames
    BY <1>0, NewFrames
  <2>4. f.kind = "thenElse" /\ f.end = n + 1 /\ f.alt = n + 2
    BY <2>2, NewFrameFields
  <2> HIDE DEF f
  <2>5. PICK s : Emits(s, {n}, t) /\ frames' = ReplaceTop(f)
    <3>1. nextLabelID' \in Nat /\ nextLabelID <= nextLabelID'
      BY <1>0, <2>1
    <3>2. Branches(n + 2, n, f)
      BY <2>1, <3>1, ConditionBranch
    <3> QED BY <3>2 DEF Branches
  <2>6. OpenLabels(f) = {n + 2, n + 1} /\ AwaitedLabels(f) = {n + 2} /\ Distinct(f)
        /\ f.kind \notin HeadKinds
    BY <1>0, <2>3, <2>4, OpenByKind DEF HeadKinds
  <2>7. mode \in Working /\ AwaitedLabels(top) = {}
    BY <1>1, <2>1, OpenByKind DEF EndKinds
  <2>8. \A l \in {n} \cup OpenLabels(f) : l \in OpenLabels(top) \/ (l \in Nat /\ New(l))
    BY <1>0, <2>1, <2>6 DEF New
  <2>9. {n} \cap OpenLabels(f) = {} /\ AwaitedLabels(top) \subseteq {n} \cup AwaitedLabels(f)
        /\ t \subseteq Defined(code) \cup {n} \cup AwaitedLabels(f)
    BY <1>0, <2>6, <2>7
  <2> HIDE DEF t
  <2> QED BY <2>5, <2>6, <2>7, <2>8, <2>9, LabelsReplaced
<1>9. CASE WhileConditionDone
  <2> DEFINE f == [top EXCEPT !.kind = "while", !.body = NoLabel]
  <2>1. ExpressionDone("whileCond") /\ nextLabelID' = nextLabelID
        /\ EnterBody(top.end, top.body, f)
    BY <1>9 DEF WhileConditionDone
  <2>2. mode \in Working /\ top \in GoodFrames /\ top.kind = "whileCond"
        /\ top.head \in Defined(code) /\ top.body # top.end
    BY <1>1, <2>1 DEF FrameLabels, Distinct, HeadKinds, BodyKinds
  <2>3. /\ OpenLabels(top) = {top.body, top.end} /\ AwaitedLabels(top) = {top.body, top.end}
        /\ top.end \in Nat /\ top.body \in Nat
    BY <2>2, OpenByKind DEF EndKinds, BodyKinds
  <2>4. f \in GoodFrames
    BY <2>2, NextFrames
  <2>5. f.kind = "while" /\ f.end = top.end /\ f.head = top.head
    BY <2>2, NextFrameFields
  <2> HIDE DEF f
  <2>6. PICK s : Emits(s, {top.body}, {top.body, top.end}) /\ frames' = ReplaceTop(f)
    <3>1. nextLabelID' \in Nat /\ nextLabelID <= nextLabelID'
      BY <1>0, <2>1
    <3>2. Branches(top.end, top.body, f)
      BY <2>1, <3>1, ConditionBranch
    <3> QED BY <3>2 DEF Branches
  <2>7. OpenLabels(f) = {top.end} /\ AwaitedLabels(f) = {top.end} /\ Distinct(f)
    BY <2>4, <2>5, OpenByKind
  <2> QED BY <2>2, <2>3, <2>5, <2>6, <2>7, LabelsReplaced
<1>10. CASE ForConditionDone
  <2> DEFINE f == [top EXCEPT !.kind = "forBody", !.body = NoLabel]
  <2>1. ExpressionDone("forCond") /\ nextLabelID' = nextLabelID
        /\ EnterBody(top.end, top.body, f)
    BY <1>10 DEF ForConditionDone
  <2>2. mode \in Working /\ top \in GoodFrames /\ top.kind = "forCond"
        /\ top.head \in Defined(code) /\ top.body # top.end /\ top.body # top.alt
        /\ top.alt # top.end
    BY <1>1, <2>1 DEF FrameLabels, Distinct, HeadKinds, BodyKinds, AltKinds
  <2>3. /\ OpenLabels(top) = {top.body, top.alt, top.end}
        /\ AwaitedLabels(top) = {top.body, top.alt, top.end}
        /\ top.end \in Nat /\ top.body \in Nat
    BY <2>2, OpenByKind DEF EndKinds, BodyKinds
  <2>4. f \in GoodFrames
    BY <2>2, NextFrames
  <2>5. f.kind = "forBody" /\ f.end = top.end /\ f.head = top.head /\ f.alt = top.alt
    BY <2>2, NextFrameFields
  <2> HIDE DEF f
  <2>6. PICK s : Emits(s, {top.body}, {top.body, top.end}) /\ frames' = ReplaceTop(f)
    <3>1. nextLabelID' \in Nat /\ nextLabelID <= nextLabelID'
      BY <1>0, <2>1
    <3>2. Branches(top.end, top.body, f)
      BY <2>1, <3>1, ConditionBranch
    <3> QED BY <3>2 DEF Branches
  <2>7. OpenLabels(f) = {top.alt, top.end} /\ AwaitedLabels(f) = {top.alt, top.end}
        /\ Distinct(f)
    BY <2>2, <2>4, <2>5, OpenByKind
  <2> QED BY <2>2, <2>3, <2>5, <2>6, <2>7, LabelsReplaced
<1>11. CASE ForPostDone
  <2> DEFINE s == <<Jmp(top.head), Label(top.end)>>
  <2>1. /\ ExpressionDone("forPost") /\ nextLabelID' = nextLabelID /\ code' = code \o s
        /\ frames' = Pop
    BY <1>11 DEF ForPostDone, Emit, LeaveFor
  <2>2. mode \in Working /\ top \in GoodFrames /\ top.kind = "forPost"
        /\ top.head \in Defined(code)
    BY <1>1, <2>1 DEF FrameLabels, HeadKinds
  <2>3. OpenLabels(top) = {top.end} /\ AwaitedLabels(top) = {top.end}
    BY <2>2, OpenByKind
  <2>4. Lists(s, {top.end}, {top.head})
    BY ControlLists
  <2> HIDE DEF s
  <2>5. Emits(s, {top.end}, {top.head})
    BY <1>0, <2>1, <2>4 DEF Emits
  <2> QED BY <2>1, <2>2, <2>3, <2>5, LabelsPopped
<1> QED BY <1>3, <1>4, <1>5, <1>6, <1>7, <1>8, <1>9, <1>10, <1>11 DEF ContinuationStep

LEMMA LabelInvInductive ==
    ASSUME TypeInv, FramesNest, LabelInv, [Next]_vars
    PROVE  LabelInv'
<1>1. CASE UNCHANGED vars
  BY <1>1 DEF vars, LabelInv
<1>2. CASE ExpressionStep
  <2>1. CASE Rejects
    BY <2>1, LabelsRejected DEF Rejects
  <2>2. CASE Computes /\ UNCHANGED unchangedByExpressions
    <3>1. PICK s : Ops(s) /\ code' = code \o s
      BY <2>2 DEF Computes
    <3>2. frames' = frames /\ nextLabelID' = nextLabelID
      BY <2>2 DEF unchangedByExpressions
    <3> QED BY <3>1, <3>2, OpsLabels, PlainStay
  <2> QED BY <1>2, <2>1, <2>2, ExpressionsCompute
<1> QED BY <1>1, <1>2, StatementsKeepLabels, ContinuationsKeepLabels, Steps

LEMMA LabelInvInitially ==
    ASSUME Init
    PROVE  LabelInv
<1> DEFINE f == Frame("function")
<1>1. code = <<>> /\ frames = Append(<<>>, f) /\ nextLabelID = 0
  <2>1. Append(<<>>, f) = <<f>>
    OBVIOUS
  <2> QED BY <2>1 DEF Init
<1>2. "function" \in FrameKinds \ (EndKinds \cup {"decl"})
  BY DEF FrameKinds, ExprKinds, ScopeKinds, BlockKinds, ForKinds, EndKinds
<1>3. f \in GoodFrames /\ f.kind = "function"
  BY <1>2, NewFrames, NewFrameFields
<1> HIDE DEF f
<1>4. OpenLabels(f) = {} /\ AwaitedLabels(f) = {} /\ Distinct(f) /\ f.kind \notin HeadKinds
  BY <1>2, <1>3, OpenByKind
<1>5. Defined(<<>>) = {} /\ LabelsUnique(<<>>) /\ AllTargets(<<>>) = {}
  BY ShortListsLabels DEF Lists
<1>6. LabelsOf(<<>>, 0, <<>>, {})
  BY <1>5, EmptyList DEF LabelsOf
<1>7. FrameLabels(f, Defined(<<>>), 0)
  BY <1>4 DEF FrameLabels
<1>8. LabelsOf(<<>>, 0, Append(<<>>, f), {})
  BY <1>4, <1>6, <1>7, EmptyList, LabelsOfPush
<1> QED BY <1>1, <1>8 DEF LabelInv

(***************************************************************************)
(* The end of the function.                                                *)
(***************************************************************************)

\* A lowered function has no statement left to lower and ends in a return.
Ended == frames = <<>> /\ Len(code) >= 1 /\ code[Len(code)].kind = "ret"
EndInv == mode = "lowered" => Ended

LEMMA StatementsEnd ==
    ASSUME StatementStep, mode' = "lowered"
    PROVE  EndFunction
<1>1. ASSUME NEW d, Reject(d) PROVE FALSE
  BY <1>1 DEF Reject
<1>2. ~LowerParameter /\ ~ParametersDone /\ ~StartBlock /\ ~EmptyStatement
  BY <1>1 DEF LowerParameter, ParametersDone, StartBlock, EmptyStatement, StatementDone
<1>3. ~EndBlock
  BY DEF EndBlock
<1>4. \A x \in Names, t \in DeclTypes : \A i \in BOOLEAN : ~DeclarationStatement(x, t, i)
  <2> SUFFICES ASSUME NEW x \in Names, NEW t \in DeclTypes, NEW i \in BOOLEAN,
                      DeclarationStatement(x, t, i)
               PROVE  FALSE
    OBVIOUS
  <2>1. mode' = "expr" \/ mode' = "after"
    BY DEF DeclarationStatement, StatementDone
  <2> QED BY <2>1
<1>5. \A x \in Names, t \in DeclTypes : ~BadDeclaration(x, t)
  BY <1>1 DEF BadDeclaration
<1>6. ~ExpressionStatement /\ ~ReturnStatement /\ ~BareReturn /\ ~BadBareReturn /\ ~IfStatement
  BY <1>1
     DEF ExpressionStatement, ReturnStatement, BareReturn, BadBareReturn, IfStatement, StatementDone
<1>7. ~ThenDone /\ ~ThenElseDone /\ ~ElseDone /\ ~WhileStatement /\ ~WhileDone
  BY DEF ThenDone, ThenElseDone, ElseDone, WhileStatement, WhileDone, StatementDone
<1>8. \A h \in BOOLEAN : ~ForStatement(h) /\ ~ForInitDone(h)
  BY DEF ForStatement, ForInitDone, StatementDone
<1>9. ~ForBodyDoneWithPost /\ ~ForBodyDone
  BY DEF ForBodyDoneWithPost, ForBodyDone, LeaveFor, StatementDone
<1> QED BY <1>2, <1>3, <1>4, <1>5, <1>6, <1>7, <1>8, <1>9 DEF StatementStep

LEMMA ContinuationsDoNotEnd ==
    ASSUME ContinuationStep
    PROVE  mode' # "lowered"
<1>1. ASSUME NEW d, Reject(d) PROVE mode' # "lowered"
  BY <1>1 DEF Reject
<1>2. CASE ExpressionStatementDone \/ InitializerDone \/ ReturnDone \/ VoidCondition
  BY <1>1, <1>2
     DEF ExpressionStatementDone, InitializerDone, ReturnDone, VoidCondition, StatementDone
<1>3. CASE \/ IfConditionDone \/ IfElseConditionDone \/ WhileConditionDone
           \/ ForConditionDone \/ ForPostDone
  BY <1>3 DEF IfConditionDone, IfElseConditionDone, WhileConditionDone, ForConditionDone,
              ForPostDone, EnterBody, LeaveFor, StatementDone
<1> QED BY <1>2, <1>3 DEF ContinuationStep

LEMMA EndInvInductive ==
    ASSUME FramesNest, LayoutInv, EndInv, [Next]_vars
    PROVE  EndInv'
<1> SUFFICES ASSUME mode' = "lowered" PROVE Ended'
  BY DEF EndInv
<1>1. CASE UNCHANGED vars
  BY <1>1 DEF vars, EndInv, Ended
<1>2. CASE EndFunction
  <2>1. /\ mode = "after" /\ top.kind = "function" /\ frames' = Pop
        /\ code' = code \o IF reachable THEN <<Ret(NoOperand)>> ELSE <<>>
    BY <1>2 DEF EndFunction, Reject, Emit
  <2>2. IsList(frames) /\ Nested(frames) /\ Len(frames) >= 1
    BY <2>1 DEF FramesNest, Nested, Working
  <2>3. Len(frames) = 1
    BY <2>1, <2>2, NestedTop DEF top
  <2>4. IsList(Pop) /\ Len(Pop) = 0
    <3>1. IsList(Pop) /\ Len(Pop) = Len(frames) - 1
      BY <2>2, ListFront DEF Pop
    <3> QED BY <2>3, <3>1
  <2>5. frames' = <<>>
    <3>1. PICK S : Pop \in Seq(S)
      BY <2>4 DEF IsList
    <3>2. Pop = <<>>
      BY <2>4, <3>1, EmptySeq
    <3> QED BY <2>1, <3>2
  <2>6. IsList(code)
    BY DEF LayoutInv, Separated
  <2>7. Len(code') >= 1 /\ code'[Len(code')].kind = "ret"
    <3>1. CASE reachable
      <4> DEFINE r == Ret(NoOperand)
                 s == <<r>>
      <4>1. code' = code \o s /\ IsList(s) /\ Len(s) = 1 /\ s[1] = r /\ r.kind = "ret"
        BY <2>1, <3>1, ShortLists, InstructionParts
      <4> HIDE DEF r, s
      <4>2. Len(code \o s) = Len(code) + 1 /\ (code \o s)[Len(code) + 1] = s[1]
        <5>1. 1 \in 1..Len(s)
          BY <4>1
        <5>2. IsList(s)
          BY <4>1
        <5>3. /\ Len(code \o s) = Len(code) + Len(s)
              /\ \A i \in 1..Len(s) : (code \o s)[Len(code) + i] = s[i]
          BY <2>6, <5>2, ListConcat
        <5> QED BY <4>1, <5>1, <5>3
      <4> QED BY <2>6, <4>1, <4>2, ListLength
    <3>2. CASE ~reachable
      <4>1. code' = code
        BY <2>1, <2>6, <3>2, Joined
      <4> QED BY <2>1, <3>2, <4>1 DEF LayoutInv
    <3> QED BY <3>1, <3>2
  <2> QED BY <2>5, <2>7 DEF Ended
<1>3. CASE ExpressionStep
  <2>1. mode' # "lowered"
    BY <1>3, ExpressionsLeaveFrames DEF Reject
  <2> QED BY <2>1
<1> QED BY <1>1, <1>2, <1>3, StatementsEnd, ContinuationsDoNotEnd, Steps

\* The conjunction that is inductive.
CodeInv == TypeInv /\ FramesNest /\ LayoutInv /\ LabelInv /\ EndInv

LEMMA CodeInvHolds == Spec => []CodeInv
<1>1. Init => LabelInv /\ EndInv
  BY LabelInvInitially DEF Init, EndInv
<1>2. TypeInv /\ FramesNest /\ LayoutInv /\ LabelInv /\ EndInv /\ [Next]_vars
        => LabelInv' /\ EndInv'
  BY LabelInvInductive, EndInvInductive
<1> QED BY <1>1, <1>2, TypeInvHolds, LayoutHolds, PTL DEF Spec, CodeInv

LEMMA LoweredCode ==
    ASSUME CodeInv, mode = "lowered"
    PROVE  code # <<>> /\ IsCode(code) /\ WellFormed(code)
<1>1. /\ frames = <<>> /\ Len(code) >= 1 /\ code[Len(code)].kind = "ret"
  BY DEF CodeInv, EndInv, Ended
<1>2. code \in Seq(GoodInstructions)
  BY DEF CodeInv, TypeInv
<1>3. /\ Len(code) \in Nat /\ DOMAIN code = 1..Len(code)
      /\ \A i \in DOMAIN code : code[i] \in GoodInstructions
  BY <1>2, SeqFacts
<1>4. \A i \in GoodInstructions : VerifyInstruction(i) /\ i.kind \in InstructionKinds
  BY DEF GoodInstructions, Instructions, InstructionKinds, TerminatorKinds
<1>5. AllAwaited(frames) = {}
  BY <1>1, EmptyList DEF AllAwaited
<1>6. LabelsUnique(code) /\ AllTargets(code) \subseteq Defined(code)
  BY <1>5 DEF CodeInv, LabelInv, LabelsOf
<1>7. TargetsDefined(code)
  BY <1>6 DEF TargetsDefined, AllTargets
<1>8. IsTerminator(code[Len(code)])
  BY <1>1 DEF IsTerminator, TerminatorKinds
<1>9. code # <<>>
  BY <1>1, EmptyList
<1> QED BY <1>3, <1>4, <1>6, <1>7, <1>8, <1>9 DEF IsCode, WellFormed

\* What Lower returns passes ValidateFunctionIR, though Lower never calls it:
\* every jump goes to a label of the function, no label is placed twice and
\* control does not run off the end, whatever the tree.
THEOREM LoweredCodeIsValid == Spec => []LoweredIsValid
<1>1. CodeInv => LoweredIsValid
  BY LoweredCode, ValidatorExactness DEF LoweredIsValid
<1> QED BY <1>1, CodeInvHolds, PTL

(***************************************************************************)
(* Returns.                                                                *)
(***************************************************************************)

\* A return of a value, in a function that has one, or a bare one in a function
\* that has none.
Returns(i) == i.value = NoOperand <=> LowerType(header.ret) = Void
Matching(s) == IsList(s) /\ \A i \in 1..Len(s) : s[i].kind = "ret" => Returns(s[i])

LEMMA MatchingConcat ==
    ASSUME NEW s, NEW t, Matching(s), Matching(t)
    PROVE  Matching(s \o t)
<1> DEFINE d == s \o t
<1>1. /\ IsList(d) /\ Len(d) = Len(s) + Len(t)
      /\ \A i \in 1..Len(s) : d[i] = s[i]
      /\ \A i \in 1..Len(t) : d[Len(s) + i] = t[i]
      /\ Len(s) \in Nat /\ Len(t) \in Nat
  BY ListConcat, ListLength DEF Matching
<1> HIDE DEF d
<1>2. ASSUME NEW i \in 1..Len(d) PROVE d[i].kind = "ret" => Returns(d[i])
  <2>1. CASE i \in 1..Len(s)
    BY <1>1, <2>1 DEF Matching
  <2>2. CASE i \notin 1..Len(s)
    <3>1. i - Len(s) \in 1..Len(t) /\ i = Len(s) + (i - Len(s))
      BY <1>1, <2>2
    <3>2. d[i] = t[i - Len(s)]
      BY <1>1, <3>1
    <3> QED BY <3>1, <3>2 DEF Matching
  <2> QED BY <2>1, <2>2
<1> QED BY <1>1, <1>2 DEF Matching, d

LEMMA MatchingLists ==
    /\ Matching(<<>>)
    /\ \A a : a.kind # "ret" \/ Returns(a) => Matching(<<a>>)
    /\ \A a, b : a.kind # "ret" /\ b.kind # "ret" => Matching(<<a, b>>)
    /\ \A r, l : Matching(JmpIf(r, l))
    /\ \A s : Ops(s) => Matching(s)
<1>1. Matching(<<>>)
  BY EmptyList DEF Matching
<1>2. ASSUME NEW a, a.kind # "ret" \/ Returns(a) PROVE Matching(<<a>>)
  <2> DEFINE s == <<a>>
  <2>1. IsList(s) /\ Len(s) = 1 /\ s[1] = a
    BY ShortLists
  <2> HIDE DEF s
  <2> QED BY <1>2, <2>1 DEF Matching, s
<1>3. ASSUME NEW a, NEW b, a.kind # "ret", b.kind # "ret" PROVE Matching(<<a, b>>)
  <2>1. \A i \in 1..2 : <<a, b>>[i] = a \/ <<a, b>>[i] = b
    OBVIOUS
  <2> QED BY <1>3, <2>1, ShortLists DEF Matching
<1>4. ASSUME NEW r, NEW l PROVE Matching(JmpIf(r, l))
  BY <1>1, <1>2, InstructionParts DEF JmpIf
<1>5. \A s : Ops(s) => Matching(s)
  BY DEF Ops, Matching
<1> QED BY <1>1, <1>2, <1>3, <1>4, <1>5

\* What a step does to the returns: all are dropped, or matching ones follow.
KeepsReturns ==
    /\ header' = header
    /\ \/ code' = code \/ code' = <<>>
       \/ \E s : Matching(s) /\ code' = code \o s

\* Only the code of a function whose return type is void is completed by a bare
\* return.  The code looks at the specifier of the type alone, so void* has to
\* be excluded.
VoidReturnsNothing == \A h \in Headers : h.ret.spec = "void" => h.ret.depth = 0

LEMMA ClosingReturns ==
    ASSUME NEW r, NEW a, NEW b
    PROVE  /\ Matching(JmpIf(r, a) \o <<Label(b)>>)
           /\ Matching(<<Jmp(a), Label(b)>>)
           /\ \A c : Matching(<<Br(c, a, b), Label(a)>>)
BY MatchingLists, MatchingConcat, InstructionParts

LEMMA StatementsKeepReturns ==
    ASSUME VoidReturnsNothing, TypeInv, StatementStep
    PROVE  KeepsReturns
<1>1. ASSUME NEW d, Reject(d) PROVE KeepsReturns
  BY <1>1 DEF Reject, KeepsReturns
<1>2. CASE LowerParameter
  <2> DEFINE p == Head(params)
             sym == NewVariable(LowerType(p.type))
             a == Alloca(sym)
             b == Store(sym.slot, Param(p.name))
  <2>1. CASE DeclarationError(p.name, sym.type) # NoDiagnostic
    BY <1>1, <1>2, <2>1 DEF LowerParameter
  <2>2. CASE DeclarationError(p.name, sym.type) = NoDiagnostic
    <3>1. code' = code \o <<a, b>> /\ header' = header /\ a.kind = "op" /\ b.kind = "op"
      BY <1>2, <2>2, InstructionParts DEF LowerParameter, Emit, Alloca, Store
    <3> HIDE DEF a, b
    <3> QED BY <3>1, MatchingLists DEF KeepsReturns
  <2> QED BY <2>1, <2>2
<1>3. CASE \/ ParametersDone \/ StartBlock \/ EndBlock \/ EmptyStatement
           \/ ExpressionStatement \/ ReturnStatement \/ IfStatement
           \/ \E hasInit \in BOOLEAN : ForStatement(hasInit)
  BY <1>3
     DEF ParametersDone, StartBlock, EndBlock, EmptyStatement, ExpressionStatement,
         ReturnStatement, IfStatement, ForStatement, unchangedByStatements, KeepsReturns
<1>4. ASSUME NEW x \in Names, NEW t \in DeclTypes, NEW i \in BOOLEAN,
             DeclarationStatement(x, t, i)
      PROVE  KeepsReturns
  <2> DEFINE a == Alloca(NewVariable(LowerType(t)))
  <2>1. code' = code \o <<a>> /\ header' = header /\ a.kind = "op"
    BY <1>4, InstructionParts DEF DeclarationStatement, Emit, Alloca, unchangedByStatements
  <2> HIDE DEF a
  <2> QED BY <2>1, MatchingLists DEF KeepsReturns
<1>5. CASE BadBareReturn \/ \E x \in Names, t \in DeclTypes : BadDeclaration(x, t)
  BY <1>1, <1>5 DEF BadBareReturn, BadDeclaration
<1>6. ASSUME header' = header, LowerType(header.ret) = Void, code' = code \o <<Ret(NoOperand)>>
      PROVE  KeepsReturns
  <2> DEFINE r == Ret(NoOperand)
  <2>1. Returns(r)
    BY <1>6 DEF Returns, Ret
  <2> HIDE DEF r
  <2>2. Matching(<<r>>)
    BY <2>1, MatchingLists
  <2> QED BY <1>6, <2>2 DEF KeepsReturns, r
<1>7. CASE BareReturn
  BY <1>6, <1>7 DEF BareReturn, Emit, unchangedByStatements
<1>8. ASSUME NEW s, Matching(s), code' = code \o s, header' = header PROVE KeepsReturns
  BY <1>8 DEF KeepsReturns
<1>9. CASE ThenDone
  BY <1>8, <1>9, ClosingReturns DEF ThenDone, Emit, unchangedByStatements
<1>10. CASE ThenElseDone
  BY <1>8, <1>10, ClosingReturns DEF ThenElseDone, Emit, unchangedByStatements
<1>11. CASE ElseDone
  <2> DEFINE e == IF top.flag \/ reachable THEN <<Label(top.end)>> ELSE <<>>
             j == JmpIf(reachable, top.end)
  <2>1. code' = code \o (j \o e) /\ header' = header
    BY <1>11 DEF ElseDone, Emit, unchangedByStatements
  <2>2. Matching(j) /\ Matching(e)
    BY MatchingLists, InstructionParts
  <2> HIDE DEF j, e
  <2> QED BY <1>8, <2>1, <2>2, MatchingConcat
<1>12. CASE WhileStatement
  BY <1>8, <1>12, ClosingReturns DEF WhileStatement, Emit, unchangedByStatements
<1>13. CASE WhileDone
  BY <1>8, <1>13, ClosingReturns DEF WhileDone, Emit, unchangedByStatements
<1>14. ASSUME NEW hasCond \in BOOLEAN, ForInitDone(hasCond) PROVE KeepsReturns
  <2> DEFINE n == nextLabelID
             enter == <<Jmp(n), Label(n)>>
             again == <<Jmp(n + 1), Label(n + 1)>>
  <2>1. (code' = code \o enter \/ code' = code \o (enter \o again)) /\ header' = header
    BY <1>14 DEF ForInitDone, Emit, unchangedByStatements
  <2>2. Matching(enter) /\ Matching(again)
    BY ClosingReturns
  <2> HIDE DEF enter, again
  <2> QED BY <1>8, <2>1, <2>2, MatchingConcat
<1>15. CASE ForBodyDoneWithPost
  BY <1>8, <1>15, ClosingReturns DEF ForBodyDoneWithPost, Emit, unchangedByStatements
<1>16. CASE ForBodyDone
  <2> DEFINE a == JmpIf(reachable, top.alt) \o <<Label(top.alt)>>
             b == JmpIf(reachable, top.head)
             c == <<Label(top.end)>>
  <2>1. code' = code \o ((a \o b) \o c) /\ header' = header
    BY <1>16 DEF ForBodyDone, Emit, unchangedByStatements
  <2>2. Matching(a) /\ Matching(b) /\ Matching(c)
    BY ClosingReturns, MatchingLists, InstructionParts
  <2> HIDE DEF a, b, c
  <2> QED BY <1>8, <2>1, <2>2, MatchingConcat
<1>17. CASE EndFunction
  <2>1. CASE reachable /\ header.ret.spec # "void"
    BY <1>1, <1>17, <2>1 DEF EndFunction
  <2>2. CASE ~reachable
    BY <1>8, <1>17, <2>2, MatchingLists DEF EndFunction, Emit, unchangedByStatements
  <2>3. CASE reachable /\ header.ret.spec = "void"
    <3>1. header \in Headers /\ header.ret.depth = 0
      BY <2>3 DEF TypeInv, VoidReturnsNothing
    <3>2. LowerType(header.ret) = Void
      BY <2>3, <3>1 DEF LowerType, Void
    <3> QED BY <1>6, <1>17, <2>3, <3>2 DEF EndFunction, Emit, unchangedByStatements
  <2> QED BY <2>1, <2>2, <2>3
<1> QED BY <1>2, <1>3, <1>4, <1>5, <1>7, <1>9, <1>10, <1>11, <1>12, <1>13, <1>14, <1>15, <1>16,
           <1>17 DEF StatementStep

LEMMA ContinuationsKeepReturns ==
    ASSUME TypeInv, ContinuationStep
    PROVE  KeepsReturns
<1>1. ASSUME NEW d, Reject(d) PROVE KeepsReturns
  BY <1>1 DEF Reject, KeepsReturns
<1>2. CASE ExpressionStatementDone
  BY <1>2 DEF ExpressionStatementDone, unchangedByContinuations, KeepsReturns
<1>3. CASE InitializerDone
  <2>1. CASE Top(1).type # top.decl.type
    BY <1>1, <1>3, <2>1 DEF InitializerDone
  <2>2. CASE Top(1).type = top.decl.type
    <3> DEFINE i == Store(top.decl.slot, Top(1).operand)
    <3>1. code' = code \o <<i>> /\ header' = header /\ i.kind = "op"
      BY <1>3, <2>2, InstructionParts DEF InitializerDone, Emit, Store, unchangedByContinuations
    <3> HIDE DEF i
    <3> QED BY <3>1, MatchingLists DEF KeepsReturns
  <2> QED BY <2>1, <2>2
<1>4. CASE ReturnDone
  <2>1. CASE Top(1).type # LowerType(header.ret) \/ Top(1).type = Void
    BY <1>1, <1>4, <2>1 DEF ReturnDone
  <2>2. CASE ~(Top(1).type # LowerType(header.ret) \/ Top(1).type = Void)
    <3> DEFINE i == Ret(Top(1).operand)
    <3>1. ExpressionDone("return") /\ code' = code \o <<i>> /\ header' = header
      BY <1>4, <2>2 DEF ReturnDone, Emit, unchangedByContinuations
    <3>2. Top(1).operand \in Values /\ LowerType(header.ret) # Void
      BY <2>2, <3>1, ExpressionValue
    <3>3. Top(1).operand # NoOperand
      BY <3>2, OperandFacts DEF ValueKinds
    <3>4. Returns(i)
      BY <3>2, <3>3 DEF Returns, Ret
    <3> HIDE DEF i
    <3> QED BY <3>1, <3>4, MatchingLists DEF KeepsReturns
  <2> QED BY <2>1, <2>2
<1>5. CASE VoidCondition
  BY <1>1, <1>5 DEF VoidCondition
<1>6. ASSUME NEW a, NEW b, NEW f, EnterBody(a, b, f) PROVE KeepsReturns
  BY <1>6, ClosingReturns DEF EnterBody, Emit, unchangedByContinuations, KeepsReturns
<1>7. CASE IfConditionDone \/ IfElseConditionDone \/ WhileConditionDone \/ ForConditionDone
  BY <1>6, <1>7
     DEF IfConditionDone, IfElseConditionDone, WhileConditionDone, ForConditionDone
<1>8. CASE ForPostDone
  BY <1>8, ClosingReturns DEF ForPostDone, Emit, unchangedByContinuations, KeepsReturns
<1> QED BY <1>2, <1>3, <1>4, <1>5, <1>7, <1>8 DEF ContinuationStep

LEMMA ReturnsInductive ==
    ASSUME VoidReturnsNothing, TypeInv, Matching(code), [Next]_vars
    PROVE  Matching(code)'
<1>1. CASE UNCHANGED vars
  BY <1>1 DEF vars, Matching, Returns
<1>2. ASSUME KeepsReturns PROVE Matching(code)'
  <2>1. Matching(code')
    BY <1>2, MatchingLists, MatchingConcat DEF KeepsReturns
  <2> QED BY <1>2, <2>1 DEF Matching, Returns, KeepsReturns
<1>3. CASE ExpressionStep
  <2>1. CASE Rejects
    BY <1>2, <2>1 DEF Rejects, Reject, KeepsReturns
  <2>2. CASE Computes /\ UNCHANGED unchangedByExpressions
    <3>1. KeepsReturns
      BY <2>2, MatchingLists DEF Computes, KeepsReturns, unchangedByExpressions
    <3> QED BY <1>2, <3>1
  <2> QED BY <1>3, <2>1, <2>2, ExpressionsCompute
<1> QED BY <1>1, <1>2, <1>3, StatementsKeepReturns, ContinuationsKeepReturns, Steps

\* A function with a value returns one wherever it returns, and a void function
\* nowhere, for every tree, provided no function returns void*: for that type
\* lowerFunction, which looks at the specifier only, completes the body
\* with a bare return.
THEOREM LoweredReturnsMatch ==
    ASSUME VoidReturnsNothing
    PROVE  Spec => []ReturnsMatchSignature
<1>1. Init => Matching(code)
  BY MatchingLists DEF Init
<1>2. TypeInv /\ Matching(code) /\ [Next]_vars => Matching(code)'
  BY ReturnsInductive
<1>3. Matching(code) => ReturnsMatchSignature
  <2> SUFFICES ASSUME Matching(code) PROVE ReturnsMatchSignature
    OBVIOUS
  <2>1. DOMAIN code = 1..Len(code)
    BY ListLength DEF Matching
  <2> QED BY <2>1 DEF Matching, Returns, ReturnsMatchSignature
<1> QED BY <1>1, <1>2, <1>3, TypeInvHolds, PTL DEF Spec


(***************************************************************************)
(* Definitions dominate uses.                                              *)
(*                                                                         *)
(* Every name has a region, the instructions behind its definition that    *)
(* control reaches only past it.  All uses of the name are in its region.  *)
(* The region of a variable grows as long as the variable is in scope, and *)
(* that of an operand as long as the expression it belongs to.             *)
(***************************************************************************)

Uses(s) == UNION {UsedBy(s[i]) : i \in 1..Len(s)}

\* Where a definition of the text has been passed.
Known(c, text, R) == R \cup DefinitionsOf(c, text)
Reaches(c, text, R) == Len(c) \in Known(c, text, R)

\* R is a region of the text in the code c: control enters it behind a
\* definition only, falling through or jumping.  The labels in ahead may still be
\* placed in it: all jumps to them come from it.  Those in behind may still be
\* jumped to from outside: none is placed in it.
Region(c, text, R, ahead, behind) ==
    /\ R \subseteq 1..Len(c) /\ 1 \notin R
    /\ DefinitionsOf(c, text) = {} => R = {}
    /\ \A i \in 1..Len(c) : text \in UsedBy(c[i]) => i \in R
    /\ \A i \in R : i - 1 \in Known(c, text, R)
    /\ \A i \in 1..Len(c) : \A j \in R :
          c[j].kind = "label" /\ c[j].label \in Targets(c[i]) => i \in Known(c, text, R)
    /\ \A i \in 1..Len(c) : \A l \in ahead : l \in Targets(c[i]) => i \in Known(c, text, R)
    /\ \A j \in R : c[j].kind = "label" => c[j].label \notin behind

\* Labels that are not placed do not matter behind, nor ahead those not jumped to.
LEMMA RegionLabels ==
    ASSUME NEW c, IsList(c), NEW text, NEW R, NEW ahead, NEW behind, NEW after, NEW before,
           Region(c, text, R, ahead, behind),
           \A l \in after : l \in ahead \/ l \notin AllTargets(c),
           \A l \in before : l \in behind \/ l \notin Defined(c)
    PROVE  Region(c, text, R, after, before)
<1>1. DOMAIN c = 1..Len(c)
  BY ListLength
<1>2. \A i \in 1..Len(c) : \A l \in after : l \in Targets(c[i]) => i \in Known(c, text, R)
  <2> SUFFICES ASSUME NEW i \in 1..Len(c), NEW l \in after, l \in Targets(c[i])
               PROVE  i \in Known(c, text, R)
    OBVIOUS
  <2>1. l \in AllTargets(c)
    BY <1>1 DEF AllTargets
  <2> QED BY <2>1 DEF Region
<1>3. \A j \in R : c[j].kind = "label" => c[j].label \notin before
  <2> SUFFICES ASSUME NEW j \in R, c[j].kind = "label", c[j].label \in before
               PROVE  FALSE
    OBVIOUS
  <2>1. j \in DOMAIN c
    BY <1>1 DEF Region
  <2>2. c[j].label \in Defined(c)
    BY <2>1 DEF Defined
  <2> QED BY <2>2 DEF Region
<1> QED BY <1>2, <1>3 DEF Region

\* The positions of a concatenation.
LEMMA Positions ==
    ASSUME NEW c, NEW s, IsList(c), IsList(s)
    PROVE  /\ IsList(c \o s) /\ Len(c \o s) = Len(c) + Len(s)
           /\ Len(c) \in Nat /\ Len(s) \in Nat
           /\ \A i \in 1..Len(c) : i \in 1..Len(c \o s) /\ (c \o s)[i] = c[i]
           /\ \A i \in 1..Len(c \o s) :
                 i \notin 1..Len(c) => /\ i - Len(c) \in 1..Len(s)
                                       /\ (c \o s)[i] = s[i - Len(c)]
           /\ \A text : /\ DefinitionsOf(c, text) \subseteq DefinitionsOf(c \o s, text)
                        /\ DefinitionsOf(c, text) \subseteq 1..Len(c)
<1> DEFINE r == c \o s
           m == Len(c)
           n == Len(s)
<1>1. /\ IsList(r) /\ Len(r) = m + n /\ m \in Nat /\ n \in Nat
      /\ DOMAIN c = 1..m /\ DOMAIN r = 1..Len(r)
      /\ \A i \in 1..m : r[i] = c[i]
      /\ \A i \in 1..n : r[m + i] = s[i]
  BY ListConcat, ListLength
<1> HIDE DEF r, m, n
<1>2. \A i \in 1..m : i \in 1..Len(r) /\ r[i] = c[i]
  BY <1>1
<1>3. ASSUME NEW i \in 1..Len(r), i \notin 1..m
      PROVE  i - m \in 1..n /\ r[i] = s[i - m]
  <2>1. i - m \in 1..n /\ i = m + (i - m)
    BY <1>1, <1>3
  <2> QED BY <1>1, <2>1
<1>4. ASSUME NEW text
      PROVE  /\ DefinitionsOf(c, text) \subseteq DefinitionsOf(r, text)
             /\ DefinitionsOf(c, text) \subseteq 1..m
  BY <1>1, <1>2 DEF DefinitionsOf
<1> QED BY <1>1, <1>2, <1>3, <1>4 DEF r, m, n

\* The region with all of the list s that is appended to c.
Grown(c, s, R) == R \cup ((Len(c) + 1)..(Len(c) + Len(s)))

\* The region takes in what is appended, as long as a definition has been passed.
LEMMA RegionGrows ==
    ASSUME NEW c, IsList(c), NEW s, IsList(s), NEW text, NEW R, NEW ahead, NEW behind,
           Region(c, text, R, ahead, behind), Reaches(c, text, R),
           Defined(s) \subseteq ahead, Defined(s) \cap behind = {}
    PROVE  LET P == Grown(c, s, R)
           IN  Region(c \o s, text, P, ahead, behind) /\ Reaches(c \o s, text, P)
<1> DEFINE r == c \o s
           m == Len(c)
           new == (m + 1)..(m + Len(s))
           P == R \cup new
<1>1. /\ IsList(r) /\ Len(r) = m + Len(s) /\ m \in Nat /\ Len(s) \in Nat
      /\ \A i \in 1..m : i \in 1..Len(r) /\ r[i] = c[i]
      /\ \A i \in 1..Len(r) : i \notin 1..m => i - m \in 1..Len(s) /\ r[i] = s[i - m]
      /\ DefinitionsOf(c, text) \subseteq DefinitionsOf(r, text)
      /\ DefinitionsOf(c, text) \subseteq 1..m
  BY Positions
<1>2. /\ R \subseteq 1..m /\ 1 \notin R
      /\ DefinitionsOf(c, text) = {} => R = {}
      /\ \A i \in 1..m : text \in UsedBy(c[i]) => i \in R
      /\ \A i \in R : i - 1 \in Known(c, text, R)
      /\ \A i \in 1..m : \A j \in R :
            c[j].kind = "label" /\ c[j].label \in Targets(c[i]) => i \in Known(c, text, R)
      /\ \A i \in 1..m : \A l \in ahead : l \in Targets(c[i]) => i \in Known(c, text, R)
      /\ \A j \in R : c[j].kind = "label" => c[j].label \notin behind
  BY DEF Region
<1>3. m \in Known(c, text, R) /\ m >= 1 /\ DefinitionsOf(c, text) # {}
  BY <1>1, <1>2 DEF Reaches, Known
<1>4. \A i \in new : i \in 1..Len(r) /\ i \notin 1..m /\ i # 1
  BY <1>1, <1>3
<1>5. \A i \in 1..Len(r) : i \in 1..m \/ i \in new
  BY <1>1
<1>6. \A i \in new : i - 1 \in new \/ i - 1 = m
  BY <1>1
<1>7. Len(r) \in new \/ Len(r) = m
  BY <1>1
<1>8. \A i \in new : r[i].kind = "label" => r[i].label \in Defined(s)
  <2> SUFFICES ASSUME NEW i \in new, r[i].kind = "label" PROVE r[i].label \in Defined(s)
    OBVIOUS
  <2>1. i - m \in 1..Len(s) /\ r[i] = s[i - m]
    BY <1>1, <1>4
  <2>2. i - m \in DOMAIN s
    BY <2>1, ListLength
  <2> QED BY <2>1, <2>2 DEF Defined
<1> HIDE DEF r, m, new
<1>9. Known(c, text, R) \subseteq Known(r, text, P)
  BY <1>1 DEF Known
<1>10. P \subseteq 1..Len(r) /\ 1 \notin P
  BY <1>1, <1>2, <1>4
<1>11. DefinitionsOf(r, text) # {}
  BY <1>1, <1>3
<1>12. \A i \in 1..Len(r) : text \in UsedBy(r[i]) => i \in P
  BY <1>1, <1>2, <1>5
<1>13. \A i \in P : i - 1 \in Known(r, text, P)
  <2>1. \A i \in R : i - 1 \in Known(r, text, P)
    BY <1>2, <1>9
  <2>2. \A i \in new : i - 1 \in Known(r, text, P)
    BY <1>3, <1>6, <1>9 DEF Known
  <2> QED BY <2>1, <2>2
<1>14. ASSUME NEW i \in 1..Len(r), NEW j \in P, r[j].kind = "label",
              r[j].label \in Targets(r[i])
       PROVE  i \in Known(r, text, P)
  <2>1. CASE i \in new
    BY <2>1 DEF Known
  <2>2. CASE i \in 1..m /\ j \in R
    <3>1. r[i] = c[i] /\ r[j] = c[j]
      BY <1>1, <1>2, <2>2
    <3>2. i \in Known(c, text, R)
      BY <1>2, <1>14, <2>2, <3>1
    <3> QED BY <1>9, <3>2
  <2>3. CASE i \in 1..m /\ j \in new
    <3>1. r[i] = c[i] /\ r[j].label \in ahead
      BY <1>1, <1>8, <1>14, <2>3
    <3>2. i \in Known(c, text, R)
      BY <1>2, <1>14, <2>3, <3>1
    <3> QED BY <1>9, <3>2
  <2> QED BY <1>5, <2>1, <2>2, <2>3
<1>15. ASSUME NEW i \in 1..Len(r), NEW l \in ahead, l \in Targets(r[i])
       PROVE  i \in Known(r, text, P)
  <2>1. CASE i \in new
    BY <2>1 DEF Known
  <2>2. CASE i \in 1..m
    BY <1>1, <1>2, <1>9, <1>15, <2>2
  <2> QED BY <1>5, <2>1, <2>2
<1>16. ASSUME NEW j \in P, r[j].kind = "label"
       PROVE  r[j].label \notin behind
  <2>1. CASE j \in new
    BY <1>8, <1>16, <2>1
  <2>2. CASE j \in R
    BY <1>1, <1>2, <1>16, <2>2
  <2> QED BY <2>1, <2>2
<1>17. Len(r) \in Known(r, text, P)
  BY <1>3, <1>7, <1>9 DEF Known
<1> HIDE DEF P
<1>18. Region(r, text, P, ahead, behind) /\ Reaches(r, text, P)
  BY <1>10, <1>11, <1>12, <1>13, <1>14, <1>15, <1>16, <1>17 DEF Region, Reaches
<1> QED BY <1>18 DEF r, P, new, m, Grown

\* The region stays as it is when nothing appended uses the text or jumps into it.
LEMMA RegionStays ==
    ASSUME NEW c, IsList(c), NEW s, IsList(s), NEW text, NEW R, NEW behind,
           Region(c, text, R, {}, behind), text \notin Uses(s), AllTargets(s) \subseteq behind
    PROVE  Region(c \o s, text, R, {}, behind)
<1> DEFINE r == c \o s
           m == Len(c)
           none == {}
<1>1. /\ IsList(r) /\ Len(r) = m + Len(s) /\ m \in Nat /\ Len(s) \in Nat
      /\ \A i \in 1..m : i \in 1..Len(r) /\ r[i] = c[i]
      /\ \A i \in 1..Len(r) : i \notin 1..m => i - m \in 1..Len(s) /\ r[i] = s[i - m]
      /\ DefinitionsOf(c, text) \subseteq DefinitionsOf(r, text)
      /\ DefinitionsOf(c, text) \subseteq 1..m
  BY Positions
<1>2. /\ R \subseteq 1..m /\ 1 \notin R
      /\ DefinitionsOf(c, text) = {} => R = {}
      /\ \A i \in 1..m : text \in UsedBy(c[i]) => i \in R
      /\ \A i \in R : i - 1 \in Known(c, text, R)
      /\ \A i \in 1..m : \A j \in R :
            c[j].kind = "label" /\ c[j].label \in Targets(c[i]) => i \in Known(c, text, R)
      /\ \A j \in R : c[j].kind = "label" => c[j].label \notin behind
  BY DEF Region
<1> HIDE DEF r, m
<1>3. Known(c, text, R) \subseteq Known(r, text, R)
  BY <1>1 DEF Known
<1>4. R \subseteq 1..Len(r) /\ (DefinitionsOf(r, text) = {} => R = {})
  BY <1>1, <1>2
<1>5. ASSUME NEW i \in 1..Len(r), i \notin 1..m
      PROVE  text \notin UsedBy(r[i]) /\ Targets(r[i]) \subseteq behind
  <2>1. i - m \in 1..Len(s) /\ r[i] = s[i - m] /\ i - m \in DOMAIN s
    BY <1>1, <1>5, ListLength
  <2> QED BY <2>1 DEF Uses, AllTargets
<1>6. \A i \in 1..Len(r) : text \in UsedBy(r[i]) => i \in R
  BY <1>1, <1>2, <1>5
<1>7. \A i \in R : i - 1 \in Known(r, text, R)
  BY <1>2, <1>3
<1>8. ASSUME NEW i \in 1..Len(r), NEW j \in R, r[j].kind = "label",
             r[j].label \in Targets(r[i])
      PROVE  i \in Known(r, text, R)
  <2>1. r[j] = c[j] /\ r[j].label \notin behind
    BY <1>1, <1>2, <1>8
  <2>2. i \in 1..m /\ r[i] = c[i]
    BY <1>1, <1>5, <1>8, <2>1
  <2> QED BY <1>2, <1>3, <1>8, <2>1, <2>2
<1>9. \A j \in R : r[j].kind = "label" => r[j].label \notin behind
  BY <1>1, <1>2
<1>10. \A l \in none : FALSE
  OBVIOUS
<1> HIDE DEF none
<1>11. Region(r, text, R, none, behind)
  BY <1>2, <1>4, <1>6, <1>7, <1>8, <1>9, <1>10 DEF Region
<1> QED BY <1>11 DEF r, none

\* An instruction that defines the text puts what follows behind a definition.
LEMMA DefinitionReaches ==
    ASSUME NEW c, IsList(c), NEW i, i.kind = "op", NEW R
    PROVE  Reaches(c \o <<i>>, i.dst.text, R)
<1> DEFINE s == <<i>>
           r == c \o s
<1>a. IsList(s) /\ Len(s) = 1 /\ s[1] = i
  BY ShortLists
<1>b. 1 \in 1..1
  OBVIOUS
<1>1. IsList(s) /\ Len(s) = 1 /\ s[1] = i /\ 1 \in 1..Len(s)
  BY <1>a, <1>b
<1> HIDE DEF s
<1>c. Len(c) \in Nat
  BY ListLength
<1>d. IsList(r) /\ Len(r) = Len(c) + Len(s)
  BY <1>1, ListConcat
<1>e. \A k \in 1..Len(s) : r[Len(c) + k] = s[k]
  BY <1>1, ListConcat
<1>f. r[Len(c) + 1] = s[1]
  BY <1>1, <1>e
<1>2. IsList(r) /\ Len(r) = Len(c) + 1 /\ Len(c) \in Nat /\ r[Len(c) + 1] = i
  BY <1>1, <1>c, <1>d, <1>f
<1>3. DOMAIN r = 1..Len(r)
  BY <1>2, ListLength
<1> HIDE DEF r
<1>4. Len(r) \in DOMAIN r /\ r[Len(r)] = i
  BY <1>2, <1>3
<1>5. Len(r) \in DefinitionsOf(r, i.dst.text)
  BY <1>4 DEF DefinitionsOf
<1> QED BY <1>5 DEF Reaches, Known, r, s

(***************************************************************************)
(* The regions of a state.                                                 *)
(***************************************************************************)

HeadOf(f) == {l \in Nat : f.kind \in HeadKinds /\ l = f.head}

\* The labels to be placed by the frames from the k-th, and the heads of the loops
\* below it.
OpenFrom(fs, k)   == {l \in Nat : \E i \in 1..Len(fs) : k <= i /\ l \in OpenLabels(fs[i])}
HeadsBelow(fs, k) == {l \in Nat : \E i \in 1..Len(fs) : i < k /\ l \in HeadOf(fs[i])}
AllHeads(fs)      == {l \in Nat : \E i \in 1..Len(fs) : l \in HeadOf(fs[i])}

\* The frame of every scope.
Homes(home, n, fs) ==
    /\ home \in [1..n -> 1..Len(fs)]
    /\ \A i, j \in 1..n : i < j => home[i] < home[j]
    /\ \A m \in 1..Len(fs) : fs[m].kind \in ScopeKinds <=> \E i \in 1..n : home[i] = m

\* The slots of the variables of a scope, and of all scopes.
TextsIn(scope)     == TextsOf({scope[x].slot : x \in Names})
VariableTexts(sc)  == UNION {TextsIn(sc[i]) : i \in 1..Len(sc)}

\* The text has a region R in the code c.  Definitions of the active texts and of
\* the variables in scope have been passed.
Held(text, R, home, c, fs, sc, active) ==
    /\ text \in active => Reaches(c, text, R)
    /\ \A i \in 1..Len(sc) : text \in TextsIn(sc[i]) =>
          /\ Reaches(c, text, R)
          /\ Region(c, text, R, OpenFrom(fs, home[i]), HeadsBelow(fs, home[i]))
    /\ text \notin VariableTexts(sc) => Region(c, text, R, {}, AllHeads(fs))

Dominated(c, fs, sc, active) ==
    /\ IsList(c) /\ IsList(fs) /\ IsList(sc)
    /\ \E home : /\ Homes(home, Len(sc), fs)
                 /\ \A text : \E R : Held(text, R, home, c, fs, sc, active)

\* Only texts that are defined are active or in scope.
LEMMA HeldDefined ==
    ASSUME NEW text, NEW R, NEW home, NEW c, IsList(c), NEW fs, NEW sc, NEW active,
           Held(text, R, home, c, fs, sc, active),
           text \in active \/ text \in VariableTexts(sc)
    PROVE  DefinitionsOf(c, text) # {}
<1>1. Reaches(c, text, R) /\ \E ahead, behind : Region(c, text, R, ahead, behind)
  <2>1. CASE text \in VariableTexts(sc)
    BY <2>1 DEF VariableTexts, Held
  <2>2. CASE text \notin VariableTexts(sc)
    BY <2>2 DEF Held
  <2> QED BY <2>1, <2>2
<1> QED BY <1>1 DEF Reaches, Known, Region

\* An operation of an expression: it uses active texts and variables in scope,
\* and what it defines is active from then on.
LEMMA OperationDominated ==
    ASSUME NEW c, NEW fs, NEW sc, NEW active, Dominated(c, fs, sc, active),
           NEW i, i.kind = "op", UsedBy(i) \subseteq active \cup VariableTexts(sc),
           NEW next, next \subseteq active \cup VariableTexts(sc) \cup {i.dst.text}
    PROVE  Dominated(c \o <<i>>, fs, sc, next)
<1> DEFINE s == <<i>>
           none == {}
<1>1. IsList(c) /\ IsList(fs) /\ IsList(sc)
  BY DEF Dominated
<1>2. Lists(s, {}, {})
  <2>1. Ops(s)
    BY OpsLists
  <2> HIDE DEF s
  <2> QED BY <2>1, OpsLabels
<1>3. IsList(s) /\ Defined(s) = none /\ AllTargets(s) = none
  BY <1>2 DEF Lists
<1>4. Uses(s) = UsedBy(i)
  <2>1. Len(s) = 1 /\ s[1] = i /\ 1 \in 1..1 /\ \A k \in 1..1 : k = 1
    BY ShortLists
  <2> HIDE DEF s
  <2> QED BY <2>1 DEF Uses
<1>5. \A text, R : text = i.dst.text => Reaches(c \o s, text, R)
  BY <1>1, DefinitionReaches
<1>6. IsList(c \o s)
  BY <1>1, <1>3, Positions
<1>7. PICK home : /\ Homes(home, Len(sc), fs)
                  /\ \A text : \E R : Held(text, R, home, c, fs, sc, active)
  BY DEF Dominated
<1>8. \A l \in none : FALSE
  OBVIOUS
<1> HIDE DEF s, none
<1>9. ASSUME NEW text PROVE \E P : Held(text, P, home, c \o s, fs, sc, next)
  <2>1. PICK R : Held(text, R, home, c, fs, sc, active)
    BY <1>7
  <2>2. CASE text \in VariableTexts(sc)
    <3>1. PICK k \in 1..Len(sc) : text \in TextsIn(sc[k])
      BY <2>2 DEF VariableTexts
    <3>2. Reaches(c, text, R)
      BY <2>1, <3>1 DEF Held
    <3> DEFINE ahead(j)  == OpenFrom(fs, home[j])
               behind(j) == HeadsBelow(fs, home[j])
               grown == Grown(c, s, R)
    <3>3. \A j \in 1..Len(sc) : text \in TextsIn(sc[j]) => Region(c, text, R, ahead(j), behind(j))
      BY <2>1 DEF Held
    <3> HIDE DEF ahead, behind, grown
    <3>4. \A j \in 1..Len(sc) : text \in TextsIn(sc[j]) =>
              Region(c \o s, text, grown, ahead(j), behind(j)) /\ Reaches(c \o s, text, grown)
      BY <1>1, <1>3, <1>8, <3>2, <3>3, RegionGrows DEF grown
    <3>5. Held(text, grown, home, c \o s, fs, sc, next)
      BY <2>2, <3>1, <3>4 DEF Held, ahead, behind
    <3> QED BY <3>5
  <2>3. CASE text \notin VariableTexts(sc)
    <3>1. \A j \in 1..Len(sc) : text \notin TextsIn(sc[j])
      BY <2>3 DEF VariableTexts
    <3>2. Region(c, text, R, none, AllHeads(fs))
      BY <2>1, <2>3 DEF Held, none
    <3>3. CASE text \in active
      <4>1. Reaches(c, text, R)
        BY <2>1, <3>3 DEF Held
      <4>2. PICK P : Region(c \o s, text, P, none, AllHeads(fs)) /\ Reaches(c \o s, text, P)
        BY <1>1, <1>3, <1>8, <3>2, <4>1, RegionGrows
      <4>3. Held(text, P, home, c \o s, fs, sc, next)
        BY <3>1, <4>2 DEF Held, none
      <4> QED BY <4>3
    <3>4. CASE text \notin active
      <4>1. text \notin Uses(s)
        BY <1>4, <2>3, <3>4
      <4>2. Region(c \o s, text, R, none, AllHeads(fs))
        BY <1>1, <1>3, <1>8, <3>2, <4>1, RegionStays DEF none
      <4>3. text \in next => Reaches(c \o s, text, R)
        BY <1>5, <2>3, <3>4
      <4>4. Held(text, R, home, c \o s, fs, sc, next)
        BY <3>1, <4>2, <4>3 DEF Held, none
      <4> QED BY <4>4
    <3> QED BY <3>3, <3>4
  <2> QED BY <2>2, <2>3
<1>10. Dominated(c \o s, fs, sc, next)
  BY <1>1, <1>6, <1>7, <1>9 DEF Dominated
<1> QED BY <1>10 DEF s

\* The top of a stack of frames, and a stack without it.
TopOf(fs)  == fs[Len(fs)]
Rest(fs)   == SubSeq(fs, 1, Len(fs) - 1)

\* The frames fs and scopes sc become gs and rc: the scopes that stay keep their
\* frames, of which only the top one changes, and the labels that come are fresh.
Shifts(fs, sc, home, gs, rc, then, fresh) ==
    /\ IsList(gs) /\ IsList(rc)
    /\ Homes(then, Len(rc), gs)
    /\ \A i \in 1..Len(rc) : TextsIn(rc[i]) # {} =>
          i \in 1..Len(sc) /\ rc[i] = sc[i] /\ then[i] = home[i]
    /\ \A i \in 1..Len(sc) :
          \/ /\ i \in 1..Len(rc) /\ rc[i] = sc[i] /\ then[i] = home[i]
             /\ OpenFrom(gs, home[i]) \subseteq OpenFrom(fs, home[i]) \cup fresh
             /\ HeadsBelow(gs, home[i]) \subseteq HeadsBelow(fs, home[i])
          \/ i \notin 1..Len(rc) /\ AllHeads(gs) \subseteq HeadsBelow(fs, home[i])
    /\ AllHeads(gs) \subseteq AllHeads(fs) \cup fresh

\* What is emitted: a list without labels that uses active texts, and a list that
\* uses none.  It places labels of the frame on top or fresh ones, and jumps to
\* such labels or to the head of the loop on top.
Emission(c, fs, sc, active, a, b, fresh) ==
    /\ \E t : Lists(a, {}, t)
    /\ \E d, t : Lists(b, d, t)
    /\ Uses(a) \subseteq active \cup VariableTexts(sc) /\ Uses(b) = {}
    /\ Defined(b) \subseteq OpenLabels(TopOf(fs)) \cup fresh
    /\ AllTargets(a) \cup AllTargets(b)
         \subseteq OpenLabels(TopOf(fs)) \cup HeadOf(TopOf(fs)) \cup fresh
    /\ \A l \in fresh : l \notin Defined(c) /\ l \notin AllTargets(c)
    /\ \A l \in OpenLabels(TopOf(fs)) : l \notin Defined(c)
    /\ AllHeads(fs) \subseteq Defined(c)

LEMMA ConcatFacts ==
    ASSUME NEW c, NEW a, NEW b, IsList(c), IsList(a), IsList(b)
    PROVE  /\ c \o (a \o b) = (c \o a) \o b
           /\ Uses(a \o b) \subseteq Uses(a) \cup Uses(b)
           /\ IsList(a \o b)
<1>1. c \o (a \o b) = (c \o a) \o b
  <2>1. PICK S : c \in Seq(S)
    BY DEF IsList
  <2>2. PICK T : a \in Seq(T)
    BY DEF IsList
  <2>3. PICK U : b \in Seq(U)
    BY DEF IsList
  <2> DEFINE V == S \cup T \cup U
  <2>4. c \in Seq(V)
    BY <2>1
  <2>5. a \in Seq(V)
    BY <2>2
  <2>6. b \in Seq(V)
    BY <2>3
  <2> HIDE DEF V
  <2>7. \A s, t, u \in Seq(V) : (s \o t) \o u = s \o (t \o u)
    BY ConcatAssociative
  <2>8. (c \o a) \o b = c \o (a \o b)
    BY <2>4, <2>5, <2>6, <2>7, Zenon
  <2> QED BY <2>8
<1>2. Uses(a \o b) \subseteq Uses(a) \cup Uses(b)
  <2> SUFFICES ASSUME NEW text, NEW i \in 1..Len(a \o b), text \in UsedBy((a \o b)[i])
               PROVE  text \in Uses(a) \cup Uses(b)
    BY DEF Uses
  <2>1. CASE i \in 1..Len(a)
    BY <2>1, Positions DEF Uses
  <2>2. CASE i \notin 1..Len(a)
    BY <2>2, Positions DEF Uses
  <2> QED BY <2>1, <2>2
<1> QED BY <1>1, <1>2, Positions

LEMMA OpenFromTop ==
    ASSUME NEW fs, IsList(fs), NEW k \in 1..Len(fs)
    PROVE  /\ OpenLabels(TopOf(fs)) \subseteq OpenFrom(fs, k)
           /\ HeadsBelow(fs, k) \subseteq AllHeads(fs)
           /\ HeadOf(TopOf(fs)) \subseteq AllHeads(fs)
<1>1. Len(fs) \in 1..Len(fs) /\ k <= Len(fs)
  BY ListLength
<1>2. OpenLabels(TopOf(fs)) \subseteq Nat
  BY DEF OpenLabels
<1>3. OpenLabels(TopOf(fs)) \subseteq OpenFrom(fs, k)
  BY <1>1, <1>2 DEF OpenFrom, TopOf
<1>4. HeadsBelow(fs, k) \subseteq AllHeads(fs)
  BY DEF HeadsBelow, AllHeads
<1>5. HeadOf(TopOf(fs)) \subseteq AllHeads(fs)
  BY <1>1 DEF HeadOf, AllHeads, TopOf
<1> QED BY <1>3, <1>4, <1>5

\* A step of the walk keeps a region for every text.
LEMMA ShiftDominated ==
    ASSUME NEW c, NEW fs, NEW sc, NEW active, Len(fs) >= 1,
           NEW home, Homes(home, Len(sc), fs), IsList(c), IsList(fs), IsList(sc),
           \A text : \E R : Held(text, R, home, c, fs, sc, active),
           NEW a, NEW b, NEW fresh, Emission(c, fs, sc, active, a, b, fresh),
           NEW gs, NEW rc, NEW then, Shifts(fs, sc, home, gs, rc, then, fresh),
           NEW next, next \subseteq VariableTexts(rc)
    PROVE  Dominated(c \o (a \o b), gs, rc, next)
<1> DEFINE s == a \o b
           r == c \o s
           top0 == TopOf(fs)
           none == {}
<1>1. IsList(a) /\ IsList(b) /\ Defined(a) = none
  BY DEF Emission, Lists
<1>2. /\ IsList(s) /\ r = (c \o a) \o b /\ Uses(s) \subseteq Uses(a)
      /\ IsList(c \o a) /\ IsList(r)
  BY <1>1, ConcatFacts, Positions DEF Emission
<1>3. Defined(s) = Defined(b) /\ AllTargets(s) = AllTargets(a) \cup AllTargets(b)
  <2>1. PICK t : Lists(a, {}, t)
    BY DEF Emission
  <2>2. PICK d, u : Lists(b, d, u)
    BY DEF Emission
  <2>3. Lists(s, {} \cup d, t \cup u)
    BY <2>1, <2>2, ListsConcat
  <2> QED BY <2>1, <2>2, <2>3 DEF Lists
<1>4. \A l \in none : FALSE
  OBVIOUS
<1>5. /\ Uses(a) \subseteq active \cup VariableTexts(sc) /\ Uses(b) = {}
      /\ Defined(b) \subseteq OpenLabels(top0) \cup fresh
      /\ AllTargets(a) \cup AllTargets(b) \subseteq OpenLabels(top0) \cup HeadOf(top0) \cup fresh
      /\ \A l \in fresh : l \notin Defined(c) /\ l \notin AllTargets(c)
      /\ \A l \in OpenLabels(top0) : l \notin Defined(c)
      /\ AllHeads(fs) \subseteq Defined(c)
  BY DEF Emission
<1>6. \A i \in 1..Len(sc) : home[i] \in 1..Len(fs)
  BY DEF Homes
<1>7. Len(fs) \in 1..Len(fs)
  BY ListLength
<1>8. HeadOf(top0) \subseteq AllHeads(fs)
  BY <1>7, OpenFromTop
<1>9. /\ \A i \in 1..Len(rc) : TextsIn(rc[i]) # {} =>
          i \in 1..Len(sc) /\ rc[i] = sc[i] /\ then[i] = home[i]
      /\ \A i \in 1..Len(sc) :
          \/ /\ i \in 1..Len(rc) /\ rc[i] = sc[i] /\ then[i] = home[i]
             /\ OpenFrom(gs, home[i]) \subseteq OpenFrom(fs, home[i]) \cup fresh
             /\ HeadsBelow(gs, home[i]) \subseteq HeadsBelow(fs, home[i])
          \/ i \notin 1..Len(rc) /\ AllHeads(gs) \subseteq HeadsBelow(fs, home[i])
      /\ AllHeads(gs) \subseteq AllHeads(fs) \cup fresh
  BY DEF Shifts
<1>10. VariableTexts(rc) \subseteq VariableTexts(sc)
  BY <1>9 DEF VariableTexts
<1> HIDE DEF s, r, top0, none
<1>11. ASSUME NEW text PROVE \E P : Held(text, P, then, r, gs, rc, next)
  <2>1. PICK R : Held(text, R, home, c, fs, sc, active)
    OBVIOUS
  <2>2. CASE text \in VariableTexts(sc)
    <3>1. PICK k \in 1..Len(sc) : text \in TextsIn(sc[k])
      BY <2>2 DEF VariableTexts
    <3>2. Reaches(c, text, R)
      BY <2>1, <3>1 DEF Held
    <3> DEFINE P == Grown(c, s, R)
    <3>3. ASSUME NEW i \in 1..Len(sc), text \in TextsIn(sc[i])
          PROVE  /\ Region(r, text, P, OpenFrom(fs, home[i]) \cup fresh, HeadsBelow(fs, home[i]))
                 /\ Reaches(r, text, P)
      <4> DEFINE ahead  == OpenFrom(fs, home[i])
                 behind == HeadsBelow(fs, home[i])
                 more   == ahead \cup fresh
      <4>1. OpenLabels(top0) \subseteq ahead /\ behind \subseteq AllHeads(fs)
        BY <1>6, OpenFromTop DEF top0
      <4>2. Region(c, text, R, ahead, behind)
        BY <2>1, <3>3 DEF Held
      <4> HIDE DEF ahead, behind, P
      <4>3. \A l \in more : l \in ahead \/ l \notin AllTargets(c)
        BY <1>5
      <4>4. Defined(s) \subseteq more /\ Defined(s) \cap behind = {}
        BY <1>3, <1>5, <4>1
      <4> HIDE DEF more
      <4>5. Region(c, text, R, more, behind)
        BY <4>2, <4>3, RegionLabels
      <4>6. Region(r, text, P, more, behind) /\ Reaches(r, text, P)
        BY <1>2, <3>2, <4>4, <4>5, RegionGrows DEF r, P
      <4> QED BY <4>6 DEF more, ahead, behind
    <3> HIDE DEF P
    <3>4. Reaches(r, text, P)
      BY <3>1, <3>3
    <3>5. ASSUME NEW i \in 1..Len(rc), text \in TextsIn(rc[i])
          PROVE  Region(r, text, P, OpenFrom(gs, then[i]), HeadsBelow(gs, then[i]))
      <4>1. i \in 1..Len(sc) /\ rc[i] = sc[i] /\ then[i] = home[i]
        BY <1>9, <3>5
      <4>2. Region(r, text, P, OpenFrom(fs, home[i]) \cup fresh, HeadsBelow(fs, home[i]))
        BY <3>3, <3>5, <4>1
      <4>3. /\ OpenFrom(gs, home[i]) \subseteq OpenFrom(fs, home[i]) \cup fresh
            /\ HeadsBelow(gs, home[i]) \subseteq HeadsBelow(fs, home[i])
        BY <1>9, <4>1
      <4> QED BY <1>2, <4>1, <4>2, <4>3, RegionLabels
    <3>6. ASSUME text \notin VariableTexts(rc)
          PROVE  Region(r, text, P, {}, AllHeads(gs))
      <4>1. AllHeads(gs) \subseteq HeadsBelow(fs, home[k])
        BY <1>9, <3>1, <3>6 DEF VariableTexts
      <4>2. Region(r, text, P, OpenFrom(fs, home[k]) \cup fresh, HeadsBelow(fs, home[k]))
        BY <3>1, <3>3
      <4>3. Region(r, text, P, none, AllHeads(gs))
        BY <1>2, <1>4, <4>1, <4>2, RegionLabels
      <4> QED BY <4>3 DEF none
    <3>7. Held(text, P, then, r, gs, rc, next)
      BY <3>4, <3>5, <3>6 DEF Held
    <3> QED BY <3>7
  <2>3. CASE text \notin VariableTexts(sc)
    <3> DEFINE before == AllHeads(fs) \cup OpenLabels(top0) \cup fresh
    <3>1. Region(c, text, R, none, AllHeads(fs))
      BY <2>1, <2>3 DEF Held, none
    <3>2. /\ \A l \in before : l \in AllHeads(fs) \/ l \notin Defined(c)
          /\ AllTargets(a) \subseteq before /\ AllTargets(b) \subseteq before
          /\ AllTargets(s) \subseteq before /\ AllHeads(gs) \subseteq before
      BY <1>3, <1>5, <1>8, <1>9
    <3> HIDE DEF before
    <3>3. Region(c, text, R, none, before)
      BY <1>4, <3>1, <3>2, RegionLabels
    <3>4. \E P : Region(r, text, P, none, before)
      <4>1. CASE text \in active
        <5>1. Reaches(c, text, R)
          BY <2>1, <4>1 DEF Held
        <5> DEFINE P == Grown(c, a, R)
        <5>2. Defined(a) \subseteq none /\ Defined(a) \cap before = {}
          BY <1>1, <1>4
        <5>3. Region(c \o a, text, P, none, before)
          BY <1>1, <3>3, <5>1, <5>2, RegionGrows
        <5> HIDE DEF P
        <5>4. text \notin Uses(b)
          BY <1>5
        <5>5. Region((c \o a) \o b, text, P, none, before)
          BY <1>1, <1>2, <3>2, <5>3, <5>4, RegionStays DEF none
        <5> QED BY <1>2, <5>5
      <4>2. CASE text \notin active
        <5>1. text \notin Uses(s)
          BY <1>2, <1>5, <2>3, <4>2
        <5>2. Region(c \o s, text, R, none, before)
          BY <1>2, <3>2, <3>3, <5>1, RegionStays DEF none
        <5> QED BY <5>2 DEF r
      <4> QED BY <4>1, <4>2
    <3>5. PICK P : Region(r, text, P, none, before)
      BY <3>4
    <3>6. \A l \in AllHeads(gs) : l \in before \/ l \notin Defined(r)
      BY <3>2
    <3>7. Region(r, text, P, none, AllHeads(gs))
      BY <1>2, <1>4, <3>5, <3>6, RegionLabels
    <3>8. \A i \in 1..Len(rc) : text \notin TextsIn(rc[i])
      BY <1>10, <2>3 DEF VariableTexts
    <3>9. text \notin next
      BY <1>10, <2>3
    <3>10. Held(text, P, then, r, gs, rc, next)
      BY <3>7, <3>8, <3>9 DEF Held, none
    <3> QED BY <3>10
  <2> QED BY <2>2, <2>3
<1>12. Dominated(r, gs, rc, next)
  BY <1>2, <1>11 DEF Dominated, Shifts
<1> QED BY <1>12 DEF r, s

(***************************************************************************)
(* Declarations, and the frames of the scopes.                             *)
(***************************************************************************)

\* The innermost scope belongs to the frame on top, if that one has a scope.
LEMMA HomeOfTop ==
    ASSUME NEW fs, IsList(fs), Len(fs) >= 1, NEW n \in Nat, NEW home, Homes(home, n, fs),
           TopOf(fs).kind \in ScopeKinds
    PROVE  n >= 1 /\ home[n] = Len(fs) /\ \A i \in 1..n : i # n => home[i] < Len(fs)
<1>1. Len(fs) \in 1..Len(fs) /\ Len(fs) \in Nat
  BY ListLength
<1>2. PICK k \in 1..n : home[k] = Len(fs)
  BY <1>1 DEF Homes, TopOf
<1>3. \A i \in 1..n : home[i] \in 1..Len(fs)
  BY DEF Homes
<1>4. n \in 1..n
  BY <1>2
<1>5. k = n
  <2>1. CASE k < n
    <3>1. home[k] < home[n] /\ home[n] <= Len(fs)
      BY <1>1, <1>3, <1>4, <2>1 DEF Homes
    <3> QED BY <1>1, <1>2, <1>3, <1>4, <3>1
  <2>2. CASE ~(k < n)
    BY <1>2, <2>2
  <2> QED BY <2>1, <2>2
<1>6. ASSUME NEW i \in 1..n, i # n PROVE home[i] < Len(fs)
  <2>1. i < n
    BY <1>6
  <2> QED BY <1>2, <1>4, <1>5, <2>1 DEF Homes
<1> QED BY <1>2, <1>4, <1>5, <1>6

\* A variable whose slot has just been allocated is declared in the scope of the
\* frame on top.
LEMMA DeclarationDominated ==
    ASSUME NEW c, NEW fs, NEW sc, NEW active, Dominated(c, fs, sc, active), Len(fs) >= 1,
           TopOf(fs).kind \in ScopeKinds, OpenLabels(TopOf(fs)) = {},
           NEW slot, slot \in active, slot \notin VariableTexts(sc),
           NEW rc, IsList(rc), Len(rc) = Len(sc),
           \A i \in 1..Len(sc) : i # Len(sc) => rc[i] = sc[i],
           TextsIn(rc[Len(sc)]) = TextsIn(sc[Len(sc)]) \cup {slot},
           NEW next, next \subseteq active \cup VariableTexts(rc)
    PROVE  Dominated(c, fs, rc, next)
<1> DEFINE n == Len(sc)
           m == Len(fs)
           none == {}
<1>1. IsList(c) /\ IsList(fs) /\ IsList(sc) /\ n \in Nat /\ m \in Nat
  BY ListLength DEF Dominated
<1>2. PICK home : /\ Homes(home, n, fs)
                  /\ \A text : \E R : Held(text, R, home, c, fs, sc, active)
  BY DEF Dominated
<1>3. n >= 1 /\ home[n] = m /\ n \in 1..n
  BY <1>1, <1>2, HomeOfTop
<1>4. OpenFrom(fs, m) = none /\ HeadsBelow(fs, m) \subseteq AllHeads(fs)
  <2>1. OpenFrom(fs, m) = none
    <3>1. \A i \in 1..m : m <= i => i = m
      BY <1>1
    <3> HIDE DEF m
    <3>2. \A l : l \notin OpenLabels(fs[m])
      BY DEF TopOf, m
    <3> QED BY <3>1, <3>2 DEF OpenFrom, m
  <2>2. HeadsBelow(fs, m) \subseteq AllHeads(fs)
    BY DEF HeadsBelow, AllHeads
  <2> QED BY <2>1, <2>2
<1>5. \A i \in 1..n : rc[i] = sc[i] \/ i = n
  OBVIOUS
<1>6. /\ TextsIn(rc[n]) = TextsIn(sc[n]) \cup {slot}
      /\ \A text : text \in VariableTexts(rc) <=> text \in VariableTexts(sc) \/ text = slot
  <2>1. TextsIn(rc[n]) = TextsIn(sc[n]) \cup {slot} /\ Len(rc) = n
    OBVIOUS
  <2> HIDE DEF n
  <2>2. VariableTexts(rc) \subseteq VariableTexts(sc) \cup {slot}
    BY <1>5, <2>1 DEF VariableTexts, n
  <2>3. VariableTexts(sc) \subseteq VariableTexts(rc)
    BY <1>5, <2>1 DEF VariableTexts, n
  <2>4. slot \in VariableTexts(rc)
    BY <1>3, <2>1 DEF VariableTexts, n
  <2> QED BY <2>1, <2>2, <2>3, <2>4
<1>7. Len(rc) = n
  OBVIOUS
<1> HIDE DEF n, m, none
<1>8. ASSUME NEW text PROVE \E R : Held(text, R, home, c, fs, rc, next)
  <2>1. PICK R : Held(text, R, home, c, fs, sc, active)
    BY <1>2
  <2>2. CASE text = slot
    <3>1. Reaches(c, text, R) /\ Region(c, text, R, none, AllHeads(fs))
      BY <2>1, <2>2 DEF Held, none
    <3>2. Region(c, text, R, OpenFrom(fs, home[n]), HeadsBelow(fs, home[n]))
      <4>1. \A l \in OpenFrom(fs, m) : l \in none \/ l \notin AllTargets(c)
        BY <1>4
      <4>2. \A l \in HeadsBelow(fs, m) : l \in AllHeads(fs) \/ l \notin Defined(c)
        BY <1>4
      <4>3. Region(c, text, R, OpenFrom(fs, m), HeadsBelow(fs, m))
        BY <1>1, <3>1, <4>1, <4>2, RegionLabels
      <4> QED BY <1>3, <4>3
    <3>3. \A i \in 1..n : text \in TextsIn(rc[i]) => i = n
      <4>1. text \notin VariableTexts(sc)
        BY <2>2
      <4>2. \A i \in 1..n : text \notin TextsIn(sc[i])
        BY <4>1 DEF VariableTexts, n
      <4> QED BY <1>5, <4>2
    <3>4. text \in VariableTexts(rc)
      BY <1>6, <2>2
    <3>5. Held(text, R, home, c, fs, rc, next)
      BY <1>7, <3>1, <3>2, <3>3, <3>4 DEF Held
    <3> QED BY <3>5
  <2>3. CASE text # slot
    <3>1. \A i \in 1..n : text \in TextsIn(rc[i]) <=> text \in TextsIn(sc[i])
      BY <1>5, <1>6, <2>3
    <3>2. text \in VariableTexts(rc) <=> text \in VariableTexts(sc)
      BY <1>6, <2>3
    <3>3. \A i \in 1..n : text \in TextsIn(sc[i]) =>
              /\ Reaches(c, text, R)
              /\ Region(c, text, R, OpenFrom(fs, home[i]), HeadsBelow(fs, home[i]))
      BY <2>1 DEF Held, n
    <3>4. text \in next => Reaches(c, text, R)
      <4>1. text \in active => Reaches(c, text, R)
        BY <2>1 DEF Held
      <4>2. text \in VariableTexts(sc) => Reaches(c, text, R)
        BY <3>3 DEF VariableTexts, n
      <4> QED BY <3>2, <4>1, <4>2
    <3>5. text \notin VariableTexts(sc) => Region(c, text, R, {}, AllHeads(fs))
      BY <2>1 DEF Held
    <3>6. Held(text, R, home, c, fs, rc, next)
      BY <1>7, <3>1, <3>2, <3>3, <3>4, <3>5 DEF Held
    <3> QED BY <3>6
  <2> QED BY <2>2, <2>3
<1> QED BY <1>1, <1>2, <1>7, <1>8 DEF Dominated

\* Fewer active texts.
LEMMA ActiveDominated ==
    ASSUME NEW c, NEW fs, NEW sc, NEW active, Dominated(c, fs, sc, active),
           NEW next, next \subseteq active \cup VariableTexts(sc)
    PROVE  Dominated(c, fs, sc, next)
<1>1. PICK home : /\ Homes(home, Len(sc), fs)
                  /\ \A text : \E R : Held(text, R, home, c, fs, sc, active)
  BY DEF Dominated
<1>2. ASSUME NEW text PROVE \E R : Held(text, R, home, c, fs, sc, next)
  <2>1. PICK R : Held(text, R, home, c, fs, sc, active)
    BY <1>1
  <2>2. text \in VariableTexts(sc) => Reaches(c, text, R)
    BY <2>1 DEF Held, VariableTexts
  <2>3. Held(text, R, home, c, fs, sc, next)
    BY <2>1, <2>2 DEF Held
  <2> QED BY <2>3
<1> QED BY <1>1, <1>2 DEF Dominated

(***************************************************************************)
(* How a step changes the frames and the scopes.                           *)
(***************************************************************************)

\* Nothing changes.
LEMMA StayShifts ==
    ASSUME NEW fs, IsList(fs), NEW sc, IsList(sc), NEW home, Homes(home, Len(sc), fs), NEW fresh
    PROVE  \E then : Shifts(fs, sc, home, fs, sc, then, fresh)
<1>1. Shifts(fs, sc, home, fs, sc, home, fresh)
  BY DEF Shifts
<1> QED BY <1>1

\* A frame is pushed, with a scope of its own if it is of such a kind.
PushesFrame(fs, sc, gs, rc, f, fresh) ==
    /\ gs = Append(fs, f) /\ IsList(rc)
    /\ OpenLabels(f) \cup HeadOf(f) \subseteq fresh
    /\ \/ f.kind \notin ScopeKinds /\ rc = sc
       \/ /\ f.kind \in ScopeKinds /\ Len(rc) = Len(sc) + 1
          /\ \A i \in 1..Len(sc) : rc[i] = sc[i]
          /\ TextsIn(rc[Len(sc) + 1]) = {}

LEMMA PushShifts ==
    ASSUME NEW fs, IsList(fs), NEW sc, IsList(sc), NEW home, Homes(home, Len(sc), fs),
           NEW gs, NEW rc, NEW f, NEW fresh, PushesFrame(fs, sc, gs, rc, f, fresh)
    PROVE  \E then : Shifts(fs, sc, home, gs, rc, then, fresh)
<1> DEFINE m == Len(fs)
           n == Len(sc)
<1>1. /\ IsList(gs) /\ Len(gs) = m + 1 /\ gs[m + 1] = f /\ m \in Nat /\ n \in Nat
      /\ \A i \in 1..m : gs[i] = fs[i]
  BY ListAppend, ListLength DEF PushesFrame
<1>2. /\ home \in [1..n -> 1..m]
      /\ \A i, j \in 1..n : i < j => home[i] < home[j]
      /\ \A k \in 1..m : fs[k].kind \in ScopeKinds <=> \E i \in 1..n : home[i] = k
  BY DEF Homes
<1>3. OpenLabels(f) \subseteq fresh /\ HeadOf(f) \subseteq fresh /\ IsList(rc)
  BY DEF PushesFrame
<1>4. /\ \A i \in 1..m : i \in 1..(m + 1) /\ i # m + 1
      /\ \A i \in 1..(m + 1) : i \in 1..m \/ i = m + 1
      /\ m + 1 \in 1..(m + 1)
  BY <1>1
<1>5. \A i \in 1..n : home[i] \in 1..m
  BY <1>2
<1> HIDE DEF m, n
<1>6. ASSUME NEW k \in 1..m
      PROVE  OpenFrom(gs, k) \subseteq OpenFrom(fs, k) \cup fresh
             /\ HeadsBelow(gs, k) \subseteq HeadsBelow(fs, k)
  <2>1. OpenFrom(gs, k) \subseteq OpenFrom(fs, k) \cup fresh
    BY <1>1, <1>3, <1>4 DEF OpenFrom, m
  <2>2. HeadsBelow(gs, k) \subseteq HeadsBelow(fs, k)
    <3>1. \A i \in 1..(m + 1) : i < k => i \in 1..m
      BY <1>1
    <3> QED BY <1>1, <3>1 DEF HeadsBelow, m
  <2> QED BY <2>1, <2>2
<1>7. AllHeads(gs) \subseteq AllHeads(fs) \cup fresh
  BY <1>1, <1>3, <1>4 DEF AllHeads, m
<1>8. CASE f.kind \notin ScopeKinds /\ rc = sc
  <2>1. Homes(home, n, gs)
    <3>1. home \in [1..n -> 1..(m + 1)]
      BY <1>2, <1>4
    <3>2. \A k \in 1..(m + 1) : gs[k].kind \in ScopeKinds <=> \E i \in 1..n : home[i] = k
      BY <1>1, <1>2, <1>4, <1>5, <1>8
    <3> QED BY <1>1, <1>2, <3>1, <3>2 DEF Homes
  <2>2. Shifts(fs, sc, home, gs, rc, home, fresh)
    BY <1>1, <1>3, <1>5, <1>6, <1>7, <1>8, <2>1 DEF Shifts, n
  <2> QED BY <2>2
<1>9. CASE /\ f.kind \in ScopeKinds /\ Len(rc) = n + 1
           /\ \A i \in 1..n : rc[i] = sc[i]
           /\ TextsIn(rc[n + 1]) = {}
  <2> DEFINE then == [i \in 1..(n + 1) |-> IF i = n + 1 THEN m + 1 ELSE home[i]]
  <2>0. /\ \A i \in 1..n : i \in 1..(n + 1) /\ i # n + 1
        /\ \A i \in 1..(n + 1) : i \in 1..n \/ i = n + 1
        /\ n + 1 \in 1..(n + 1)
    BY <1>1
  <2>1. then[n + 1] = m + 1 /\ \A i \in 1..n : then[i] = home[i]
    BY <2>0
  <2>2. then \in [1..(n + 1) -> 1..(m + 1)]
    BY <1>4, <1>5, <2>0
  <2> HIDE DEF then
  <2>3. ASSUME NEW i \in 1..(n + 1), NEW j \in 1..(n + 1), i < j
        PROVE  then[i] < then[j]
    <3>1. i \in 1..n
      BY <1>1, <2>3
    <3>2. CASE j = n + 1
      <4>1. home[i] \in 1..m
        BY <1>5, <3>1
      <4>2. home[i] < m + 1
        BY <1>1, <4>1
      <4> QED BY <2>1, <3>1, <3>2, <4>2
    <3>3. CASE j \in 1..n
      BY <1>2, <2>1, <2>3, <3>1, <3>3
    <3> QED BY <2>0, <3>2, <3>3
  <2>4. ASSUME NEW k \in 1..(m + 1)
        PROVE  gs[k].kind \in ScopeKinds <=> \E i \in 1..(n + 1) : then[i] = k
    <3>1. CASE k = m + 1
      BY <1>1, <1>9, <2>0, <2>1, <3>1
    <3>2. CASE k \in 1..m
      <4>1. k # m + 1
        BY <1>4, <3>2
      <4>2. (\E i \in 1..(n + 1) : then[i] = k) <=> (\E i \in 1..n : home[i] = k)
        BY <2>0, <2>1, <4>1
      <4> QED BY <1>1, <1>2, <3>2, <4>2
    <3> QED BY <1>4, <3>1, <3>2
  <2>5. Homes(then, n + 1, gs)
    BY <1>1, <2>2, <2>3, <2>4 DEF Homes
  <2>6. \A i \in 1..(n + 1) : TextsIn(rc[i]) # {} => i \in 1..n /\ rc[i] = sc[i] /\ then[i] = home[i]
    BY <1>9, <2>0, <2>1
  <2>7. Shifts(fs, sc, home, gs, rc, then, fresh)
    BY <1>1, <1>3, <1>5, <1>6, <1>7, <1>9, <2>0, <2>1, <2>5, <2>6 DEF Shifts, n
  <2> QED BY <2>7
<1> QED BY <1>8, <1>9 DEF PushesFrame, n

\* The frame on top gives way to another one, both with a scope or both without.
ReplacesFrame(fs, gs, f, fresh) ==
    /\ gs = Append(Rest(fs), f)
    /\ f.kind \in ScopeKinds <=> TopOf(fs).kind \in ScopeKinds
    /\ OpenLabels(f) \subseteq OpenLabels(TopOf(fs)) \cup fresh
    /\ HeadOf(f) \subseteq HeadOf(TopOf(fs)) \cup fresh

LEMMA ReplaceShifts ==
    ASSUME NEW fs, IsList(fs), Len(fs) >= 1,
           NEW sc, IsList(sc), NEW home, Homes(home, Len(sc), fs),
           NEW gs, NEW f, NEW fresh, ReplacesFrame(fs, gs, f, fresh)
    PROVE  \E then : Shifts(fs, sc, home, gs, sc, then, fresh)
<1> DEFINE m == Len(fs)
           n == Len(sc)
           t == fs[m]
<1>1. m \in Nat /\ n \in Nat /\ m >= 1
  BY ListLength
<1>2. /\ IsList(Rest(fs)) /\ Len(Rest(fs)) = m - 1
      /\ \A i \in 1..(m - 1) : Rest(fs)[i] = fs[i]
  BY ListFront DEF Rest
<1>3. /\ IsList(gs) /\ Len(gs) = Len(Rest(fs)) + 1 /\ gs[Len(Rest(fs)) + 1] = f
      /\ \A i \in 1..Len(Rest(fs)) : gs[i] = Rest(fs)[i]
  BY <1>2, ListAppend DEF ReplacesFrame
<1> HIDE DEF m, n
<1>4. IsList(gs) /\ Len(gs) = m /\ gs[m] = f /\ \A i \in 1..(m - 1) : gs[i] = fs[i]
  <2>1. Len(Rest(fs)) + 1 = m
    BY <1>1, <1>2
  <2> QED BY <1>2, <1>3, <2>1
<1>5. \A i \in 1..m : i \in 1..(m - 1) \/ i = m
  BY <1>1
<1>6. /\ f.kind \in ScopeKinds <=> t.kind \in ScopeKinds
      /\ OpenLabels(f) \subseteq OpenLabels(t) \cup fresh
      /\ HeadOf(f) \subseteq HeadOf(t) \cup fresh
  BY DEF ReplacesFrame, TopOf, m
<1> HIDE DEF t
<1>7. Homes(home, n, gs)
  <2>1. \A k \in 1..m : gs[k].kind \in ScopeKinds <=> fs[k].kind \in ScopeKinds
    BY <1>4, <1>5, <1>6 DEF t
  <2> QED BY <1>4, <2>1 DEF Homes, m, n
<1>8. \A i \in 1..n : home[i] \in 1..m
  BY DEF Homes, m, n
<1>9. ASSUME NEW k \in 1..m
      PROVE  OpenFrom(gs, k) \subseteq OpenFrom(fs, k) \cup fresh
             /\ HeadsBelow(gs, k) \subseteq HeadsBelow(fs, k)
  <2>1. OpenFrom(gs, k) \subseteq OpenFrom(fs, k) \cup fresh
    <3> SUFFICES ASSUME NEW l \in Nat, NEW i \in 1..m, k <= i, l \in OpenLabels(gs[i]), l \notin fresh
                 PROVE  l \in OpenFrom(fs, k)
      BY <1>4 DEF OpenFrom
    <3>1. l \in OpenLabels(fs[i])
      BY <1>4, <1>5, <1>6 DEF t
    <3> QED BY <3>1 DEF OpenFrom, m
  <2>2. HeadsBelow(gs, k) \subseteq HeadsBelow(fs, k)
    <3>1. \A i \in 1..m : i < k => i \in 1..(m - 1)
      BY <1>1
    <3> QED BY <1>4, <3>1 DEF HeadsBelow, m
  <2> QED BY <2>1, <2>2
<1>10. AllHeads(gs) \subseteq AllHeads(fs) \cup fresh
  <2> SUFFICES ASSUME NEW l \in Nat, NEW i \in 1..m, l \in HeadOf(gs[i]), l \notin fresh
               PROVE  l \in AllHeads(fs)
    BY <1>4 DEF AllHeads
  <2>1. l \in HeadOf(fs[i])
    BY <1>4, <1>5, <1>6 DEF t
  <2> QED BY <2>1 DEF AllHeads, m
<1>11. Shifts(fs, sc, home, gs, sc, home, fresh)
  BY <1>4, <1>7, <1>8, <1>9, <1>10 DEF Shifts, n
<1> QED BY <1>11

\* The frame on top is popped, with its scope if it has one.
PopsFrame(fs, sc, gs, rc) ==
    /\ gs = Rest(fs)
    /\ rc = IF TopOf(fs).kind \in ScopeKinds THEN Rest(sc) ELSE sc

LEMMA PopShifts ==
    ASSUME NEW fs, IsList(fs), Len(fs) >= 1,
           NEW sc, IsList(sc), NEW home, Homes(home, Len(sc), fs),
           NEW gs, NEW rc, NEW fresh, PopsFrame(fs, sc, gs, rc)
    PROVE  \E then : Shifts(fs, sc, home, gs, rc, then, fresh)
<1> DEFINE m == Len(fs)
           n == Len(sc)
<1>1. m \in Nat /\ n \in Nat /\ m >= 1
  BY ListLength
<1>2. IsList(gs) /\ Len(gs) = m - 1 /\ \A i \in 1..(m - 1) : gs[i] = fs[i]
  BY ListFront DEF Rest, PopsFrame
<1>3. /\ home \in [1..n -> 1..m]
      /\ \A i, j \in 1..n : i < j => home[i] < home[j]
      /\ \A k \in 1..m : fs[k].kind \in ScopeKinds <=> \E i \in 1..n : home[i] = k
  BY DEF Homes
<1>4. TopOf(fs) = fs[m] /\ m \in 1..m
  BY <1>1 DEF TopOf
<1>a. TopOf(fs).kind \in ScopeKinds =>
          n >= 1 /\ home[n] = m /\ \A i \in 1..n : i # n => home[i] < m
  BY <1>1, HomeOfTop
<1>b. n >= 1 => IsList(Rest(sc)) /\ Len(Rest(sc)) = n - 1 /\ \A i \in 1..(n - 1) : Rest(sc)[i] = sc[i]
  BY ListFront DEF Rest
<1> HIDE DEF m, n
<1>5. \A k \in 1..(m - 1) : k \in 1..m /\ k # m
  BY <1>1
<1>6. \A i \in 1..n : home[i] \in 1..m
  BY <1>3
<1>7. ASSUME NEW k \in 1..m
      PROVE  OpenFrom(gs, k) \subseteq OpenFrom(fs, k) \cup fresh
             /\ HeadsBelow(gs, k) \subseteq HeadsBelow(fs, k)
  BY <1>2, <1>5 DEF OpenFrom, HeadsBelow, m
<1>8. AllHeads(gs) \subseteq AllHeads(fs) \cup fresh
  BY <1>2, <1>5 DEF AllHeads, m
<1>9. AllHeads(gs) \subseteq HeadsBelow(fs, m)
  <2>1. \A i \in 1..(m - 1) : i < m
    BY <1>1
  <2> QED BY <1>2, <1>5, <2>1 DEF AllHeads, HeadsBelow, m
<1>10. CASE TopOf(fs).kind \notin ScopeKinds
  <2>1. rc = sc
    BY <1>10 DEF PopsFrame
  <2>2. \A i \in 1..n : home[i] # m
    BY <1>3, <1>4, <1>10
  <2>3. \A i \in 1..n : home[i] \in 1..(m - 1)
    BY <1>1, <1>6, <2>2
  <2>4. Homes(home, n, gs)
    <3>1. home \in [1..n -> 1..(m - 1)]
      BY <1>3, <2>3
    <3>2. \A k \in 1..(m - 1) : gs[k].kind \in ScopeKinds <=> \E i \in 1..n : home[i] = k
      BY <1>2, <1>3, <1>5
    <3> QED BY <1>2, <1>3, <3>1, <3>2 DEF Homes
  <2>5. Shifts(fs, sc, home, gs, rc, home, fresh)
    BY <1>2, <1>6, <1>7, <1>8, <2>1, <2>4 DEF Shifts, n
  <2> QED BY <2>5
<1>11. CASE TopOf(fs).kind \in ScopeKinds
  <2>1. rc = Rest(sc)
    BY <1>11 DEF PopsFrame
  <2>2. n >= 1 /\ home[n] = m /\ \A i \in 1..n : i # n => home[i] < m
    BY <1>11, <1>a
  <2>3. IsList(rc) /\ Len(rc) = n - 1 /\ \A i \in 1..(n - 1) : rc[i] = sc[i]
    BY <1>b, <2>1, <2>2
  <2>4. /\ \A i \in 1..(n - 1) : i \in 1..n /\ i # n
        /\ \A i \in 1..n : i \in 1..(n - 1) \/ i = n
        /\ n \notin 1..(n - 1)
    BY <1>1
  <2>5. \A i \in 1..(n - 1) : home[i] \in 1..(m - 1)
    <3> SUFFICES ASSUME NEW i \in 1..(n - 1) PROVE home[i] \in 1..(m - 1)
      OBVIOUS
    <3>1. home[i] \in 1..m /\ home[i] < m
      BY <1>6, <2>2, <2>4
    <3> QED BY <1>1, <3>1
  <2> DEFINE then == [i \in 1..(n - 1) |-> home[i]]
  <2>6. \A i \in 1..(n - 1) : then[i] = home[i]
    OBVIOUS
  <2>7. then \in [1..(n - 1) -> 1..(m - 1)]
    BY <2>5
  <2> HIDE DEF then
  <2>8. \A k \in 1..(m - 1) : gs[k].kind \in ScopeKinds <=> \E i \in 1..(n - 1) : then[i] = k
    <3> SUFFICES ASSUME NEW k \in 1..(m - 1)
                 PROVE  (\E i \in 1..n : home[i] = k) <=> \E i \in 1..(n - 1) : then[i] = k
      BY <1>2, <1>3, <1>5
    <3>1. k # m
      BY <1>5
    <3> QED BY <2>2, <2>4, <2>6, <3>1
  <2>9. \A i, j \in 1..(n - 1) : i < j => then[i] < then[j]
    BY <1>3, <2>4, <2>6
  <2>10. Homes(then, n - 1, gs)
    BY <1>2, <2>7, <2>8, <2>9 DEF Homes
  <2>11. ASSUME NEW i \in 1..n
         PROVE  \/ i \in 1..(n - 1)
                \/ i \notin 1..(n - 1) /\ AllHeads(gs) \subseteq HeadsBelow(fs, home[i])
    <3>1. CASE i = n
      BY <1>9, <2>2, <2>4, <3>1
    <3> QED BY <2>4, <3>1
  <2>12. Shifts(fs, sc, home, gs, rc, then, fresh)
    BY <1>2, <1>6, <1>7, <1>8, <2>3, <2>4, <2>6, <2>10, <2>11 DEF Shifts, n
  <2> QED BY <2>12
<1> QED BY <1>10, <1>11

(***************************************************************************)
(* The texts of expressions.                                               *)
(***************************************************************************)

\* The texts of the operands an expression has got so far, and of the variable it
\* initialises.
OperandsIn(v) == {v[k].operand : k \in 1..Len(v)}
ValTexts(v)   == TextsOf(OperandsIn(v))
DeclTexts   == IF top.kind = "decl" THEN TextsOf({top.decl.slot}) ELSE {}
ActiveTexts == IF mode = "expr" THEN ValTexts(vals) \cup DeclTexts ELSE {}

\* The invariant.
DominanceInv ==
    /\ mode # "expr" => vals = <<>>
    /\ mode = "params" => top.kind \in BlockKinds
    /\ Dominated(code, frames, scopes, ActiveTexts)

LEMMA TextsFacts ==
    /\ \A A, B : TextsOf(A \cup B) = TextsOf(A) \cup TextsOf(B)
    /\ \A A, B : A \subseteq B => TextsOf(A) \subseteq TextsOf(B)
    /\ \A A : \A text \in TextsOf(A) : \E o \in A : o.kind \in {"temp", "slot"} /\ text = o.text
    /\ \A A : \A o \in A : TextsOf({o}) \subseteq TextsOf(A)
    /\ \A o : o.kind \in {"temp", "slot"} => TextsOf({o}) = {o.text}
    /\ \A o : o.kind \notin {"temp", "slot"} => TextsOf({o}) = {}
    /\ TextsOf({}) = {}
BY DEF TextsOf

LEMMA NoValTexts == ValTexts(<<>>) = {}
<1>1. OperandsIn(<<>>) = {}
  BY EmptyList DEF OperandsIn
<1> QED BY <1>1, TextsFacts DEF ValTexts

LEMMA ValTextsFacts ==
    ASSUME NEW S, NEW v \in Seq(S)
    PROVE  /\ \A e \in S : ValTexts(Append(v, e)) = ValTexts(v) \cup TextsOf({e.operand})
           /\ \A n \in 0..Len(v) : ValTexts(SubSeq(v, 1, n)) \subseteq ValTexts(v)
           /\ \A k \in 1..Len(v) : TextsOf({v[k].operand}) \subseteq ValTexts(v)
<1>2. Len(v) \in Nat
  OBVIOUS
<1>3. ASSUME NEW e \in S
      PROVE  ValTexts(Append(v, e)) = ValTexts(v) \cup TextsOf({e.operand})
  <2> DEFINE w == Append(v, e)
  <2>1. /\ Len(w) = Len(v) + 1 /\ w[Len(v) + 1] = e
        /\ \A k \in 1..Len(v) : w[k] = v[k]
    OBVIOUS
  <2>2. 1..(Len(v) + 1) = 1..Len(v) \cup {Len(v) + 1}
    BY <1>2
  <2> HIDE DEF w
  <2>3. OperandsIn(w) = OperandsIn(v) \cup {e.operand}
    BY <2>1, <2>2 DEF OperandsIn
  <2>4. TextsOf(OperandsIn(w)) = TextsOf(OperandsIn(v)) \cup TextsOf({e.operand})
    BY <2>3, TextsFacts
  <2> QED BY <2>4 DEF w, ValTexts
<1>4. ASSUME NEW n \in 0..Len(v)
      PROVE  ValTexts(SubSeq(v, 1, n)) \subseteq ValTexts(v)
  <2> DEFINE w == SubSeq(v, 1, n)
  <2>1. Len(w) = n /\ \A k \in 1..n : k \in 1..Len(v) /\ w[k] = v[k]
    BY <1>2
  <2> HIDE DEF w
  <2>2. OperandsIn(w) \subseteq OperandsIn(v)
    BY <2>1 DEF OperandsIn
  <2>3. TextsOf(OperandsIn(w)) \subseteq TextsOf(OperandsIn(v))
    BY <2>2, TextsFacts
  <2> QED BY <2>3 DEF w, ValTexts
<1>5. ASSUME NEW k \in 1..Len(v) PROVE TextsOf({v[k].operand}) \subseteq ValTexts(v)
  <2>1. v[k].operand \in OperandsIn(v)
    BY DEF OperandsIn
  <2>2. TextsOf({v[k].operand}) \subseteq TextsOf(OperandsIn(v))
    BY <2>1, TextsFacts
  <2> QED BY <2>2 DEF ValTexts
<1> QED BY <1>3, <1>4, <1>5

\* The texts an operation uses.
LEMMA OperationUses ==
    /\ \A op, dst, a : UsedBy(Op(op, dst, <<a>>)) = TextsOf({a})
    /\ \A f, dst, argv : UsedBy(Call(f, dst, argv)) = TextsOf({argv[k] : k \in DOMAIN argv})
<1>1. ASSUME NEW op, NEW dst, NEW a PROVE UsedBy(Op(op, dst, <<a>>)) = TextsOf({a})
  <2>1. {<<a>>[k] : k \in DOMAIN <<a>>} = {a}
    OBVIOUS
  <2>2. Op(op, dst, <<a>>).kind = "op" /\ Op(op, dst, <<a>>).operands = <<a>>
    BY DEF Op
  <2> QED BY <2>1, <2>2 DEF UsedBy
<1>2. ASSUME NEW f, NEW dst, NEW argv
      PROVE  UsedBy(Call(f, dst, argv)) = TextsOf({argv[k] : k \in DOMAIN argv})
  <2>1. Call(f, dst, argv).kind = "op" /\ Call(f, dst, argv).operands = argv
    BY DEF Call
  <2> QED BY <2>1 DEF UsedBy
<1> QED BY <1>1, <1>2

LEMMA PairUses ==
    ASSUME NEW op, NEW dst, NEW a, NEW b, NEW U, TextsOf({a}) \subseteq U, TextsOf({b}) \subseteq U
    PROVE  UsedBy(Op(op, dst, <<a, b>>)) \subseteq U
<1>1. UsedBy(Op(op, dst, <<a, b>>)) = TextsOf({a}) \cup TextsOf({b})
  <2>1. {<<a, b>>[k] : k \in DOMAIN <<a, b>>} = {a} \cup {b}
    OBVIOUS
  <2>2. Op(op, dst, <<a, b>>).kind = "op" /\ Op(op, dst, <<a, b>>).operands = <<a, b>>
    BY DEF Op
  <2>3. TextsOf({a} \cup {b}) = TextsOf({a}) \cup TextsOf({b})
    BY TextsFacts
  <2>4. UsedBy(Op(op, dst, <<a, b>>)) = TextsOf({a} \cup {b})
    BY <2>1, <2>2 DEF UsedBy
  <2> QED BY <2>3, <2>4
<1> QED BY <1>1

LEMMA TempTexts ==
    ASSUME NEW n \in Nat
    PROVE  TextsOf({Temp(n)}) = {Temp(n).text} /\ TextsOf({StackSlot(n)}) = {StackSlot(n).text}
<1>1. Temp(n).kind = "temp" /\ StackSlot(n).kind = "slot"
  BY OperandFacts
<1> QED BY <1>1, TextsFacts

LEMMA UnusedTexts ==
    /\ \A t : TextsOf({Immediate(t)}) = {}
    /\ TextsOf({NoOperand}) = {}
    /\ \A t : TextsOf({Param(t)}) = {}
<1>1. \A t : Immediate(t).kind = "imm" /\ Param(t).kind = "param"
  BY DEF Immediate, Param, Operand
<1>2. NoOperand.kind = "none"
  BY DEF NoOperand, Operand
<1> QED BY <1>1, <1>2, TextsFacts

\* A variable that an identifier resolves to is in scope.
LEMMA ResolvedInScope ==
    ASSUME TypeInv, NEW x \in Names, ResolveVariable(x) # Undeclared
    PROVE  TextsOf({ResolveVariable(x).slot}) \subseteq VariableTexts(scopes)
<1>1. DOMAIN scopes = 1..Len(scopes) /\ Len(scopes) \in Nat
  BY DEF TypeInv
<1>2. DeclaredIn(x) # {} /\ ResolveVariable(x) = scopes[Max(DeclaredIn(x))][x]
  BY DEF ResolveVariable
<1>3. Max(DeclaredIn(x)) \in DeclaredIn(x)
  <2>1. DeclaredIn(x) \in SUBSET (0..Len(scopes))
    BY <1>1 DEF DeclaredIn
  <2>2. PICK m \in DeclaredIn(x) : \A k \in DeclaredIn(x) : k <= m
    BY <1>1, <1>2, <2>1, GreatestNatural
  <2>3. \A k \in DeclaredIn(x) : m >= k
    BY <1>1, <2>1, <2>2
  <2> QED BY <2>3 DEF Max
<1>4. Max(DeclaredIn(x)) \in 1..Len(scopes)
  BY <1>1, <1>3 DEF DeclaredIn
<1>5. PICK i \in 1..Len(scopes) : ResolveVariable(x) = scopes[i][x]
  BY <1>2, <1>4
<1>6. TextsOf({scopes[i][x].slot}) \subseteq TextsIn(scopes[i])
  BY TextsFacts DEF TextsIn
<1> QED BY <1>5, <1>6 DEF VariableTexts

(***************************************************************************)
(* The steps of an expression.                                             *)
(***************************************************************************)

LEMMA EmptyDominated == Dominated(<<>>, <<>>, <<>>, {})
<1> DEFINE none == {}
           empty == <<>>
           home == [i \in 1..0 |-> 0]
<1>1. IsList(empty) /\ Len(empty) = 0 /\ DOMAIN empty = {}
  BY EmptyList
<1>2. \A i \in 1..0 : FALSE
  OBVIOUS
<1>3. home \in [1..0 -> 1..0]
  BY <1>2
<1> HIDE DEF empty, home
<1>4. Homes(home, Len(empty), empty)
  BY <1>1, <1>2, <1>3 DEF Homes
<1>5. \A l : l \notin none
  OBVIOUS
<1> HIDE DEF none
<1>6. ASSUME NEW text PROVE Held(text, none, home, empty, empty, empty, none)
  <2>1. Region(empty, text, none, none, AllHeads(empty))
    BY <1>1, <1>2, <1>5 DEF Region
  <2> QED BY <1>1, <1>2, <1>5, <2>1 DEF Held, none
<1>7. Dominated(empty, empty, empty, none)
  BY <1>1, <1>4, <1>6 DEF Dominated
<1> QED BY <1>7 DEF empty, none

LEMMA RejectDominates ==
    ASSUME NEW d, Reject(d)
    PROVE  DominanceInv'
<1>1. code' = <<>> /\ frames' = <<>> /\ scopes' = <<>> /\ vals' = <<>> /\ mode' = "rejected"
  BY DEF Reject
<1>2. ActiveTexts' = {}
  BY <1>1 DEF ActiveTexts
<1> QED BY <1>1, <1>2, EmptyDominated DEF DominanceInv

\* An operation is emitted.
LEMMA OperationDominates ==
    ASSUME DominanceInv, mode = "expr", UNCHANGED unchangedByExpressions,
           NEW i, i.kind = "op", code' = code \o <<i>>,
           UsedBy(i) \subseteq ActiveTexts \cup VariableTexts(scopes),
           ValTexts(vals') \subseteq ActiveTexts \cup VariableTexts(scopes) \cup {i.dst.text}
    PROVE  DominanceInv'
<1>1. /\ Dominated(code, frames, scopes, ActiveTexts)
      /\ frames' = frames /\ scopes' = scopes /\ mode' = mode
  BY DEF DominanceInv, unchangedByExpressions
<1>2. ActiveTexts' = ValTexts(vals') \cup DeclTexts
  BY <1>1 DEF ActiveTexts, DeclTexts, top
<1>3. DeclTexts \subseteq ActiveTexts
  BY DEF ActiveTexts
<1> DEFINE next == ActiveTexts'
<1>4. next \subseteq ActiveTexts \cup VariableTexts(scopes) \cup {i.dst.text}
  BY <1>2, <1>3
<1> HIDE DEF next
<1>5. Dominated(code \o <<i>>, frames, scopes, next)
  BY <1>1, <1>4, OperationDominated
<1> QED BY <1>1, <1>5 DEF DominanceInv, next

\* Nothing is emitted.
LEMMA NothingDominates ==
    ASSUME DominanceInv, mode = "expr", UNCHANGED unchangedByExpressions, code' = code,
           ValTexts(vals') \subseteq ActiveTexts \cup VariableTexts(scopes)
    PROVE  DominanceInv'
<1>1. /\ Dominated(code, frames, scopes, ActiveTexts)
      /\ frames' = frames /\ scopes' = scopes /\ mode' = mode
  BY DEF DominanceInv, unchangedByExpressions
<1>2. ActiveTexts' = ValTexts(vals') \cup DeclTexts
  BY <1>1 DEF ActiveTexts, DeclTexts, top
<1>3. DeclTexts \subseteq ActiveTexts
  BY DEF ActiveTexts
<1> DEFINE next == ActiveTexts'
<1>4. next \subseteq ActiveTexts \cup VariableTexts(scopes)
  BY <1>2, <1>3
<1> HIDE DEF next
<1>5. Dominated(code, frames, scopes, next)
  BY <1>1, <1>4, ActiveDominated
<1> QED BY <1>1, <1>5 DEF DominanceInv, next

\* What an expression may use.
Usable == ActiveTexts \cup VariableTexts(scopes)

\* The texts of the operands on top, and of those left when they are replaced.
LEMMA StackTexts ==
    ASSUME TypeInv, mode = "expr"
    PROVE  /\ \A n \in 1..Len(vals) : TextsOf({Top(n).operand}) \subseteq Usable
           /\ \A e : ValTexts(Append(vals, e)) \subseteq Usable \cup TextsOf({e.operand})
           /\ \A e : \A n \in 1..Len(vals) :
                 ValTexts(Append(Below(n), e)) \subseteq Usable \cup TextsOf({e.operand})
           /\ \A e : \A n \in 1..Len(vals) :
                 ValTexts(Append(SubSeq(vals, 1, n - 1), e)) \subseteq Usable \cup TextsOf({e.operand})
<1>1. vals \in Seq(GoodEntries) /\ Len(vals) \in Nat
  BY DEF TypeInv
<1>2. ValTexts(vals) \subseteq Usable
  BY DEF ActiveTexts, Usable
<1>3. ASSUME NEW n \in 1..Len(vals) PROVE TextsOf({Top(n).operand}) \subseteq Usable
  <2>1. Len(vals) - n + 1 \in 1..Len(vals)
    BY <1>1
  <2>2. TextsOf({vals[Len(vals) - n + 1].operand}) \subseteq ValTexts(vals)
    BY <1>1, <2>1, ValTextsFacts
  <2> QED BY <1>2, <2>2 DEF Top
<1>4. ASSUME NEW e PROVE ValTexts(Append(vals, e)) \subseteq Usable \cup TextsOf({e.operand})
  <2> DEFINE S == GoodEntries \cup {e}
  <2>1. vals \in Seq(S) /\ e \in S
    BY <1>1
  <2> HIDE DEF S
  <2>2. ValTexts(Append(vals, e)) = ValTexts(vals) \cup TextsOf({e.operand})
    BY <2>1, ValTextsFacts
  <2> QED BY <1>2, <2>2
<1>5. ASSUME NEW e, NEW m \in 0..Len(vals)
      PROVE  ValTexts(Append(SubSeq(vals, 1, m), e)) \subseteq Usable \cup TextsOf({e.operand})
  <2> DEFINE S == GoodEntries \cup {e}
             w == SubSeq(vals, 1, m)
  <2>1. e \in S /\ vals \in Seq(S)
    BY <1>1
  <2> HIDE DEF S
  <2>2. w \in Seq(S)
    BY <1>1, <2>1
  <2>3. ValTexts(w) \subseteq ValTexts(vals)
    BY <1>1, ValTextsFacts
  <2> HIDE DEF w
  <2>4. ValTexts(Append(w, e)) = ValTexts(w) \cup TextsOf({e.operand})
    BY <2>1, <2>2, ValTextsFacts
  <2> QED BY <1>2, <2>3, <2>4 DEF w
<1>6. ASSUME NEW e, NEW n \in 1..Len(vals)
      PROVE  ValTexts(Append(Below(n), e)) \subseteq Usable \cup TextsOf({e.operand})
  <2>1. Len(vals) - n \in 0..Len(vals)
    BY <1>1
  <2> QED BY <1>5, <2>1 DEF Below
<1>7. ASSUME NEW e, NEW n \in 1..Len(vals)
      PROVE  ValTexts(Append(SubSeq(vals, 1, n - 1), e)) \subseteq Usable \cup TextsOf({e.operand})
  <2>1. n - 1 \in 0..Len(vals)
    BY <1>1
  <2> QED BY <1>5, <2>1
<1> QED BY <1>3, <1>4, <1>6, <1>7

LEMMA ValueTexts ==
    /\ \A o, t : Value(o, t).operand = o /\ Address(o, t).operand = o
    /\ \A f : PendingCall(f).operand = NoOperand
BY DEF Value, Address, PendingCall

\* One operation, and a result in its name or in what may be used.
LEMMA OneOperation ==
    ASSUME DominanceInv, mode = "expr", UNCHANGED unchangedByExpressions,
           NEW op, NEW dst, NEW operands, code' = code \o <<Op(op, dst, operands)>>,
           UsedBy(Op(op, dst, operands)) \subseteq Usable,
           ValTexts(vals') \subseteq Usable \cup {dst.text}
    PROVE  DominanceInv'
<1> DEFINE i == Op(op, dst, operands)
<1>1. i.kind = "op" /\ i.dst = dst
  BY DEF Op
<1> HIDE DEF i
<1>2. code' = code \o <<i>> /\ UsedBy(i) \subseteq Usable
  BY DEF i
<1> QED BY <1>1, <1>2, OperationDominates DEF Usable

LEMMA ComputeDominates ==
    ASSUME TypeInv, DominanceInv, mode = "expr", UNCHANGED unchangedByExpressions,
           NEW n \in 1..Len(vals), NEW op, NEW operands, NEW t, Compute(n, op, operands, t),
           UsedBy(Op(op, Temp(nextTempID), operands)) \subseteq Usable
    PROVE  DominanceInv'
<1> DEFINE dst == Temp(nextTempID)
           e   == Value(dst, t)
<1>1. nextTempID \in Nat /\ e.operand = dst
  BY ValueTexts DEF TypeInv
<1>2. TextsOf({dst}) = {dst.text}
  BY <1>1, TempTexts
<1>3. code' = code \o <<Op(op, dst, operands)>> /\ vals' = Append(Below(n), e)
  BY DEF Compute, Emit
<1> HIDE DEF e
<1>4. ValTexts(vals') \subseteq Usable \cup TextsOf({e.operand})
  BY <1>3, StackTexts
<1> QED BY <1>1, <1>2, <1>3, <1>4, OneOperation

LEMMA ThreeAppended ==
    ASSUME NEW c, IsList(c), NEW x, NEW y, NEW z
    PROVE  ((c \o <<x>>) \o <<y>>) \o <<z>> = c \o <<x, y, z>>
<1>1. <<x>> \o <<y>> = <<x, y>>
  BY Joined
<1>2. <<x, y>> \o <<z>> = <<x, y, z>>
  <2> DEFINE s == <<x, y>>
             t == <<z>>
             u == <<x, y, z>>
             S == {x, y, z}
  <2>1. s \in Seq(S) /\ t \in Seq(S) /\ u \in Seq(S)
    OBVIOUS
  <2>2. /\ Len(s) = 2 /\ Len(t) = 1 /\ Len(u) = 3
        /\ s[1] = x /\ s[2] = y /\ t[1] = z
        /\ u[1] = x /\ u[2] = y /\ u[3] = z
    OBVIOUS
  <2> HIDE DEF s, t, u, S
  <2>c. s \o t \in Seq(S) /\ Len(s \o t) = Len(s) + Len(t)
    BY <2>1, ConcatProperties
  <2>3. s \o t \in Seq(S) /\ Len(s \o t) = 3
    BY <2>2, <2>c
  <2>a. 1 \in 1..Len(s) /\ 2 \in 1..Len(s) /\ 1 \in 1..Len(t) /\ Len(s) + 1 = 3
    BY <2>2
  <2>b. /\ \A i \in 1..Len(s) : (s \o t)[i] = s[i]
        /\ \A i \in 1..Len(t) : (s \o t)[Len(s) + i] = t[i]
    BY <2>1, ConcatProperties
  <2>4. (s \o t)[1] = x /\ (s \o t)[2] = y /\ (s \o t)[3] = z
    BY <2>2, <2>a, <2>b
  <2>5. \A i \in 1..3 : i = 1 \/ i = 2 \/ i = 3
    OBVIOUS
  <2>6. s \o t = u
    BY <2>1, <2>2, <2>3, <2>4, <2>5, SeqEqual
  <2> QED BY <2>6 DEF s, t, u
<1>3. (c \o <<x>>) \o <<y>> = c \o (<<x>> \o <<y>>)
  BY ConcatFacts, ShortLists
<1>4. (c \o <<x, y>>) \o <<z>> = c \o (<<x, y>> \o <<z>>)
  BY ConcatFacts, ShortLists
<1> QED BY <1>1, <1>2, <1>3, <1>4

LEMMA ExpressionsDominated ==
    ASSUME TypeInv, FramesNest, DominanceInv, ExpressionStep
    PROVE  DominanceInv'
<1>0. nextTempID \in Nat /\ nextTempID + 1 \in Nat /\ nextTempID + 2 \in Nat
  BY DEF TypeInv
<1>a. ASSUME MayAddOperand PROVE mode = "expr"
  BY <1>a DEF MayAddOperand, OperandNeeded, OperandFits
<1>1. ASSUME NEW c \in Literals, Literal(c) PROVE DominanceInv'
  <2> DEFINE dst == Temp(nextTempID)
             e   == Value(dst, I32)
             n   == Immediate(<<"n", c>>)
             op  == "const"
  <2>1. /\ mode = "expr" /\ UNCHANGED unchangedByExpressions
        /\ code' = code \o <<Op(op, dst, <<n>>)>> /\ vals' = Append(vals, e)
    BY <1>1 DEF Literal, Push, Emit, OperandNeeded, MayAddOperand, OperandFits
  <2>2. TextsOf({n}) = {}
    BY UnusedTexts
  <2>3. e.operand = dst /\ TextsOf({dst}) = {dst.text}
    BY <1>0, ValueTexts, TempTexts
  <2> HIDE DEF dst, e, n, op
  <2>4. ValTexts(vals') \subseteq Usable \cup TextsOf({e.operand})
    BY <2>1, StackTexts
  <2>5. UsedBy(Op(op, dst, <<n>>)) \subseteq Usable
    BY <2>2, OperationUses
  <2> QED BY <2>1, <2>3, <2>4, <2>5, OneOperation
<1>2. ASSUME NEW x \in Names, Identifier(x) PROVE DominanceInv'
  <2> DEFINE dst == Temp(nextTempID)
             sym == ResolveVariable(x)
             e   == Value(dst, sym.type)
             v   == sym.slot
             op  == "load"
  <2>1. /\ mode = "expr" /\ UNCHANGED unchangedByExpressions /\ sym # Undeclared
        /\ code' = code \o <<Op(op, dst, <<v>>)>> /\ vals' = Append(vals, e)
    BY <1>a, <1>2 DEF Identifier, Push, Emit
  <2>2. TextsOf({v}) \subseteq Usable
    BY <2>1, ResolvedInScope DEF Usable
  <2>3. e.operand = dst /\ TextsOf({dst}) = {dst.text}
    BY <1>0, ValueTexts, TempTexts
  <2> HIDE DEF dst, e, sym, v, op
  <2>5. UsedBy(Op(op, dst, <<v>>)) \subseteq Usable
    BY <2>2, OperationUses
  <2>4. ValTexts(vals') \subseteq Usable \cup TextsOf({e.operand})
    BY <2>1, StackTexts
  <2> QED BY <2>1, <2>3, <2>4, <2>5, OneOperation
<1>b. ASSUME mode = "expr", UNCHANGED unchangedByExpressions, code' = code,
             ValTexts(vals') \subseteq Usable
      PROVE  DominanceInv'
  BY <1>b, NothingDominates DEF Usable
<1>3. ASSUME NEW x \in Names, AddressOfIdentifier(x) PROVE DominanceInv'
  <2> DEFINE sym == ResolveVariable(x)
             e   == Address(sym.slot, sym.type)
  <2>1. /\ mode = "expr" /\ UNCHANGED unchangedByExpressions /\ sym # Undeclared
        /\ code' = code /\ vals' = Append(vals, e)
    BY <1>a, <1>3 DEF AddressOfIdentifier, Push
  <2>2. e.operand = sym.slot
    BY ValueTexts
  <2>3. TextsOf({sym.slot}) \subseteq Usable
    BY <2>1, ResolvedInScope DEF Usable
  <2> HIDE DEF e, sym
  <2>4. ValTexts(vals') \subseteq Usable \cup TextsOf({e.operand})
    BY <2>1, StackTexts
  <2> QED BY <1>b, <2>1, <2>2, <2>3, <2>4
<1>4. CASE Dereference
  <2> DEFINE op == IF Top(1).operand.kind = "slot" THEN "load" ELSE "loadInd"
             v  == Top(1).operand
             t  == PointeeType(Top(1).type)
  <2>1. /\ mode = "expr" /\ UNCHANGED unchangedByExpressions /\ 1 \in 1..Len(vals)
        /\ Compute(1, op, <<v>>, t)
    BY <1>4, ValsTyped DEF Dereference
  <2>2. TextsOf({v}) \subseteq Usable
    BY <2>1, StackTexts
  <2> HIDE DEF op, v, t
  <2>3. UsedBy(Op(op, Temp(nextTempID), <<v>>)) \subseteq Usable
    BY <2>2, OperationUses
  <2> QED BY <2>1, <2>3, ComputeDominates
<1>c. ASSUME NEW e, mode = "expr", UNCHANGED unchangedByExpressions, code' = code,
             1 \in 1..Len(vals), vals' = Append(Below(1), e), e.operand = Top(1).operand
      PROVE  DominanceInv'
  <2>1. ValTexts(vals') \subseteq Usable \cup TextsOf({e.operand})
    BY <1>c, StackTexts
  <2>2. TextsOf({Top(1).operand}) \subseteq Usable
    BY <1>c, StackTexts
  <2> QED BY <1>b, <1>c, <2>1, <2>2
<1>5. CASE AddressOfDereference
  BY <1>5, <1>c, ValsTyped, ValueTexts DEF AddressOfDereference
<1>6. CASE AddressOf
  BY <1>6, <1>c, ValsTyped, ValueTexts DEF AddressOf
<1>7. ASSUME NEW op \in UnaryOps, Unary(op) PROVE DominanceInv'
  <2>1. mode = "expr" /\ UNCHANGED unchangedByExpressions /\ 1 \in 1..Len(vals)
    BY <1>7, ValsTyped DEF Unary
  <2>2. CASE op = "plus"
    <3>1. code' = code /\ vals' = vals
      BY <1>7, <2>2 DEF Unary
    <3>2. ValTexts(vals') \subseteq Usable
      BY <2>1, <3>1 DEF Usable, ActiveTexts
    <3> QED BY <1>b, <2>1, <3>1, <3>2
  <2>3. CASE op # "plus"
    <3> DEFINE v == Top(1).operand
    <3>1. Compute(1, op, <<v>>, I32)
      BY <1>7, <2>3 DEF Unary
    <3>2. TextsOf({v}) \subseteq Usable
      BY <2>1, StackTexts
    <3> HIDE DEF v
    <3>3. UsedBy(Op(op, Temp(nextTempID), <<v>>)) \subseteq Usable
      BY <3>2, OperationUses
    <3> QED BY <2>1, <3>1, <3>3, ComputeDominates
  <2> QED BY <2>2, <2>3
<1>d. ASSUME TwoValues
      PROVE  /\ mode = "expr" /\ 1 \in 1..Len(vals) /\ 2 \in 1..Len(vals)
             /\ TextsOf({Top(1).operand}) \subseteq Usable
             /\ TextsOf({Top(2).operand}) \subseteq Usable
  <2>1. mode = "expr" /\ 1 \in 1..Len(vals) /\ 2 \in 1..Len(vals)
    BY <1>d, ValsTyped DEF TwoValues
  <2> QED BY <2>1, StackTexts
<1>8. ASSUME NEW op \in BinaryOps, Binary(op) PROVE DominanceInv'
  <2> DEFINE t == IF op \in CompareOpcodes THEN I32 ELSE Top(2).type
             v == Top(2).operand
             w == Top(1).operand
  <2>1. TwoValues /\ UNCHANGED unchangedByExpressions /\ Compute(2, op, <<v, w>>, t)
    BY <1>8 DEF Binary
  <2>2. TextsOf({v}) \subseteq Usable /\ TextsOf({w}) \subseteq Usable
    BY <1>d, <2>1
  <2> HIDE DEF t, v, w
  <2>3. UsedBy(Op(op, Temp(nextTempID), <<v, w>>)) \subseteq Usable
    BY <2>2, PairUses
  <2> QED BY <1>d, <2>1, <2>3, ComputeDominates
<1>10. CASE Assign
  <2> DEFINE op == IF Top(2).operand.kind = "slot" THEN "store" ELSE "storeInd"
             v  == Top(2).operand
             w  == Top(1).operand
             e  == Top(1)
  <2>1. /\ mode = "expr" /\ 1 \in 1..Len(vals) /\ 2 \in 1..Len(vals)
        /\ UNCHANGED unchangedByExpressions
        /\ code' = code \o <<Op(op, NoOperand, <<v, w>>)>> /\ vals' = Append(Below(2), e)
    BY <1>10, ValsTyped DEF Assign, Emit
  <2>2. TextsOf({v}) \subseteq Usable /\ TextsOf({w}) \subseteq Usable
    BY <2>1, StackTexts
  <2>3. e.operand = w
    OBVIOUS
  <2> HIDE DEF op, v, w, e
  <2>4. UsedBy(Op(op, NoOperand, <<v, w>>)) \subseteq Usable
    BY <2>2, PairUses
  <2>5. ValTexts(vals') \subseteq Usable \cup TextsOf({e.operand})
    BY <2>1, StackTexts
  <2>6. ValTexts(vals') \subseteq Usable \cup {NoOperand.text}
    BY <2>2, <2>3, <2>5
  <2> QED BY <2>1, <2>4, <2>6, OneOperation
<1>11. ASSUME NEW f \in Functions, StartCall(f) PROVE DominanceInv'
  <2> DEFINE e == PendingCall(f)
  <2>1. /\ mode = "expr" /\ UNCHANGED unchangedByExpressions
        /\ code' = code /\ vals' = Append(vals, e)
    BY <1>a, <1>11 DEF StartCall, Push
  <2>2. TextsOf({e.operand}) = {}
    BY ValueTexts, UnusedTexts
  <2> HIDE DEF e
  <2>3. ValTexts(vals') \subseteq Usable \cup TextsOf({e.operand})
    BY <2>1, StackTexts
  <2> QED BY <1>b, <2>1, <2>2, <2>3
<1>14. CASE \/ \E c \in Literals : BadLiteral(c)
            \/ \E x \in Names : UndeclaredIdentifier(x)
            \/ BadTarget \/ BadDereference \/ BadUnary \/ BadBinary \/ BadAssign
            \/ BadCall \/ BadArguments
  BY <1>14, RejectDominates DEF BadLiteral, UndeclaredIdentifier, BadTarget, BadDereference,
               BadUnary, BadBinary, BadAssign, BadCall, BadArguments
<1>12. CASE FinishCall
  <2> DEFINE f    == vals[innermost].callee
             ret  == Signatures[f].ret
             dst  == IF ret = Void THEN NoOperand ELSE Temp(nextTempID)
             argv == [i \in DOMAIN Arguments |-> Arguments[i].operand]
             base == SubSeq(vals, 1, innermost - 1)
             e    == Value(dst, ret)
             i    == Call(f, dst, argv)
  <2>1. /\ mode = "expr" /\ UNCHANGED unchangedByExpressions
        /\ ArgumentsDone /\ ArgumentsMatch
        /\ code' = code \o <<i>> /\ vals' = Append(base, e)
    BY <1>12 DEF FinishCall, Emit, ArgumentsDone
  <2>2. innermost \in 1..Len(vals)
    BY <2>1, InnermostCall
  <2>3. i.kind = "op" /\ i.dst = dst
    BY DEF Call
  <2>4. UsedBy(i) = TextsOf({argv[k] : k \in DOMAIN argv})
    BY OperationUses
  <2>5. \A k \in DOMAIN argv : argv[k] \in OperandsIn(vals)
    <3> SUFFICES ASSUME NEW k \in DOMAIN argv PROVE argv[k] \in OperandsIn(vals)
      OBVIOUS
    <3>1. vals \in Seq(GoodEntries) /\ Len(vals) \in Nat
      BY DEF TypeInv
    <3>2. k \in DOMAIN Arguments /\ argv[k] = Arguments[k].operand
      OBVIOUS
    <3>3. innermost + k \in 1..Len(vals) /\ Arguments[k] = vals[innermost + k]
      BY <2>2, <3>1, <3>2 DEF Arguments
    <3> QED BY <3>2, <3>3 DEF OperandsIn
  <2>6. UsedBy(i) \subseteq Usable
    <3>1. {argv[k] : k \in DOMAIN argv} \subseteq OperandsIn(vals)
      BY <2>5
    <3>2. UsedBy(i) \subseteq ValTexts(vals)
      BY <2>4, <3>1, TextsFacts DEF ValTexts
    <3> QED BY <2>1, <3>2 DEF Usable, ActiveTexts
  <2>7. e.operand = dst /\ TextsOf({dst}) \subseteq {dst.text}
    <3>1. e.operand = dst
      BY ValueTexts
    <3>2. dst = NoOperand \/ dst = Temp(nextTempID)
      OBVIOUS
    <3> HIDE DEF dst
    <3>3. TextsOf({dst}) \subseteq {dst.text}
      BY <1>0, <3>2, UnusedTexts, TempTexts
    <3> QED BY <3>1, <3>3
  <2> HIDE DEF f, ret, dst, argv, e, i
  <2>8. ValTexts(vals') \subseteq Usable \cup TextsOf({e.operand})
    BY <2>1, <2>2, StackTexts
  <2>9. ValTexts(vals') \subseteq Usable \cup {i.dst.text}
    BY <2>3, <2>7, <2>8
  <2> QED BY <2>1, <2>3, <2>6, <2>9, OperationDominates DEF Usable
<1>9. ASSUME NEW op \in LogicalOps, Logical(op) PROVE DominanceInv'
  <2> DEFINE zero == Immediate(<<"n", 0>>)
             lhs  == Temp(nextTempID)
             rhs  == Temp(nextTempID + 1)
             res  == Temp(nextTempID + 2)
             v    == Top(2).operand
             w    == Top(1).operand
             ne   == "ne"
             a    == Op(ne, lhs, <<v, zero>>)
             b    == Op(ne, rhs, <<w, zero>>)
             c    == Op(op, res, <<lhs, rhs>>)
             e    == Value(res, I32)
  <2>1. /\ TwoValues /\ UNCHANGED unchangedByExpressions
        /\ code' = code \o <<a, b, c>> /\ vals' = Append(Below(2), e)
    BY <1>9 DEF Logical, Emit
  <2>2. /\ a.kind = "op" /\ b.kind = "op" /\ c.kind = "op"
        /\ a.dst = lhs /\ b.dst = rhs /\ c.dst = res
    BY DEF Op
  <2>4. TextsOf({v}) \subseteq Usable /\ TextsOf({w}) \subseteq Usable
    BY <1>d, <2>1
  <2>5. TextsOf({zero}) = {} /\ e.operand = res
    BY UnusedTexts, ValueTexts
  <2>6. TextsOf({lhs}) = {lhs.text} /\ TextsOf({rhs}) = {rhs.text} /\ TextsOf({res}) = {res.text}
    BY <1>0, TempTexts
  <2> HIDE DEF zero, lhs, rhs, res, v, w, e, ne
  <2>a. TextsOf({zero}) \subseteq Usable
    BY <2>5
  <2>b. UsedBy(a) \subseteq Usable
    BY <2>4, <2>a, PairUses
  <2>c. UsedBy(b) \subseteq Usable
    BY <2>4, <2>a, PairUses
  <2> DEFINE U == {lhs.text, rhs.text}
  <2>d. TextsOf({lhs}) \subseteq U /\ TextsOf({rhs}) \subseteq U
    BY <2>6
  <2> HIDE DEF U
  <2>e. UsedBy(c) \subseteq U
    BY <2>d, PairUses
  <2> HIDE DEF a, b, c
  <2>7. ValTexts(vals') \subseteq Usable \cup {res.text}
    BY <1>d, <2>1, <2>5, <2>6, StackTexts
  <2> DEFINE A1 == ActiveTexts \cup {lhs.text}
             A2 == A1 \cup {rhs.text}
             A3 == ActiveTexts'
  <2>8. /\ Dominated(code, frames, scopes, ActiveTexts)
        /\ frames' = frames /\ scopes' = scopes /\ mode' = mode /\ mode = "expr"
    BY <1>d, <2>1 DEF DominanceInv, unchangedByExpressions
  <2>9. A3 \subseteq A2 \cup VariableTexts(scopes) \cup {res.text}
    <3>1. A3 = ValTexts(vals') \cup DeclTexts /\ DeclTexts \subseteq ActiveTexts
      BY <2>8 DEF ActiveTexts, DeclTexts, top
    <3> QED BY <2>7, <3>1 DEF Usable
  <2>10. /\ UsedBy(a) \subseteq ActiveTexts \cup VariableTexts(scopes)
         /\ UsedBy(b) \subseteq A1 \cup VariableTexts(scopes)
         /\ UsedBy(c) \subseteq A2 \cup VariableTexts(scopes)
    BY <2>b, <2>c, <2>e DEF Usable, U
  <2>11. /\ A1 \subseteq ActiveTexts \cup VariableTexts(scopes) \cup {a.dst.text}
         /\ A2 \subseteq A1 \cup VariableTexts(scopes) \cup {b.dst.text}
         /\ A3 \subseteq A2 \cup VariableTexts(scopes) \cup {c.dst.text}
    BY <2>2, <2>9
  <2> HIDE DEF A1, A2, A3
  <2>12. Dominated(code \o <<a>>, frames, scopes, A1)
    BY <2>2, <2>8, <2>10, <2>11, OperationDominated
  <2>13. Dominated((code \o <<a>>) \o <<b>>, frames, scopes, A2)
    BY <2>2, <2>10, <2>11, <2>12, OperationDominated
  <2>14. Dominated(((code \o <<a>>) \o <<b>>) \o <<c>>, frames, scopes, A3)
    BY <2>2, <2>10, <2>11, <2>13, OperationDominated
  <2>15. ((code \o <<a>>) \o <<b>>) \o <<c>> = code \o <<a, b, c>>
    <3>1. IsList(code)
      BY DEF TypeInv, IsList
    <3> QED BY <3>1, ThreeAppended
  <2> QED BY <2>1, <2>8, <2>14, <2>15 DEF DominanceInv, A3
<1> QED BY <1>1, <1>2, <1>3, <1>4, <1>5, <1>6, <1>7, <1>8, <1>9, <1>10, <1>11, <1>12, <1>14
       DEF ExpressionStep

(***************************************************************************)
(* The steps of statements.                                                *)
(***************************************************************************)

\* The labels a step takes from the counter.
NewLabels == {l \in Nat : New(l)}

LEMMA EmissionIs ==
    ASSUME TypeInv, FramesNest, LabelInv, mode \in Working,
           NEW a, NEW t, Lists(a, {}, t), Uses(a) \subseteq Usable,
           NEW b, NEW d, NEW u, Lists(b, d, u), Uses(b) = {},
           d \subseteq OpenLabels(top) \cup NewLabels,
           t \cup u \subseteq OpenLabels(top) \cup HeadOf(top) \cup NewLabels
    PROVE  Emission(code, frames, scopes, ActiveTexts, a, b, NewLabels)
<1>1. /\ nextLabelID \in Nat /\ TopOf(frames) = top
      /\ LabelsOf(code, nextLabelID, frames, {})
  BY DEF TypeInv, LabelInv, TopOf, top
<1>2. \A l \in Defined(code) : l \in Nat /\ l < nextLabelID
  BY <1>1 DEF LabelsOf
<1>3. \A l \in NewLabels : l \notin Defined(code)
  BY <1>1, <1>2 DEF NewLabels, New
<1>4. \A l \in AllTargets(code) : l < nextLabelID
  <2> SUFFICES ASSUME NEW l \in AllTargets(code), l \notin Defined(code) PROVE l < nextLabelID
    BY <1>2
  <2>1. l \in AllAwaited(frames)
    BY <1>1 DEF LabelsOf
  <2>2. PICK i \in 1..Len(frames) : l \in AwaitedLabels(frames[i])
    BY <2>1 DEF AllAwaited
  <2>3. l \in OpenLabels(frames[i])
    <3>1. EndAwaited(frames[i]) => frames[i].kind \in EndKinds
      BY DEF EndAwaited, EndKinds
    <3> QED BY <2>2, <3>1 DEF AwaitedLabels, OpenLabels
  <2>4. FrameLabels(frames[i], Defined(code), nextLabelID)
    BY <1>1 DEF LabelsOf
  <2> QED BY <2>3, <2>4 DEF FrameLabels
<1>5. \A l \in NewLabels : l \notin AllTargets(code)
  BY <1>1, <1>4 DEF NewLabels, New
<1>6. \A l \in OpenLabels(top) : l \notin Defined(code)
  BY LabelsOfTop
<1>7. AllHeads(frames) \subseteq Defined(code)
  <2> SUFFICES ASSUME NEW l \in AllHeads(frames) PROVE l \in Defined(code)
    OBVIOUS
  <2>1. PICK i \in 1..Len(frames) : l \in HeadOf(frames[i])
    BY DEF AllHeads
  <2>2. FrameLabels(frames[i], Defined(code), nextLabelID)
    BY <1>1 DEF LabelsOf
  <2> QED BY <2>1, <2>2 DEF FrameLabels, HeadOf
<1>8. /\ Defined(b) = d /\ AllTargets(a) = t /\ AllTargets(b) = u
      /\ \E w : Lists(a, {}, w)
      /\ \E e, w : Lists(b, e, w)
  BY DEF Lists
<1>9. Uses(a) \subseteq ActiveTexts \cup VariableTexts(scopes)
  BY DEF Usable
<1> QED BY <1>1, <1>3, <1>5, <1>6, <1>7, <1>8, <1>9 DEF Emission

\* What a step does to the frames and the scopes.
Moved ==
    \/ frames' = frames /\ scopes' = scopes
    \/ \E f : PushesFrame(frames, scopes, frames', scopes', f, NewLabels)
    \/ scopes' = scopes /\ \E f : ReplacesFrame(frames, frames', f, NewLabels)
    \/ PopsFrame(frames, scopes, frames', scopes')

LEMMA MovedDominates ==
    ASSUME FramesNest, mode \in Working, Dominated(code, frames, scopes, ActiveTexts),
           NEW a, NEW b, Emission(code, frames, scopes, ActiveTexts, a, b, NewLabels), Moved,
           ActiveTexts' \subseteq VariableTexts(scopes')
    PROVE  Dominated(code \o (a \o b), frames', scopes', ActiveTexts')
<1>1. PICK home : /\ Homes(home, Len(scopes), frames)
                  /\ \A text : \E R : Held(text, R, home, code, frames, scopes, ActiveTexts)
  BY DEF Dominated
<1>2. IsList(code) /\ IsList(frames) /\ IsList(scopes) /\ Len(frames) >= 1
  BY DEF Dominated, FramesNest
<1> DEFINE gs == frames'
           rc == scopes'
           next == ActiveTexts'
           fresh == NewLabels
<1> HIDE DEF gs, rc, next, fresh
<1>3. \E then : Shifts(frames, scopes, home, gs, rc, then, fresh)
  <2>1. CASE gs = frames /\ rc = scopes
    BY <1>1, <1>2, <2>1, StayShifts
  <2>2. CASE \E f : PushesFrame(frames, scopes, gs, rc, f, fresh)
    BY <1>1, <1>2, <2>2, PushShifts
  <2>3. CASE rc = scopes /\ \E f : ReplacesFrame(frames, gs, f, fresh)
    BY <1>1, <1>2, <2>3, ReplaceShifts
  <2>4. CASE PopsFrame(frames, scopes, gs, rc)
    BY <1>1, <1>2, <2>4, PopShifts
  <2> QED BY <2>1, <2>2, <2>3, <2>4 DEF Moved, gs, rc, fresh
<1>4. PICK then : Shifts(frames, scopes, home, gs, rc, then, fresh)
  BY <1>3
<1>5. Emission(code, frames, scopes, ActiveTexts, a, b, fresh) /\ next \subseteq VariableTexts(rc)
  BY DEF fresh, next, rc
<1>6. Dominated(code \o (a \o b), gs, rc, next)
  BY <1>1, <1>2, <1>4, <1>5, ShiftDominated
<1> QED BY <1>6 DEF gs, rc, next

\* A step that leaves no values, on a frame that declares nothing.
LEMMA StepDominates ==
    ASSUME TypeInv, FramesNest, DominanceInv, mode \in Working,
           NEW a, NEW b, Emission(code, frames, scopes, ActiveTexts, a, b, NewLabels),
           code' = code \o (a \o b), Moved,
           vals' = <<>>, mode' # "params", mode' = "expr" => top'.kind # "decl"
    PROVE  DominanceInv'
<1>1. ActiveTexts' = {}
  <2>1. ValTexts(<<>>) = {}
    BY NoValTexts
  <2>2. mode' = "expr" => DeclTexts' = {}
    BY DEF DeclTexts
  <2> QED BY <2>1, <2>2 DEF ActiveTexts
<1>2. ActiveTexts' \subseteq VariableTexts(scopes')
  BY <1>1
<1>3. Dominated(code \o (a \o b), frames', scopes', ActiveTexts')
  BY <1>2, MovedDominates DEF DominanceInv
<1> QED BY <1>3 DEF DominanceInv

\* The same where all that is emitted is control.
LEMMA ControlDominates ==
    ASSUME TypeInv, FramesNest, LabelInv, DominanceInv, mode \in Working,
           NEW s, NEW d, NEW u, Lists(s, d, u), Uses(s) = {}, code' = code \o s, Moved,
           d \subseteq OpenLabels(top) \cup NewLabels,
           u \subseteq OpenLabels(top) \cup HeadOf(top) \cup NewLabels,
           vals' = <<>>, mode' # "params", mode' = "expr" => top'.kind # "decl"
    PROVE  DominanceInv'
<1> DEFINE a == <<>>
           none == {}
<1>1. Lists(a, none, none) /\ Uses(a) = none /\ \A l : l \notin none
  <2>1. Lists(a, none, none)
    BY ShortListsLabels
  <2>2. Len(a) = 0
    BY EmptyList
  <2> QED BY <2>1, <2>2 DEF Uses
<1>2. a \o s = s
  BY Joined DEF Lists
<1> HIDE DEF a
<1>3. Lists(a, {}, none) /\ Uses(a) \subseteq Usable
  BY <1>1
<1> HIDE DEF none
<1>4. none \cup u \subseteq OpenLabels(top) \cup HeadOf(top) \cup NewLabels
  BY <1>1
<1>5. Emission(code, frames, scopes, ActiveTexts, a, s, NewLabels)
  BY <1>3, <1>4, EmissionIs
<1>6. code' = code \o (a \o s)
  BY <1>2
<1> QED BY <1>5, <1>6, StepDominates

\* The lists that use no names.
LEMMA ControlUses ==
    ASSUME NEW r, NEW l, NEW m
    PROVE  /\ Uses(<<>>) = {} /\ Uses(<<Label(m)>>) = {}
           /\ Uses(<<Jmp(l), Label(m)>>) = {}
           /\ Uses(JmpIf(r, l)) = {} /\ Uses(JmpIf(r, l) \o <<Label(m)>>) = {}
           /\ Uses(<<Ret(NoOperand)>>) = {}
           /\ \A s, t : IsList(s) /\ IsList(t) /\ Uses(s) = {} /\ Uses(t) = {} =>
                 Uses(s \o t) = {}
<1> DEFINE a == Label(m)
           j == Jmp(l)
           n == Ret(NoOperand)
<1>1. UsedBy(a) = {} /\ UsedBy(j) = {}
  BY DEF UsedBy, Label, Jmp
<1>2. UsedBy(n) = {}
  <2>1. n.kind = "ret" /\ n.value = NoOperand
    BY DEF Ret
  <2> HIDE DEF n
  <2>2. UsedBy(n) = TextsOf({n.value})
    BY <2>1 DEF UsedBy
  <2> QED BY <2>1, <2>2, UnusedTexts
<1> HIDE DEF a, j, n
<1>3. Uses(<<>>) = {}
  BY EmptyList DEF Uses
<1>4. ASSUME NEW i, UsedBy(i) = {} PROVE Uses(<<i>>) = {}
  <2>1. \A k \in 1..Len(<<i>>) : <<i>>[k] = i
    OBVIOUS
  <2> QED BY <1>4, <2>1 DEF Uses
<1>5. ASSUME NEW s, NEW t, IsList(s), IsList(t), Uses(s) = {}, Uses(t) = {}
      PROVE  Uses(s \o t) = {}
  BY <1>5, ConcatFacts
<1>6. Uses(<<a>>) = {} /\ Uses(<<j>>) = {} /\ Uses(<<n>>) = {}
  BY <1>1, <1>2, <1>4
<1>7. Uses(<<j>> \o <<a>>) = {}
  BY <1>5, <1>6, ShortLists
<1>8. Uses(<<j, a>>) = {}
  BY <1>7, Joined
<1>9. Uses(JmpIf(r, l)) = {} /\ IsList(JmpIf(r, l))
  <2>1. JmpIf(r, l) = <<j>> \/ JmpIf(r, l) = <<>>
    BY DEF JmpIf, j
  <2> QED BY <1>3, <1>6, <2>1, ShortLists, EmptyList
<1>10. Uses(JmpIf(r, l) \o <<a>>) = {}
  BY <1>5, <1>6, <1>9, ShortLists
<1> QED BY <1>3, <1>5, <1>6, <1>8, <1>9, <1>10 DEF a, j, n

\* The frame that comes on top.
LEMMA TopAfter ==
    ASSUME FramesNest, mode \in Working, NEW f
    PROVE  /\ frames' = Append(frames, f) => top' = f
           /\ frames' = ReplaceTop(f) => top' = f
<1>1. IsList(frames) /\ IsList(Pop)
  BY StackOfTop
<1>2. /\ Append(frames, f)[Len(Append(frames, f))] = f
      /\ Append(Pop, f)[Len(Append(Pop, f))] = f
  <2>1. Len(Append(frames, f)) = Len(frames) + 1 /\ Append(frames, f)[Len(frames) + 1] = f
    BY <1>1, ListAppend
  <2>2. Len(Append(Pop, f)) = Len(Pop) + 1 /\ Append(Pop, f)[Len(Pop) + 1] = f
    BY <1>1, ListAppend
  <2> QED BY <2>1, <2>2
<1> QED BY <1>2 DEF top, ReplaceTop

\* A new scope has no variables.
LEMMA NoNamesTexts == TextsIn(NoNames) = {}
<1>1. \A x \in Names : NoNames[x].slot = NoOperand
  BY DEF NoNames, Undeclared, Symbol
<1>2. {NoNames[x].slot : x \in Names} \subseteq {NoOperand}
  BY <1>1
<1>3. TextsOf({NoNames[x].slot : x \in Names}) \subseteq TextsOf({NoOperand})
  BY <1>2, TextsFacts
<1> QED BY <1>3, UnusedTexts DEF TextsIn

\* Frames are pushed and popped with their scopes.
LEMMA ScopeChanges ==
    ASSUME TypeInv, FramesNest, mode \in Working
    PROVE  /\ \A f : /\ frames' = Append(frames, f)
                     /\ OpenLabels(f) \cup HeadOf(f) \subseteq NewLabels
                     /\ \/ scopes' = scopes /\ f.kind \notin ScopeKinds
                        \/ PushScope /\ f.kind \in ScopeKinds
                     => Moved
           /\ \A f : /\ frames' = ReplaceTop(f) /\ scopes' = scopes
                     /\ OpenLabels(f) \subseteq OpenLabels(top) \cup NewLabels
                     /\ HeadOf(f) \subseteq HeadOf(top) \cup NewLabels
                     /\ f.kind \in ScopeKinds <=> top.kind \in ScopeKinds
                     => Moved
           /\ /\ frames' = Pop
              /\ \/ scopes' = scopes /\ top.kind \notin ScopeKinds
                 \/ PopScope /\ top.kind \in ScopeKinds
              => Moved
<1>1. IsList(scopes) /\ Len(scopes) \in Nat
  BY ListLength DEF FramesNest
<1>2. TextsIn(NoNames) = {}
  BY NoNamesTexts
<1>3. ASSUME NEW f, frames' = Append(frames, f), OpenLabels(f) \cup HeadOf(f) \subseteq NewLabels,
             \/ scopes' = scopes /\ f.kind \notin ScopeKinds
             \/ PushScope /\ f.kind \in ScopeKinds
      PROVE  Moved
  <2> DEFINE rc == Append(scopes, NoNames)
  <2>1. /\ IsList(rc) /\ Len(rc) = Len(scopes) + 1 /\ rc[Len(scopes) + 1] = NoNames
        /\ \A i \in 1..Len(scopes) : rc[i] = scopes[i]
    BY <1>1, ListAppend
  <2>2. PushScope => scopes' = rc
    BY DEF PushScope
  <2> HIDE DEF rc
  <2>3. PushesFrame(frames, scopes, frames', scopes', f, NewLabels)
    BY <1>1, <1>2, <1>3, <2>1, <2>2 DEF PushesFrame
  <2> QED BY <2>3 DEF Moved
<1>4. ASSUME NEW f, frames' = ReplaceTop(f), scopes' = scopes,
             OpenLabels(f) \subseteq OpenLabels(top) \cup NewLabels,
             HeadOf(f) \subseteq HeadOf(top) \cup NewLabels,
             f.kind \in ScopeKinds <=> top.kind \in ScopeKinds
      PROVE  Moved
  <2>1. ReplacesFrame(frames, frames', f, NewLabels)
    BY <1>4 DEF ReplacesFrame, ReplaceTop, Pop, Rest, TopOf, top
  <2> QED BY <1>4, <2>1 DEF Moved
<1>5. ASSUME frames' = Pop,
             \/ scopes' = scopes /\ top.kind \notin ScopeKinds
             \/ PopScope /\ top.kind \in ScopeKinds
      PROVE  Moved
  <2>1. PopsFrame(frames, scopes, frames', scopes')
    BY <1>5 DEF PopsFrame, Pop, PopScope, Rest, TopOf, top
  <2> QED BY <2>1 DEF Moved
<1> QED BY <1>3, <1>4, <1>5

\* The texts of a scope, one by one.
LEMMA TextInScope ==
    ASSUME NEW scope, NEW text
    PROVE  text \in TextsIn(scope) <=>
              \E y \in Names : scope[y].slot.kind \in {"temp", "slot"} /\ text = scope[y].slot.text
BY DEF TextsIn, TextsOf

LEMMA AllocaFacts ==
    ASSUME TypeInv, NEW t
    PROVE  LET sym == NewVariable(t)
           IN  /\ Alloca(sym).kind = "op" /\ Alloca(sym).dst = sym.slot
               /\ UsedBy(Alloca(sym)) = {}
               /\ sym.slot.kind = "slot" /\ sym.slot.text = <<"s", nextTempID + 1>>
               /\ TextsOf({sym.slot}) = {sym.slot.text}
<1> DEFINE sym == NewVariable(t)
           op  == "alloca"
           v   == Immediate(<<"type", sym.type>>)
<1>1. Alloca(sym) = Op(op, sym.slot, <<v>>)
  BY DEF Alloca
<1>2. sym.slot = StackSlot(nextTempID + 1)
  BY DEF NewVariable, Symbol
<1>3. sym.slot.kind = "slot" /\ sym.slot.text = <<"s", nextTempID + 1>>
  BY <1>2 DEF StackSlot, Operand
<1>4. TextsOf({v}) = {}
  BY UnusedTexts
<1> HIDE DEF sym, op, v
<1>5. UsedBy(Op(op, sym.slot, <<v>>)) = {}
  BY <1>4, OperationUses
<1>6. Op(op, sym.slot, <<v>>).kind = "op" /\ Op(op, sym.slot, <<v>>).dst = sym.slot
  BY DEF Op
<1>7. TextsOf({sym.slot}) = {sym.slot.text}
  BY <1>3, TextsFacts
<1> QED BY <1>1, <1>3, <1>5, <1>6, <1>7 DEF sym

\* The number of a new variable has not been used.
LEMMA NewTextUndefined ==
    ASSUME NamesBelowCounter
    PROVE  DefinitionsOf(code, <<"s", nextTempID + 1>>) = {}
<1> SUFFICES ASSUME NEW i \in DOMAIN code, code[i].kind = "op",
                    code[i].dst.text = <<"s", nextTempID + 1>>
             PROVE  FALSE
  BY DEF DefinitionsOf
<1>1. Numbered(code[i].dst, 0, nextTempID) /\ nextTempID \in Nat
  BY ListLength DEF NamesBelowCounter, Fresh
<1>2. NoOperand.text # <<"s", nextTempID + 1>>
  BY DEF NoOperand, Operand
<1>3. ASSUME NEW n \in Nat, n < nextTempID
      PROVE  Temp(n).text # <<"s", nextTempID + 1>> /\ StackSlot(n).text # <<"s", nextTempID + 1>>
  <2>1. Temp(n).text = <<"t", n>> /\ StackSlot(n).text = <<"s", n>>
    BY DEF Temp, StackSlot, Operand
  <2>2. n # nextTempID + 1
    BY <1>1, <1>3
  <2> QED BY <2>1, <2>2
<1> QED BY <1>1, <1>2, <1>3 DEF Numbered

\* A declared variable is in scope behind its alloca.
LEMMA DeclarationDominates ==
    ASSUME TypeInv, FramesNest, NamesBelowCounter, DominanceInv, mode \in Working \ {"expr"},
           top.kind \in BlockKinds \cup {"forInit"},
           NEW x \in Names, NEW t, DeclarationError(x, t) = NoDiagnostic,
           DeclareLocal(x, NewVariable(t)),
           NEW next, next \subseteq VariableTexts(scopes')
    PROVE  /\ Dominated(code \o <<Alloca(NewVariable(t))>>, frames, scopes', next)
           /\ NewVariable(t).slot.text \in VariableTexts(scopes')
<1> DEFINE sym  == NewVariable(t)
           text == sym.slot.text
           i    == Alloca(sym)
           n    == Len(scopes)
           rc   == [scopes EXCEPT ![n][x] = sym]
<1>1. /\ i.kind = "op" /\ i.dst = sym.slot /\ UsedBy(i) = {}
      /\ sym.slot.kind = "slot" /\ text = <<"s", nextTempID + 1>>
  BY AllocaFacts
<1>2. scopes' = rc
  BY DEF DeclareLocal
<1>3. /\ scopes \in Seq([Names -> GoodSymbols]) /\ n \in Nat /\ n >= 1
      /\ DOMAIN scopes = 1..n /\ n \in 1..n
  BY ScopeMoves, SeqFacts DEF TypeInv
<1>4. scopes[n][x] = Undeclared
  BY DEF DeclarationError, NoDiagnostic
<1>5. scopes[n] \in [Names -> GoodSymbols]
  BY <1>3
<1> HIDE DEF sym, i
<1> DEFINE s == [scopes[n] EXCEPT ![x] = sym]
<1>6. /\ DOMAIN rc = 1..n /\ rc[n] = s /\ \A k \in 1..n : k # n => rc[k] = scopes[k]
  BY <1>3
<1>7. s[x] = sym /\ \A y \in Names : y # x => s[y] = scopes[n][y]
  BY <1>5
<1>8. IsList(rc) /\ Len(rc) = n
  BY <1>2, ScopeMoves
<1> HIDE DEF s, rc
<1>9. Undeclared.slot.kind \notin {"temp", "slot"}
  BY DEF Undeclared, Symbol, NoOperand, Operand
<1>10. TextsIn(s) = TextsIn(scopes[n]) \cup {text}
  <2>1. ASSUME NEW u PROVE u \in TextsIn(s) <=> u \in TextsIn(scopes[n]) \cup {text}
    <3>1. u \in TextsIn(s) <=>
            \E y \in Names : s[y].slot.kind \in {"temp", "slot"} /\ u = s[y].slot.text
      BY TextInScope
    <3>2. u \in TextsIn(scopes[n]) <=>
            \E y \in Names : scopes[n][y].slot.kind \in {"temp", "slot"} /\ u = scopes[n][y].slot.text
      BY TextInScope
    <3>3. u = text => u \in TextsIn(s)
      BY <1>1, <1>7, <3>1
    <3>4. u \in TextsIn(scopes[n]) => u \in TextsIn(s)
      BY <1>4, <1>7, <1>9, <3>1, <3>2
    <3>5. u \in TextsIn(s) => u \in TextsIn(scopes[n]) \/ u = text
      BY <1>7, <3>1, <3>2
    <3> QED BY <3>3, <3>4, <3>5
  <2> QED BY <2>1
<1>11. Dominated(code, frames, scopes, ActiveTexts) /\ IsList(code)
  BY DEF DominanceInv, Dominated
<1>12. text \notin VariableTexts(scopes)
  <2> SUFFICES ASSUME text \in VariableTexts(scopes) PROVE FALSE
    OBVIOUS
  <2>1. PICK home : \A u : \E R : Held(u, R, home, code, frames, scopes, ActiveTexts)
    BY <1>11 DEF Dominated
  <2>2. PICK R : Held(text, R, home, code, frames, scopes, ActiveTexts)
    BY <2>1
  <2>3. DefinitionsOf(code, text) # {}
    BY <1>11, <2>2, HeldDefined
  <2> QED BY <1>1, <2>3, NewTextUndefined
<1> DEFINE active == {text}
           c      == code \o <<i>>
<1>13. Dominated(c, frames, scopes, active)
  <2>1. UsedBy(i) \subseteq ActiveTexts \cup VariableTexts(scopes)
    BY <1>1
  <2>2. active \subseteq ActiveTexts \cup VariableTexts(scopes) \cup {i.dst.text}
    BY <1>1
  <2> HIDE DEF active
  <2> QED BY <1>1, <1>11, <2>1, <2>2, OperationDominated
<1>14. Len(frames) >= 1 /\ TopOf(frames) = top
  BY DEF FramesNest, TopOf, top
<1>15. TopOf(frames).kind \in ScopeKinds /\ OpenLabels(TopOf(frames)) = {}
  <2>1. top.kind \in ScopeKinds /\ top.kind \notin EndKinds
    BY DEF ScopeKinds, ForKinds, BlockKinds, EndKinds
  <2>2. top \in GoodFrames
    BY FramesTyped
  <2> QED BY <1>14, <2>1, <2>2, OpenByKind
<1>16. TextsIn(rc[n]) = TextsIn(scopes[n]) \cup {text}
  BY <1>6, <1>10
<1>17. text \in VariableTexts(rc)
  BY <1>3, <1>8, <1>16 DEF VariableTexts
<1>18. text \in active /\ next \subseteq active \cup VariableTexts(rc)
  BY <1>2
<1> HIDE DEF active, c, text, n
<1>19. Len(rc) = Len(scopes) /\ \A k \in 1..Len(scopes) : k # Len(scopes) => rc[k] = scopes[k]
  BY <1>6, <1>8 DEF n
<1>20. TextsIn(rc[Len(scopes)]) = TextsIn(scopes[Len(scopes)]) \cup {text}
  BY <1>16 DEF n
<1>21. Dominated(c, frames, rc, next)
  BY <1>8, <1>12, <1>13, <1>14, <1>15, <1>18, <1>19, <1>20, DeclarationDominated
<1> QED BY <1>2, <1>17, <1>21 DEF c, i, text, sym

LEMMA HeadsDefined ==
    ASSUME LabelInv
    PROVE  AllHeads(frames) \subseteq Defined(code)
<1> SUFFICES ASSUME NEW l \in AllHeads(frames) PROVE l \in Defined(code)
  OBVIOUS
<1>1. PICK i \in 1..Len(frames) : l \in HeadOf(frames[i])
  BY DEF AllHeads
<1>2. FrameLabels(frames[i], Defined(code), nextLabelID)
  BY DEF LabelInv, LabelsOf
<1> QED BY <1>1, <1>2 DEF FrameLabels, HeadOf

\* A frame without labels is pushed on one without.
LEMMA PlainPushDominates ==
    ASSUME FramesNest, LabelInv, mode \in Working,
           NEW c, NEW sc, NEW active, Dominated(c, frames, sc, active),
           Defined(code) \subseteq Defined(c), OpenLabels(top) = {},
           NEW f, OpenLabels(f) = {}, f.kind \notin HeadKinds \cup ScopeKinds,
           NEW next, next \subseteq VariableTexts(sc)
    PROVE  Dominated(c, Append(frames, f), sc, next)
<1> DEFINE gs == Append(frames, f)
           e  == <<>>
           none == {}
<1>1. PICK home : /\ Homes(home, Len(sc), frames)
                  /\ \A text : \E R : Held(text, R, home, c, frames, sc, active)
  BY DEF Dominated
<1>2. IsList(c) /\ IsList(frames) /\ IsList(sc) /\ Len(frames) >= 1
  BY DEF Dominated, FramesNest
<1>3. HeadOf(f) = none
  BY DEF HeadOf
<1>4. PushesFrame(frames, sc, gs, sc, f, none)
  BY <1>2, <1>3 DEF PushesFrame
<1>5. /\ Lists(e, none, none) /\ Uses(e) = none
      /\ c \o (e \o e) = c
  <2>1. IsList(e) /\ Len(e) = 0
    BY EmptyList
  <2>2. e \o e = e /\ c \o e = c
    BY <1>2, <2>1, Joined
  <2> QED BY <2>1, <2>2, ShortListsLabels DEF Uses
<1>6. \A l \in none : FALSE
  OBVIOUS
<1>7. Defined(e) = none /\ AllTargets(e) = none
  BY <1>5 DEF Lists
<1> HIDE DEF gs, e
<1>8. Emission(c, frames, sc, active, e, e, none)
  <2>1. OpenLabels(TopOf(frames)) = none
    BY DEF TopOf, top
  <2>2. AllHeads(frames) \subseteq Defined(c)
    BY HeadsDefined
  <2>3. (\E t : Lists(e, {}, t)) /\ \E d, t : Lists(e, d, t)
    BY <1>5
  <2>4. Uses(e) \subseteq active \cup VariableTexts(sc) /\ Uses(e) = {}
    BY <1>5
  <2> HIDE DEF none
  <2>5. /\ Defined(e) \subseteq OpenLabels(TopOf(frames)) \cup none
        /\ AllTargets(e) \cup AllTargets(e)
             \subseteq OpenLabels(TopOf(frames)) \cup HeadOf(TopOf(frames)) \cup none
    BY <1>7
  <2> QED BY <1>6, <2>1, <2>2, <2>3, <2>4, <2>5 DEF Emission
<1> HIDE DEF none
<1>9. PICK then : Shifts(frames, sc, home, gs, sc, then, none)
  BY <1>1, <1>2, <1>4, PushShifts
<1>10. Dominated(c \o (e \o e), gs, sc, next)
  BY <1>1, <1>2, <1>8, <1>9, ShiftDominated
<1> QED BY <1>5, <1>10 DEF gs

\* A parameter and a declaration.
LEMMA VariablesDominated ==
    ASSUME TypeInv, FramesNest, LabelInv, NamesBelowCounter, DominanceInv,
           SubstatementDecls = FALSE,
           \/ LowerParameter
           \/ \E x \in Names, t \in DeclTypes, i \in BOOLEAN : DeclarationStatement(x, t, i)
    PROVE  DominanceInv'
<1>0. IsList(code)
  BY DEF TypeInv, IsList
<1>1. CASE LowerParameter
  <2> DEFINE p   == Head(params)
             x   == p.name
             t   == LowerType(p.type)
             sym == NewVariable(t)
             a   == Alloca(sym)
             v   == Param(x)
             b   == Store(sym.slot, v)
             none == {}
  <2>1. CASE DeclarationError(x, t) # NoDiagnostic
    <3>1. Reject(DeclarationError(x, t))
      BY <1>1, <2>1 DEF LowerParameter, NewVariable, Symbol
    <3> QED BY <3>1, RejectDominates
  <2>2. CASE DeclarationError(x, t) = NoDiagnostic
    <3>1. /\ mode = "params" /\ params # <<>> /\ DeclareLocal(x, sym)
          /\ code' = code \o <<a, b>> /\ frames' = frames /\ vals' = vals /\ mode' = mode
      BY <1>1, <2>2 DEF LowerParameter, Emit, NewVariable, Symbol
    <3>2. x \in Names
      <4>1. p \in Parameters
        BY <3>1 DEF TypeInv
      <4> QED BY <4>1 DEF Parameters
    <3>3. mode \in Working \ {"expr"} /\ top.kind \in BlockKinds \cup {"forInit"}
      BY <3>1 DEF Working, DominanceInv
    <3>4. /\ sym.slot.text \in VariableTexts(scopes')
          /\ Dominated(code \o <<a>>, frames, scopes', none)
      <4>1. none \subseteq VariableTexts(scopes')
        OBVIOUS
      <4> HIDE DEF none, x, t
      <4> QED BY <2>2, <3>1, <3>2, <3>3, <4>1, DeclarationDominates
    <3>5. TextsOf({sym.slot}) = {sym.slot.text}
      BY AllocaFacts
    <3>6. UsedBy(b) \subseteq VariableTexts(scopes') /\ b.kind = "op"
      <4> DEFINE op == "store"
                 U  == VariableTexts(scopes')
                 w  == sym.slot
      <4>1. b = Op(op, NoOperand, <<w, v>>)
        BY DEF Store
      <4>2. TextsOf({v}) = {}
        BY UnusedTexts
      <4>3. TextsOf({w}) \subseteq U
        BY <3>4, <3>5
      <4> HIDE DEF op, U, w, v, b
      <4>4. TextsOf({v}) \subseteq U
        BY <4>2
      <4>5. UsedBy(Op(op, NoOperand, <<w, v>>)) \subseteq U
        BY <4>3, <4>4, PairUses
      <4>6. Op(op, NoOperand, <<w, v>>).kind = "op"
        BY DEF Op
      <4> QED BY <4>1, <4>5, <4>6 DEF U
    <3> HIDE DEF a, b, none
    <3> DEFINE c == code \o <<a>>
               rc == scopes'
    <3>7. c \o <<b>> = code \o <<a, b>>
      <4>1. c \o <<b>> = code \o (<<a>> \o <<b>>)
        BY <1>0, ConcatFacts, ShortLists
      <4> QED BY <4>1, Joined
    <3>8. Dominated(c, frames, rc, none) /\ UsedBy(b) \subseteq none \cup VariableTexts(rc)
      BY <3>4, <3>6
    <3> HIDE DEF c, rc
    <3>9. none \subseteq none \cup VariableTexts(rc) \cup {b.dst.text}
      OBVIOUS
    <3>10. Dominated(c \o <<b>>, frames, rc, none)
      BY <3>6, <3>8, <3>9, OperationDominated
    <3>11. ActiveTexts' = none /\ mode # "expr"
      BY <3>1 DEF ActiveTexts, none
    <3>12. top' = top
      BY <3>1 DEF top
    <3> QED BY <3>1, <3>7, <3>10, <3>11, <3>12 DEF DominanceInv, rc
  <2> QED BY <2>1, <2>2
<1>2. ASSUME NEW x \in Names, NEW u \in DeclTypes, NEW init \in BOOLEAN,
             DeclarationStatement(x, u, init)
      PROVE  DominanceInv'
  <2> DEFINE t   == LowerType(u)
             sym == NewVariable(t)
             a   == Alloca(sym)
             f   == [Frame("decl") EXCEPT !.decl = sym]
  <2>1. /\ StartSimpleStatement /\ DeclarationAllowed
        /\ DeclarationError(x, t) = NoDiagnostic /\ DeclareLocal(x, sym)
        /\ code' = code \o <<a>> /\ vals' = vals
        /\ \/ mode' = "after" /\ frames' = frames
           \/ mode' = "expr" /\ frames' = Append(frames, f)
    BY <1>2 DEF DeclarationStatement, Emit, NewVariable, Symbol, StatementDone,
                unchangedByStatements
  <2>2. mode \in Working \ {"expr"} /\ mode # "params"
    BY <2>1, StartFacts
  <2>3. top.kind \in BlockKinds \cup {"forInit"}
    <3>1. InBlock \/ top.kind = "forInit"
      BY <2>1 DEF DeclarationAllowed
    <3> QED BY <3>1 DEF InBlock
  <2> DEFINE rc == scopes'
             c  == code \o <<a>>
             all == VariableTexts(rc)
             none == {}
  <2>4. Dominated(c, frames, rc, all) /\ sym.slot.text \in all
    <3>1. all \subseteq VariableTexts(scopes')
      OBVIOUS
    <3> HIDE DEF all, t
    <3>2. Dominated(c, frames, scopes', all) /\ sym.slot.text \in VariableTexts(scopes')
      BY <2>1, <2>2, <2>3, <3>1, DeclarationDominates
    <3> QED BY <3>2 DEF all
  <2>5. TextsOf({sym.slot}) \subseteq all
    BY <2>4, AllocaFacts
  <2>6. vals' = <<>>
    BY <2>1, <2>2 DEF DominanceInv
  <2>7. CASE mode' = "after" /\ frames' = frames
    <3>1. none \subseteq all \cup VariableTexts(rc)
      OBVIOUS
    <3>2. ActiveTexts' = none
      BY <2>7 DEF ActiveTexts
    <3> HIDE DEF all, none, c, rc
    <3>3. Dominated(c, frames, rc, none)
      BY <2>4, <3>1, ActiveDominated
    <3> QED BY <2>1, <2>6, <2>7, <3>2, <3>3 DEF DominanceInv, c, rc
  <2>8. CASE mode' = "expr" /\ frames' = Append(frames, f)
    <3>1. f.decl = sym /\ f.kind = "decl"
      BY DEF Frame
    <3> HIDE DEF f, sym
    <3>2. top' = f
      BY <2>2, <2>8, TopAfter
    <3>3. ActiveTexts' \subseteq all
      <4>1. ActiveTexts' = ValTexts(<<>>) \cup TextsOf({sym.slot})
        BY <2>6, <2>8, <3>1, <3>2 DEF ActiveTexts, DeclTexts
      <4> QED BY <2>5, <4>1, NoValTexts
    <3>4. OpenLabels(top) = {}
      <4>1. top.kind \notin EndKinds /\ top \in GoodFrames
        BY <2>2, <2>3, FramesTyped DEF BlockKinds, EndKinds
      <4> QED BY <4>1, OpenByKind
    <3>5. OpenLabels(f) = {} /\ f.kind \notin HeadKinds \cup ScopeKinds
      BY <3>1 DEF OpenLabels, EndKinds, AltKinds, BodyKinds, HeadKinds, ScopeKinds, BlockKinds,
                  ForKinds
    <3>6. Defined(code) \subseteq Defined(c)
      <4>1. IsList(<<a>>)
        BY ShortLists
      <4>2. /\ \A k \in 1..Len(code) : k \in 1..Len(c) /\ c[k] = code[k]
            /\ DOMAIN code = 1..Len(code) /\ DOMAIN c = 1..Len(c)
        BY <1>0, <4>1, Positions, ListLength
      <4> HIDE DEF c
      <4> QED BY <4>2 DEF Defined
    <3> DEFINE next == ActiveTexts'
    <3>7. next \subseteq VariableTexts(rc)
      BY <3>3
    <3> HIDE DEF next, c, rc, all
    <3>8. Dominated(c, Append(frames, f), rc, next)
      BY <2>2, <2>4, <3>4, <3>5, <3>6, <3>7, PlainPushDominates
    <3> QED BY <2>1, <2>6, <2>8, <3>8 DEF DominanceInv, c, rc, next
  <2> QED BY <2>1, <2>7, <2>8
<1> QED BY <1>1, <1>2

\* Nothing is emitted.
LEMMA QuietDominates ==
    ASSUME TypeInv, FramesNest, LabelInv, DominanceInv, mode \in Working, code' = code, Moved,
           vals' = <<>>, mode' # "params", mode' = "expr" => top'.kind # "decl"
    PROVE  DominanceInv'
<1> DEFINE s == <<>>
           none == {}
<1>1. Lists(s, none, none) /\ Uses(s) = none /\ code' = code \o s
  BY NothingEmitted, ControlUses
<1>2. /\ none \subseteq OpenLabels(top) \cup NewLabels
      /\ none \subseteq OpenLabels(top) \cup HeadOf(top) \cup NewLabels
  OBVIOUS
<1> HIDE DEF s
<1>3. Uses(s) = {}
  BY <1>1
<1> HIDE DEF none
<1> QED BY <1>1, <1>2, <1>3, ControlDominates

LEMMA StatementsDominated ==
    ASSUME TypeInv, FramesNest, LabelInv, NamesBelowCounter, DominanceInv,
           SubstatementDecls = FALSE, StatementStep
    PROVE  DominanceInv'
<1>0. /\ nextLabelID \in Nat /\ nextLabelID + 1 \in Nat /\ nextLabelID + 2 \in Nat
      /\ nextLabelID + 3 \in Nat /\ IsList(code)
  BY DEF TypeInv, IsList
<1>a. mode = "after" => mode \in Working
  BY DEF Working
<1>b. {"block", "expr", "return", "ifCond", "forInit"} \subseteq FrameKinds \ EndKinds
  BY DEF FrameKinds, ExprKinds, ScopeKinds, BlockKinds, ForKinds, EndKinds
<1>c. mode # "expr" => vals = <<>>
  BY DEF DominanceInv
<1>1. CASE \/ LowerParameter
           \/ \E x \in Names, t \in DeclTypes, i \in BOOLEAN : DeclarationStatement(x, t, i)
  BY <1>1, VariablesDominated
<1>2. CASE ParametersDone
  <2>1. /\ mode \in Working /\ code' = code /\ frames' = frames /\ scopes' = scopes
        /\ mode' = "after" /\ vals' = <<>>
    BY <1>2, <1>c DEF ParametersDone, Working
  <2> QED BY <2>1, QuietDominates DEF Moved
<1>3. CASE EmptyStatement
  <2>1. /\ mode \in Working /\ code' = code /\ frames' = frames /\ scopes' = scopes
        /\ mode' = "after" /\ vals' = <<>>
    BY <1>3, <1>c DEF EmptyStatement, Working, NeedStmt, StatementDone, unchangedByStatements
  <2> QED BY <2>1, QuietDominates DEF Moved
<1>4. ASSUME NEW k \in {"block", "expr", "return", "ifCond", "forInit"},
             StartStatement \/ StartSimpleStatement,
             frames' = Append(frames, Frame(k)), code' = code, vals' = vals, mode' # "params",
             \/ scopes' = scopes /\ k \notin ScopeKinds
             \/ PushScope /\ k \in ScopeKinds
      PROVE  DominanceInv'
  <2> DEFINE f == Frame(k)
  <2>1. mode \in Working /\ vals' = <<>>
    <3>1. mode \in Working /\ mode # "expr"
      BY <1>4, StartFacts
    <3> QED BY <1>4, <1>c, <3>1
  <2>2. f \in GoodFrames /\ f.kind = k
    BY <1>b, NewFrames, NewFrameFields
  <2> HIDE DEF f
  <2>3. OpenLabels(f) = {} /\ HeadOf(f) = {}
    <3>1. f.kind \notin EndKinds
      BY <1>b, <2>2
    <3> QED BY <2>2, <3>1, OpenByKind DEF HeadOf
  <2>4. OpenLabels(f) \cup HeadOf(f) \subseteq NewLabels
    BY <2>3
  <2>5. top' = f
    BY <1>4, <2>1, TopAfter DEF f
  <2>6. k # "decl"
    BY <1>4
  <2>7. Moved
    BY <1>4, <2>1, <2>2, <2>4, ScopeChanges DEF f
  <2> QED BY <1>4, <2>1, <2>2, <2>5, <2>6, <2>7, QuietDominates
<1>5. CASE StartBlock \/ ExpressionStatement \/ ReturnStatement \/ IfStatement
  <2>1. /\ "block" \in ScopeKinds /\ "expr" \notin ScopeKinds /\ "return" \notin ScopeKinds
        /\ "ifCond" \notin ScopeKinds
    BY DEF ScopeKinds, BlockKinds, ForKinds
  <2>2. CASE StartBlock
    BY <1>4, <2>1, <2>2 DEF StartBlock, StatementDone, unchangedByStatements
  <2>3. CASE ExpressionStatement
    BY <1>4, <2>1, <2>3 DEF ExpressionStatement, unchangedByStatements
  <2>4. CASE ReturnStatement
    BY <1>4, <2>1, <2>4 DEF ReturnStatement, unchangedByStatements
  <2>5. CASE IfStatement
    BY <1>4, <2>1, <2>5 DEF IfStatement, unchangedByStatements
  <2> QED BY <1>5, <2>2, <2>3, <2>4, <2>5
<1>6. ASSUME NEW hasInit \in BOOLEAN, ForStatement(hasInit) PROVE DominanceInv'
  <2>1. "forInit" \in ScopeKinds
    BY DEF ScopeKinds, ForKinds
  <2> QED BY <1>4, <1>6, <2>1 DEF ForStatement, StatementDone, unchangedByStatements
<1>7. CASE EndBlock
  <2>1. /\ mode \in Working /\ code' = code /\ frames' = Pop /\ PopScope /\ top.kind \in ScopeKinds
        /\ mode' = "after" /\ vals' = <<>>
    BY <1>7, <1>a, <1>c DEF EndBlock, ScopeKinds, BlockKinds, unchangedByStatements
  <2>2. Moved
    BY <2>1, ScopeChanges
  <2> QED BY <2>1, <2>2, QuietDominates
<1>8. CASE BadBareReturn \/ \E x \in Names, t \in DeclTypes : BadDeclaration(x, t)
  BY <1>8, RejectDominates DEF BadBareReturn, BadDeclaration
<1>9. CASE BareReturn
  <2> DEFINE s == <<Ret(NoOperand)>>
             none == {}
  <2>1. /\ StartStatement /\ code' = code \o s /\ frames' = frames /\ scopes' = scopes
        /\ mode' = "after" /\ vals' = vals
    BY <1>9 DEF BareReturn, Emit, StatementDone, unchangedByStatements
  <2>2. mode \in Working /\ vals' = <<>>
    <3>1. mode \in Working /\ mode # "expr"
      BY <2>1, StartFacts
    <3> QED BY <2>1, <1>c, <3>1
  <2>3. Lists(s, none, none) /\ Uses(s) = {}
    BY RetLists, ControlUses
  <2>4. /\ none \subseteq OpenLabels(top) \cup NewLabels
        /\ none \subseteq OpenLabels(top) \cup HeadOf(top) \cup NewLabels
    OBVIOUS
  <2>5. Moved
    BY <2>1 DEF Moved
  <2> HIDE DEF s, none
  <2> QED BY <2>1, <2>2, <2>3, <2>4, <2>5, ControlDominates
<1>10. ASSUME mode = "after"
       PROVE  mode \in Working /\ top \in GoodFrames /\ vals = <<>>
  BY <1>a, <1>c, <1>10, FramesTyped
<1>11. ASSUME NEW k \in HeadKinds, top.kind = k, mode = "after"
       PROVE  HeadOf(top) = {top.head} /\ top.head \in Nat
  BY <1>10, <1>11, OpenByKind DEF HeadOf
<1>12. CASE ThenDone
  <2> DEFINE s == JmpIf(reachable, top.end) \o <<Label(top.end)>>
             t == IF reachable THEN {top.end} ELSE {}
  <2>1. /\ mode = "after" /\ top.kind = "then" /\ code' = code \o s /\ frames' = Pop
        /\ scopes' = scopes /\ mode' = "after" /\ vals' = vals
    BY <1>12 DEF ThenDone, Emit, StatementDone, unchangedByStatements
  <2>2. Lists(s, {top.end}, t) /\ Uses(s) = {}
    BY ControlLists, ControlUses
  <2>3. OpenLabels(top) = {top.end}
    BY <1>10, <2>1, OpenByKind
  <2>4. Moved
    <3>1. top.kind \notin ScopeKinds
      BY <2>1 DEF ScopeKinds, BlockKinds, ForKinds
    <3> QED BY <1>10, <2>1, <3>1, ScopeChanges
  <2>5. t \subseteq OpenLabels(top) \cup HeadOf(top) \cup NewLabels
        /\ {top.end} \subseteq OpenLabels(top) \cup NewLabels
    BY <2>3
  <2> HIDE DEF s, t
  <2> QED BY <1>10, <2>1, <2>2, <2>4, <2>5, ControlDominates
<1>13. CASE ThenElseDone
  <2> DEFINE s == JmpIf(reachable, top.end) \o <<Label(top.alt)>>
             t == IF reachable THEN {top.end} ELSE {}
             f == [top EXCEPT !.kind = "else", !.alt = NoLabel, !.flag = reachable]
  <2>1. /\ mode = "after" /\ top.kind = "thenElse" /\ code' = code \o s /\ frames' = ReplaceTop(f)
        /\ scopes' = scopes /\ mode' = "stmt" /\ vals' = vals
    BY <1>13 DEF ThenElseDone, Emit, unchangedByStatements
  <2>2. Lists(s, {top.alt}, t) /\ Uses(s) = {}
    BY ControlLists, ControlUses
  <2>3. OpenLabels(top) = {top.alt, top.end}
    BY <1>10, <2>1, OpenByKind
  <2>4. f \in GoodFrames /\ f.kind = "else" /\ f.end = top.end
    <3>1. f \in GoodFrames
      BY <1>10, <2>1, NextFrames DEF TypeInv
    <3>2. f.kind = "else" /\ f.end = top.end
      BY <1>10, <2>1, NextFrameFields
    <3> QED BY <3>1, <3>2
  <2> HIDE DEF f
  <2>5. OpenLabels(f) = {top.end} /\ HeadOf(f) = {}
    BY <2>4, OpenByKind DEF HeadOf, HeadKinds
  <2>6. Moved
    <3>1. top.kind \notin ScopeKinds /\ f.kind \notin ScopeKinds
      BY <2>1, <2>4 DEF ScopeKinds, BlockKinds, ForKinds
    <3>2. /\ OpenLabels(f) \subseteq OpenLabels(top) \cup NewLabels
          /\ HeadOf(f) \subseteq HeadOf(top) \cup NewLabels
      BY <2>3, <2>5
    <3> QED BY <1>10, <2>1, <3>1, <3>2, ScopeChanges
  <2>7. t \subseteq OpenLabels(top) \cup HeadOf(top) \cup NewLabels
        /\ {top.alt} \subseteq OpenLabels(top) \cup NewLabels
    BY <2>3
  <2> HIDE DEF s, t
  <2> QED BY <1>10, <2>1, <2>2, <2>6, <2>7, ControlDominates
<1>14. CASE ElseDone
  <2> DEFINE e == IF top.flag \/ reachable THEN <<Label(top.end)>> ELSE <<>>
             d == IF top.flag \/ reachable THEN {top.end} ELSE {}
             t == IF reachable THEN {top.end} ELSE {}
             j == JmpIf(reachable, top.end)
  <2>1. /\ mode = "after" /\ top.kind = "else" /\ code' = code \o (j \o e) /\ frames' = Pop
        /\ scopes' = scopes /\ mode' = "after" /\ vals' = vals
    BY <1>14 DEF ElseDone, Emit, StatementDone, unchangedByStatements
  <2>2. Lists(j, {}, t) /\ Uses(j) = {}
    BY ControlLists, ControlUses
  <2>3. Lists(e, d, {}) /\ Uses(e) = {}
    BY ControlLists, ShortListsLabels, ControlUses
  <2>4. OpenLabels(top) = {top.end}
    BY <1>10, <2>1, OpenByKind
  <2>5. t \subseteq OpenLabels(top) \cup HeadOf(top) \cup NewLabels
        /\ d \subseteq OpenLabels(top) \cup NewLabels
    BY <2>4
  <2> HIDE DEF e, d, t, j
  <2>6. Lists(j \o e, d, t)
    <3>1. Lists(j \o e, {} \cup d, t \cup {})
      BY <2>2, <2>3, ListsConcat
    <3> QED BY <3>1
  <2>7. Uses(j \o e) = {}
    BY <2>2, <2>3, ControlUses DEF Lists
  <2>8. Moved
    <3>1. top.kind \notin ScopeKinds
      BY <2>1 DEF ScopeKinds, BlockKinds, ForKinds
    <3> QED BY <1>10, <2>1, <3>1, ScopeChanges
  <2> QED BY <1>10, <2>1, <2>5, <2>6, <2>7, <2>8, ControlDominates
<1>15. CASE WhileStatement
  <2> DEFINE n == nextLabelID
             f == [Frame("whileCond") EXCEPT !.head = n, !.body = n + 1, !.end = n + 2]
             s == <<Jmp(n), Label(n)>>
  <2>1. /\ StartStatement /\ code' = code \o s /\ frames' = Append(frames, f)
        /\ scopes' = scopes /\ mode' = "expr" /\ vals' = vals /\ nextLabelID' = n + 3
    BY <1>15 DEF WhileStatement, Emit, unchangedByStatements
  <2>a. mode \in Working /\ vals' = <<>>
    <3>1. mode \in Working /\ mode # "expr"
      BY <2>1, StartFacts
    <3> QED BY <2>1, <1>c, <3>1
  <2>2. Lists(s, {n}, {n}) /\ Uses(s) = {}
    BY ControlLists, ControlUses
  <2>3. f \in GoodFrames
    BY <1>0, NewFrames
  <2>4. f.kind = "whileCond" /\ f.head = n /\ f.body = n + 1 /\ f.end = n + 2
    BY NewFrameFields DEF FrameKinds, ExprKinds
  <2> HIDE DEF f, s
  <2>5. OpenLabels(f) = {n + 1, n + 2} /\ HeadOf(f) = {n}
    BY <1>0, <2>3, <2>4, OpenByKind DEF HeadOf, HeadKinds
  <2>6. n \in NewLabels /\ n + 1 \in NewLabels /\ n + 2 \in NewLabels
    BY <1>0, <2>1 DEF NewLabels, New
  <2>7. Moved
    <3>1. f.kind \notin ScopeKinds
      BY <2>4 DEF ScopeKinds, BlockKinds, ForKinds
    <3>2. OpenLabels(f) \cup HeadOf(f) \subseteq NewLabels
      BY <2>5, <2>6
    <3> QED BY <2>1, <2>a, <3>1, <3>2, ScopeChanges
  <2>8. top' = f
    BY <2>1, <2>a, TopAfter
  <2>9. {n} \subseteq OpenLabels(top) \cup NewLabels
        /\ {n} \subseteq OpenLabels(top) \cup HeadOf(top) \cup NewLabels
    BY <2>6
  <2>10. mode' # "params" /\ top'.kind # "decl"
    BY <2>1, <2>4, <2>8
  <2> DEFINE one == {n}
  <2> HIDE DEF one, n
  <2>11. /\ Lists(s, one, one)
         /\ one \subseteq OpenLabels(top) \cup NewLabels
         /\ one \subseteq OpenLabels(top) \cup HeadOf(top) \cup NewLabels
    BY <2>2, <2>9 DEF one
  <2> QED BY <2>1, <2>a, <2>2, <2>7, <2>10, <2>11, ControlDominates
<1>16. CASE WhileDone
  <2> DEFINE s == JmpIf(reachable, top.head) \o <<Label(top.end)>>
             t == IF reachable THEN {top.head} ELSE {}
  <2>1. /\ mode = "after" /\ top.kind = "while" /\ code' = code \o s /\ frames' = Pop
        /\ scopes' = scopes /\ mode' = "after" /\ vals' = vals
    BY <1>16 DEF WhileDone, Emit, StatementDone, unchangedByStatements
  <2>2. Lists(s, {top.end}, t) /\ Uses(s) = {}
    BY ControlLists, ControlUses
  <2>3. OpenLabels(top) = {top.end}
    BY <1>10, <2>1, OpenByKind
  <2>4. HeadOf(top) = {top.head}
    BY <1>11, <2>1 DEF HeadKinds
  <2>5. Moved
    <3>1. top.kind \notin ScopeKinds
      BY <2>1 DEF ScopeKinds, BlockKinds, ForKinds
    <3> QED BY <1>10, <2>1, <3>1, ScopeChanges
  <2>6. t \subseteq OpenLabels(top) \cup HeadOf(top) \cup NewLabels
        /\ {top.end} \subseteq OpenLabels(top) \cup NewLabels
    BY <2>3, <2>4
  <2> HIDE DEF s, t
  <2> QED BY <1>10, <2>1, <2>2, <2>5, <2>6, ControlDominates
<1>17. ASSUME NEW hasCond \in BOOLEAN, ForInitDone(hasCond) PROVE DominanceInv'
  <2> DEFINE n == nextLabelID
             f == [Frame("forCond") EXCEPT !.head = n, !.body = n + 1, !.alt = n + 2, !.end = n + 3]
             g == [f EXCEPT !.kind = "forBody", !.body = NoLabel]
             enter == <<Jmp(n), Label(n)>>
             again == <<Jmp(n + 1), Label(n + 1)>>
  <2>1. /\ mode = "after" /\ top.kind = "forInit" /\ nextLabelID' = n + 4
        /\ scopes' = scopes /\ mode' \in {"expr", "stmt"} /\ vals' = vals
        /\ \/ code' = code \o enter /\ frames' = ReplaceTop(f)
           \/ code' = code \o (enter \o again) /\ frames' = ReplaceTop(g)
    BY <1>17 DEF ForInitDone, Emit, unchangedByStatements
  <2>2. /\ Lists(enter, {n}, {n}) /\ Lists(again, {n + 1}, {n + 1})
        /\ Uses(enter) = {} /\ Uses(again) = {}
    BY ControlLists, ControlUses
  <2>3. f \in GoodFrames
    BY <1>0, NewFrames
  <2>4. f.kind = "forCond" /\ f.head = n /\ f.body = n + 1 /\ f.alt = n + 2 /\ f.end = n + 3
    BY NewFrameFields DEF FrameKinds, ScopeKinds, ForKinds
  <2> HIDE DEF f
  <2>5. g \in GoodFrames /\ g.kind = "forBody" /\ g.head = n /\ g.alt = n + 2 /\ g.end = n + 3
    <3>1. g \in GoodFrames
      BY <2>3, <2>4, NextFrames
    <3>2. g.kind = "forBody" /\ g.head = n /\ g.alt = n + 2 /\ g.end = n + 3
      BY <2>3, <2>4, NextFrameFields
    <3> QED BY <3>1, <3>2
  <2> HIDE DEF g, enter, again
  <2>6. OpenLabels(f) = {n + 1, n + 2, n + 3} /\ HeadOf(f) = {n}
    BY <1>0, <2>3, <2>4, OpenByKind DEF HeadOf, HeadKinds
  <2>7. OpenLabels(g) = {n + 2, n + 3} /\ HeadOf(g) = {n}
    BY <1>0, <2>5, OpenByKind DEF HeadOf, HeadKinds
  <2>8. /\ n \in NewLabels /\ n + 1 \in NewLabels /\ n + 2 \in NewLabels
        /\ n + 3 \in NewLabels
    BY <1>0, <2>1 DEF NewLabels, New
  <2>9. top.kind \in ScopeKinds /\ f.kind \in ScopeKinds /\ g.kind \in ScopeKinds
    BY <2>1, <2>4, <2>5 DEF ScopeKinds, ForKinds
  <2>10. mode \in Working /\ vals' = <<>> /\ mode' # "params"
    BY <1>10, <2>1
  <2>11. f.kind # "decl" /\ g.kind # "decl"
    BY <2>4, <2>5
  <2>12. CASE code' = code \o enter /\ frames' = ReplaceTop(f)
    <3> DEFINE d == {n}
    <3>1. Moved
      <4>1. /\ OpenLabels(f) \subseteq OpenLabels(top) \cup NewLabels
            /\ HeadOf(f) \subseteq HeadOf(top) \cup NewLabels
        BY <2>6, <2>8
      <4> QED BY <2>1, <2>9, <2>10, <2>12, <4>1, ScopeChanges
    <3>2. top' = f
      BY <2>10, <2>12, TopAfter
    <3>3. /\ d \subseteq OpenLabels(top) \cup NewLabels
          /\ d \subseteq OpenLabels(top) \cup HeadOf(top) \cup NewLabels
      BY <2>8
    <3>4. Lists(enter, d, d)
      BY <2>2
    <3> HIDE DEF d
    <3> QED BY <2>2, <2>10, <2>11, <2>12, <3>1, <3>2, <3>3, <3>4, ControlDominates
  <2>13. CASE code' = code \o (enter \o again) /\ frames' = ReplaceTop(g)
    <3> DEFINE d == {n} \cup {n + 1}
               s == enter \o again
    <3>1. Lists(s, d, d)
      BY <1>0, <2>2, ListsConcat
    <3>2. Uses(s) = {}
      BY <2>2, ControlUses DEF Lists
    <3>3. Moved
      <4>1. /\ OpenLabels(g) \subseteq OpenLabels(top) \cup NewLabels
            /\ HeadOf(g) \subseteq HeadOf(top) \cup NewLabels
        BY <2>7, <2>8
      <4> QED BY <2>1, <2>9, <2>10, <2>13, <4>1, ScopeChanges
    <3>4. top' = g
      BY <2>10, <2>13, TopAfter
    <3>5. /\ d \subseteq OpenLabels(top) \cup NewLabels
          /\ d \subseteq OpenLabels(top) \cup HeadOf(top) \cup NewLabels
      BY <2>8
    <3>6. code' = code \o s
      BY <2>13
    <3> HIDE DEF d, s
    <3> QED BY <2>10, <2>11, <3>1, <3>2, <3>3, <3>4, <3>5, <3>6, ControlDominates
  <2> QED BY <2>1, <2>12, <2>13
<1>18. CASE ForBodyDoneWithPost
  <2> DEFINE s == <<Jmp(top.alt), Label(top.alt)>>
             f == [top EXCEPT !.kind = "forPost", !.alt = NoLabel]
             d == {top.alt}
  <2>1. /\ mode = "after" /\ top.kind = "forBody" /\ code' = code \o s /\ frames' = ReplaceTop(f)
        /\ scopes' = scopes /\ mode' = "expr" /\ vals' = vals
    BY <1>18 DEF ForBodyDoneWithPost, Emit, unchangedByStatements
  <2>2. Lists(s, d, d) /\ Uses(s) = {}
    BY ControlLists, ControlUses
  <2>3. OpenLabels(top) = {top.alt, top.end}
    BY <1>10, <2>1, OpenByKind
  <2>4. HeadOf(top) = {top.head} /\ top.head \in Nat
    BY <1>11, <2>1 DEF HeadKinds
  <2>5. f \in GoodFrames /\ f.kind = "forPost" /\ f.end = top.end /\ f.head = top.head
    <3>1. f \in GoodFrames
      BY <1>10, <2>1, NextFrames DEF TypeInv
    <3>2. f.kind = "forPost" /\ f.end = top.end /\ f.head = top.head
      BY <1>10, <2>1, NextFrameFields
    <3> QED BY <3>1, <3>2
  <2> HIDE DEF f
  <2>6. OpenLabels(f) = {top.end} /\ HeadOf(f) = {top.head}
    BY <2>4, <2>5, OpenByKind DEF HeadOf, HeadKinds
  <2>7. Moved
    <3>1. top.kind \in ScopeKinds /\ f.kind \in ScopeKinds
      BY <2>1, <2>5 DEF ScopeKinds, ForKinds
    <3>2. /\ OpenLabels(f) \subseteq OpenLabels(top) \cup NewLabels
          /\ HeadOf(f) \subseteq HeadOf(top) \cup NewLabels
      BY <2>3, <2>4, <2>6
    <3> QED BY <1>10, <2>1, <3>1, <3>2, ScopeChanges
  <2>8. top' = f
    BY <1>10, <2>1, TopAfter
  <2>9. /\ d \subseteq OpenLabels(top) \cup NewLabels
        /\ d \subseteq OpenLabels(top) \cup HeadOf(top) \cup NewLabels
    BY <2>3
  <2>10. mode' # "params" /\ top'.kind # "decl"
    BY <2>1, <2>5, <2>8
  <2> HIDE DEF s, d
  <2> QED BY <1>10, <2>1, <2>2, <2>7, <2>9, <2>10, ControlDominates
<1>19. CASE ForBodyDone
  <2> DEFINE a == JmpIf(reachable, top.alt) \o <<Label(top.alt)>>
             b == JmpIf(reachable, top.head)
             c == <<Label(top.end)>>
             t == IF reachable THEN {top.alt} ELSE {}
             u == IF reachable THEN {top.head} ELSE {}
             v == t \cup u
             d == {top.alt} \cup {top.end}
             s == (a \o b) \o c
  <2>1. /\ mode = "after" /\ top.kind = "forBody" /\ code' = code \o s
        /\ frames' = Pop /\ PopScope /\ mode' = "after" /\ vals' = vals
    BY <1>19 DEF ForBodyDone, Emit, LeaveFor, StatementDone, unchangedByStatements
  <2>2. Lists(a, {top.alt}, t) /\ Lists(b, {}, u) /\ Lists(c, {top.end}, {})
    BY ControlLists
  <2>3. Uses(a) = {} /\ Uses(b) = {} /\ Uses(c) = {}
    BY ControlUses
  <2>4. /\ OpenLabels(top) = {top.alt, top.end} /\ top.alt # top.end
    <3>1. FrameLabels(top, Defined(code), nextLabelID)
      BY <1>10, <2>1, LabelsOfTop
    <3> QED BY <1>10, <2>1, <3>1, OpenByKind DEF FrameLabels, Distinct, AltKinds
  <2>5. HeadOf(top) = {top.head}
    BY <1>11, <2>1 DEF HeadKinds
  <2>6. /\ d \subseteq OpenLabels(top) \cup NewLabels
        /\ v \subseteq OpenLabels(top) \cup HeadOf(top) \cup NewLabels
    BY <2>4, <2>5
  <2> HIDE DEF a, b, c, t, u
  <2>7. Lists(a \o b, {top.alt}, v)
    <3>1. Lists(a \o b, {top.alt} \cup {}, t \cup u)
      BY <2>2, ListsConcat
    <3> QED BY <3>1
  <2>8. Lists(s, d, v)
    <3>1. Lists(s, {top.alt} \cup {top.end}, v \cup {})
      BY <2>2, <2>4, <2>7, ListsConcat
    <3> QED BY <3>1
  <2>9. Uses(s) = {}
    <3>1. Uses(a \o b) = {}
      BY <2>2, <2>3, ControlUses DEF Lists
    <3> QED BY <2>2, <2>3, <2>7, <3>1, ControlUses DEF Lists
  <2>10. Moved
    <3>1. top.kind \in ScopeKinds
      BY <2>1 DEF ScopeKinds, ForKinds
    <3> QED BY <1>10, <2>1, <3>1, ScopeChanges
  <2> HIDE DEF s, d, v
  <2> QED BY <1>10, <2>1, <2>6, <2>8, <2>9, <2>10, ControlDominates
<1>20. CASE EndFunction
  <2>1. CASE reachable /\ header.ret.spec # "void"
    BY <1>20, <2>1, RejectDominates DEF EndFunction
  <2>2. CASE ~(reachable /\ header.ret.spec # "void")
    <3> DEFINE s == IF reachable THEN <<Ret(NoOperand)>> ELSE <<>>
               none == {}
    <3>1. /\ mode = "after" /\ top.kind = "function" /\ code' = code \o s /\ frames' = Pop
          /\ PopScope /\ mode' = "lowered" /\ vals' = vals
      BY <1>20, <2>2 DEF EndFunction, Emit, unchangedByStatements
    <3>2. Lists(s, none, none)
      BY RetLists
    <3>3. Uses(s) = {}
      BY ControlUses
    <3>4. Moved
      <4>1. top.kind \in ScopeKinds
        BY <3>1 DEF ScopeKinds, BlockKinds
      <4> QED BY <1>10, <3>1, <4>1, ScopeChanges
    <3>5. /\ none \subseteq OpenLabels(top) \cup NewLabels
          /\ none \subseteq OpenLabels(top) \cup HeadOf(top) \cup NewLabels
      OBVIOUS
    <3> HIDE DEF s, none
    <3> QED BY <1>10, <3>1, <3>2, <3>3, <3>4, <3>5, ControlDominates
  <2> QED BY <2>1, <2>2
<1> QED BY <1>1, <1>2, <1>3, <1>5, <1>6, <1>7, <1>8, <1>9, <1>12, <1>13, <1>14,
           <1>15, <1>16, <1>17, <1>18, <1>19, <1>20 DEF StatementStep

(***************************************************************************)
(* The steps at the end of an expression.                                  *)
(***************************************************************************)

\* An instruction that uses an operand of the expression, and control behind it.
LEMMA UseDominates ==
    ASSUME TypeInv, FramesNest, LabelInv, DominanceInv, mode \in Working,
           NEW i, NEW t, Lists(<<i>>, {}, t), UsedBy(i) \subseteq Usable,
           NEW b, NEW d, NEW u, Lists(b, d, u), Uses(b) = {},
           code' = code \o (<<i>> \o b), Moved,
           d \subseteq OpenLabels(top) \cup NewLabels,
           t \cup u \subseteq OpenLabels(top) \cup HeadOf(top) \cup NewLabels,
           vals' = <<>>, mode' # "params", mode' # "expr"
    PROVE  DominanceInv'
<1> DEFINE a == <<i>>
<1>1. \A k \in 1..Len(a) : a[k] = i
  OBVIOUS
<1>2. Uses(a) \subseteq Usable
  BY <1>1 DEF Uses
<1>3. Lists(a, {}, t) /\ code' = code \o (a \o b)
  OBVIOUS
<1> HIDE DEF a
<1>4. Emission(code, frames, scopes, ActiveTexts, a, b, NewLabels)
  BY <1>2, <1>3, EmissionIs
<1> QED BY <1>3, <1>4, StepDominates

\* Nothing behind it.
LEMMA LastUseDominates ==
    ASSUME TypeInv, FramesNest, LabelInv, DominanceInv, mode \in Working,
           NEW i, Lists(<<i>>, {}, {}), UsedBy(i) \subseteq Usable,
           code' = code \o <<i>>, Moved,
           vals' = <<>>, mode' # "params", mode' # "expr"
    PROVE  DominanceInv'
<1> DEFINE b == <<>>
           none == {}
<1>1. Lists(b, none, none) /\ Uses(b) = {} /\ Lists(<<i>>, {}, none)
  BY ShortListsLabels, ControlUses
<1>2. <<i>> \o b = <<i>>
  BY ShortLists, Joined
<1>3. /\ none \subseteq OpenLabels(top) \cup NewLabels
      /\ none \cup none \subseteq OpenLabels(top) \cup HeadOf(top) \cup NewLabels
  OBVIOUS
<1> HIDE DEF b, none
<1>4. code' = code \o (<<i>> \o b)
  BY <1>2
<1> QED BY <1>1, <1>3, <1>4, UseDominates

\* A condition branches to its body and to another label.
LEMMA ConditionDominates ==
    ASSUME TypeInv, FramesNest, LabelInv, DominanceInv, mode = "expr", Len(vals) = 1,
           NEW l, NEW m, NEW f, EnterBody(l, m, f),
           m \in OpenLabels(top) \cup NewLabels, l \in OpenLabels(top) \cup NewLabels,
           OpenLabels(f) \subseteq OpenLabels(top) \cup NewLabels,
           HeadOf(f) \subseteq HeadOf(top) \cup NewLabels,
           f.kind \in ScopeKinds <=> top.kind \in ScopeKinds
    PROVE  DominanceInv'
<1> DEFINE o == Top(1).operand
           i == Br(o, m, l)
           b == <<Label(m)>>
           d == {m}
           t == {m, l}
           none == {}
<1>1. /\ code' = code \o <<i, Label(m)>> /\ frames' = ReplaceTop(f) /\ scopes' = scopes
      /\ vals' = <<>> /\ mode' = "stmt"
  BY DEF EnterBody, Emit
<1>2. code' = code \o (<<i>> \o b)
  BY <1>1, Joined
<1>3. mode \in Working
  BY DEF Working
<1>4. UsedBy(i) \subseteq Usable
  <2>1. i.kind = "br" /\ i.cond = o
    BY DEF Br
  <2>2. 1 \in 1..Len(vals)
    OBVIOUS
  <2>3. TextsOf({o}) \subseteq Usable
    BY <2>2, StackTexts
  <2> HIDE DEF i, o
  <2>4. UsedBy(i) = TextsOf({o})
    BY <2>1 DEF UsedBy
  <2> QED BY <2>3, <2>4
<1>5. Placed(i) = {} /\ Targets(i) = {m, l}
  BY InstructionLabels
<1>6. Lists(b, d, none) /\ Uses(b) = {}
  BY ControlLists, ControlUses
<1>7. Moved
  BY <1>1, <1>3, ScopeChanges
<1>8. /\ d \subseteq OpenLabels(top) \cup NewLabels
      /\ t \cup none \subseteq OpenLabels(top) \cup HeadOf(top) \cup NewLabels
  OBVIOUS
<1>9. Lists(<<i>>, {}, t)
  <2> HIDE DEF i
  <2>1. Lists(<<i>>, Placed(i), Targets(i))
    BY ShortListsLabels
  <2> QED BY <1>5, <2>1
<1>10. mode' # "params" /\ mode' # "expr"
  BY <1>1
<1> HIDE DEF i, b, d, t, none, o
<1> QED BY <1>1, <1>2, <1>3, <1>4, <1>6, <1>7, <1>8, <1>9, <1>10, UseDominates

LEMMA ContinuationsDominated ==
    ASSUME TypeInv, FramesNest, LabelInv, DominanceInv, ContinuationStep
    PROVE  DominanceInv'
<1>0. /\ nextLabelID \in Nat /\ nextLabelID + 1 \in Nat /\ nextLabelID + 2 \in Nat
  BY DEF TypeInv
<1>1. ASSUME NEW k, ExpressionDone(k)
      PROVE  /\ mode = "expr" /\ mode \in Working /\ Len(vals) = 1 /\ top.kind = k
             /\ top \in GoodFrames
             /\ TextsOf({Top(1).operand}) \subseteq Usable
  <2>1. mode = "expr" /\ mode \in Working /\ Len(vals) = 1 /\ top.kind = k
    BY <1>1 DEF ExpressionDone, Working
  <2>2. 1 \in 1..Len(vals)
    BY <2>1
  <2> QED BY <2>1, <2>2, LabelsOfTop, StackTexts
<1>2. ASSUME NEW k \in {"expr", "decl", "return"}, ExpressionDone(k), frames' = Pop,
             scopes' = scopes
      PROVE  Moved
  <2>1. top.kind \notin ScopeKinds
    BY <1>1, <1>2 DEF ScopeKinds, BlockKinds, ForKinds
  <2> QED BY <1>1, <1>2, <2>1, ScopeChanges
<1>3. CASE ExpressionStatementDone
  <2>1. /\ ExpressionDone("expr") /\ frames' = Pop /\ scopes' = scopes /\ code' = code
        /\ vals' = <<>> /\ mode' = "after"
    BY <1>3 DEF ExpressionStatementDone, StatementDone
  <2> QED BY <1>1, <1>2, <2>1, QuietDominates
<1>4. CASE InitializerDone
  <2>1. CASE Top(1).type # top.decl.type
    BY <1>4, <2>1, RejectDominates DEF InitializerDone
  <2>2. CASE Top(1).type = top.decl.type
    <3> DEFINE i  == Store(top.decl.slot, Top(1).operand)
               a  == top.decl.slot
               b  == Top(1).operand
               op == "store"
               no == NoOperand
    <3>1. /\ ExpressionDone("decl") /\ frames' = Pop /\ scopes' = scopes
          /\ code' = code \o <<i>> /\ vals' = <<>> /\ mode' = "after"
      BY <1>4, <2>2 DEF InitializerDone, Emit, StatementDone
    <3>2. i.kind = "op" /\ i = Op(op, no, <<a, b>>)
      BY InstructionParts DEF Store
    <3>3. TextsOf({a}) \subseteq Usable
      BY <1>1, <3>1 DEF Usable, ActiveTexts, DeclTexts
    <3>4. TextsOf({b}) \subseteq Usable
      BY <1>1, <3>1
    <3> HIDE DEF i, a, b, op, no
    <3>5. UsedBy(Op(op, no, <<a, b>>)) \subseteq Usable
      BY <3>3, <3>4, PairUses
    <3>6. UsedBy(i) \subseteq Usable
      BY <3>2, <3>5
    <3>7. Lists(<<i>>, {}, {})
      BY <3>2, OpsLists, OpsLabels
    <3> QED BY <1>1, <1>2, <3>1, <3>6, <3>7, LastUseDominates
  <2> QED BY <2>1, <2>2
<1>5. CASE ReturnDone
  <2>1. CASE Top(1).type # LowerType(header.ret) \/ Top(1).type = Void
    BY <1>5, <2>1, RejectDominates DEF ReturnDone
  <2>2. CASE ~(Top(1).type # LowerType(header.ret) \/ Top(1).type = Void)
    <3> DEFINE i == Ret(Top(1).operand)
               o == Top(1).operand
    <3>1. /\ ExpressionDone("return") /\ frames' = Pop /\ scopes' = scopes
          /\ code' = code \o <<i>> /\ vals' = <<>> /\ mode' = "after"
      BY <1>5, <2>2 DEF ReturnDone, Emit, StatementDone
    <3>2. i.kind = "ret" /\ i.value = o
      BY DEF Ret
    <3>3. TextsOf({o}) \subseteq Usable
      BY <1>1, <3>1
    <3>4. Lists(<<i>>, {}, {})
      BY RetLists
    <3> HIDE DEF i, o
    <3>5. UsedBy(i) \subseteq Usable
      BY <3>2, <3>3 DEF UsedBy
    <3> QED BY <1>1, <1>2, <3>1, <3>4, <3>5, LastUseDominates
  <2> QED BY <2>1, <2>2
<1>6. CASE VoidCondition
  BY <1>6, RejectDominates DEF VoidCondition
<1>a. \A l \in Nat : nextLabelID <= l /\ l < nextLabelID' => l \in NewLabels
  BY DEF NewLabels, New
<1>7. CASE IfConditionDone
  <2> DEFINE n == nextLabelID
             f == [Frame("then") EXCEPT !.end = n + 1]
  <2>1. ExpressionDone("ifCond") /\ nextLabelID' = n + 2 /\ EnterBody(n + 1, n, f)
    BY <1>7 DEF IfConditionDone
  <2>2. "then" \in FrameKinds
    BY DEF FrameKinds
  <2>3. f \in GoodFrames
    BY <1>0, NewFrames
  <2>4. f.kind = "then" /\ f.end = n + 1
    BY <2>2, NewFrameFields
  <2> HIDE DEF f
  <2>5. OpenLabels(f) = {n + 1} /\ HeadOf(f) = {}
    BY <2>3, <2>4, OpenByKind DEF HeadOf, HeadKinds
  <2>6. n \in NewLabels /\ n + 1 \in NewLabels
    BY <1>0, <1>a, <2>1
  <2>7. f.kind \notin ScopeKinds /\ top.kind \notin ScopeKinds
    BY <1>1, <2>1, <2>4 DEF ScopeKinds, BlockKinds, ForKinds
  <2> QED BY <1>1, <2>1, <2>5, <2>6, <2>7, ConditionDominates
<1>8. CASE IfElseConditionDone
  <2> DEFINE n == nextLabelID
             f == [Frame("thenElse") EXCEPT !.end = n + 1, !.alt = n + 2]
  <2>1. ExpressionDone("ifCond") /\ nextLabelID' = n + 3 /\ EnterBody(n + 2, n, f)
    BY <1>8 DEF IfElseConditionDone
  <2>2. "thenElse" \in FrameKinds
    BY DEF FrameKinds
  <2>3. f \in GoodFrames
    BY <1>0, NewFrames
  <2>4. f.kind = "thenElse" /\ f.end = n + 1 /\ f.alt = n + 2
    BY <2>2, NewFrameFields
  <2> HIDE DEF f
  <2>5. OpenLabels(f) = {n + 2, n + 1} /\ HeadOf(f) = {}
    BY <2>3, <2>4, OpenByKind DEF HeadOf, HeadKinds
  <2>6. n \in NewLabels /\ n + 1 \in NewLabels /\ n + 2 \in NewLabels
    BY <1>0, <1>a, <2>1
  <2>7. f.kind \notin ScopeKinds /\ top.kind \notin ScopeKinds
    BY <1>1, <2>1, <2>4 DEF ScopeKinds, BlockKinds, ForKinds
  <2> QED BY <1>1, <2>1, <2>5, <2>6, <2>7, ConditionDominates
<1>9. CASE WhileConditionDone
  <2> DEFINE f == [top EXCEPT !.kind = "while", !.body = NoLabel]
  <2>1. ExpressionDone("whileCond") /\ EnterBody(top.end, top.body, f)
    BY <1>9 DEF WhileConditionDone
  <2>2. top \in GoodFrames /\ top.kind = "whileCond"
    BY <1>1, <2>1
  <2>3. OpenLabels(top) = {top.body, top.end}
    BY <2>2, OpenByKind
  <2>4. f \in GoodFrames
    BY <2>2, NextFrames
  <2>5. f.kind = "while" /\ f.end = top.end /\ f.head = top.head
    BY <2>2, NextFrameFields
  <2> HIDE DEF f
  <2>6. OpenLabels(f) = {top.end}
    BY <2>4, <2>5, OpenByKind
  <2>7. HeadOf(f) = HeadOf(top)
    BY <2>2, <2>5 DEF HeadOf, HeadKinds
  <2>8. f.kind \notin ScopeKinds /\ top.kind \notin ScopeKinds
    BY <2>2, <2>5 DEF ScopeKinds, BlockKinds, ForKinds
  <2> QED BY <1>1, <2>1, <2>3, <2>6, <2>7, <2>8, ConditionDominates
<1>10. CASE ForConditionDone
  <2> DEFINE f == [top EXCEPT !.kind = "forBody", !.body = NoLabel]
  <2>1. ExpressionDone("forCond") /\ EnterBody(top.end, top.body, f)
    BY <1>10 DEF ForConditionDone
  <2>2. top \in GoodFrames /\ top.kind = "forCond"
    BY <1>1, <2>1
  <2>3. OpenLabels(top) = {top.body, top.alt, top.end}
    BY <2>2, OpenByKind
  <2>4. f \in GoodFrames
    BY <2>2, NextFrames
  <2>5. f.kind = "forBody" /\ f.end = top.end /\ f.head = top.head /\ f.alt = top.alt
    BY <2>2, NextFrameFields
  <2> HIDE DEF f
  <2>6. OpenLabels(f) = {top.alt, top.end}
    BY <2>4, <2>5, OpenByKind
  <2>7. HeadOf(f) = HeadOf(top)
    BY <2>2, <2>5 DEF HeadOf, HeadKinds
  <2>8. f.kind \in ScopeKinds /\ top.kind \in ScopeKinds
    BY <2>2, <2>5 DEF ScopeKinds, ForKinds
  <2> QED BY <1>1, <2>1, <2>3, <2>6, <2>7, <2>8, ConditionDominates
<1>11. CASE ForPostDone
  <2> DEFINE s == <<Jmp(top.head), Label(top.end)>>
             d == {top.end}
             t == {top.head}
  <2>1. /\ ExpressionDone("forPost") /\ code' = code \o s /\ vals' = <<>>
        /\ frames' = Pop /\ PopScope /\ mode' = "after"
    BY <1>11 DEF ForPostDone, Emit, LeaveFor, StatementDone
  <2>2. mode \in Working /\ top \in GoodFrames /\ top.kind = "forPost"
    BY <1>1, <2>1
  <2>3. FrameLabels(top, Defined(code), nextLabelID)
    BY <2>2, LabelsOfTop
  <2>4. OpenLabels(top) = {top.end}
    BY <2>2, OpenByKind
  <2>5. HeadOf(top) = {top.head}
    BY <2>2, OpenByKind DEF HeadOf, HeadKinds
  <2>6. Lists(s, d, t) /\ Uses(s) = {}
    BY ControlLists, ControlUses
  <2>7. Moved
    <3>1. top.kind \in ScopeKinds
      BY <2>2 DEF ScopeKinds, ForKinds
    <3> QED BY <2>1, <2>2, <3>1, ScopeChanges
  <2>8. /\ d \subseteq OpenLabels(top) \cup NewLabels
        /\ t \subseteq OpenLabels(top) \cup HeadOf(top) \cup NewLabels
    BY <2>4, <2>5
  <2> HIDE DEF s, d, t
  <2> QED BY <2>1, <2>2, <2>6, <2>7, <2>8, ControlDominates
<1> QED BY <1>3, <1>4, <1>5, <1>6, <1>7, <1>8, <1>9, <1>10, <1>11 DEF ContinuationStep

(***************************************************************************)
(* The invariant holds.                                                    *)
(***************************************************************************)

LEMMA DominanceInitially ==
    ASSUME Init
    PROVE  DominanceInv
<1> DEFINE f == Frame("function")
           fs == <<f>>
           sc == <<NoNames>>
           c  == <<>>
           none == {}
           home == [i \in 1..1 |-> 1]
<1>1. /\ IsList(c) /\ Len(c) = 0 /\ DOMAIN c = {}
      /\ IsList(fs) /\ Len(fs) = 1 /\ fs[1] = f
      /\ IsList(sc) /\ Len(sc) = 1 /\ sc[1] = NoNames
  BY EmptyList, ShortLists
<1>2. f.kind = "function"
  BY DEF Frame
<1>3. 1..1 = {1} /\ \A i \in 1..0 : FALSE
  OBVIOUS
<1>4. home \in [1..1 -> 1..1] /\ home[1] = 1
  OBVIOUS
<1>5. /\ code = c /\ frames = fs /\ scopes = sc /\ vals = <<>> /\ mode = "params"
      /\ top = f
  BY <1>1 DEF Init, top
<1> HIDE DEF f, fs, sc, c, home
<1>6. Homes(home, Len(sc), fs)
  <2>1. "function" \in ScopeKinds
    BY DEF ScopeKinds, BlockKinds
  <2> QED BY <1>1, <1>2, <1>3, <1>4, <2>1 DEF Homes
<1>7. \A l : l \notin none
  OBVIOUS
<1>8. \A text : text \notin TextsIn(NoNames)
  BY NoNamesTexts
<1> HIDE DEF none
<1>9. ASSUME NEW text PROVE Held(text, none, home, c, fs, sc, none)
  <2>1. Region(c, text, none, none, AllHeads(fs))
    BY <1>1, <1>3, <1>7 DEF Region
  <2>2. \A i \in 1..Len(sc) : text \notin TextsIn(sc[i])
    BY <1>1, <1>3, <1>8
  <2> QED BY <1>7, <2>1, <2>2 DEF Held, none
<1>10. Dominated(c, fs, sc, none)
  BY <1>1, <1>6, <1>9 DEF Dominated
<1>11. ActiveTexts = none
  BY <1>5 DEF ActiveTexts, none
<1>12. top.kind \in BlockKinds
  BY <1>2, <1>5 DEF BlockKinds
<1> QED BY <1>5, <1>10, <1>11, <1>12 DEF DominanceInv

LEMMA DominanceInductive ==
    ASSUME TypeInv, FramesNest, LabelInv, NamesBelowCounter, DominanceInv,
           SubstatementDecls = FALSE, [Next]_vars
    PROVE  DominanceInv'
<1>1. CASE UNCHANGED vars
  <2>1. /\ code' = code /\ frames' = frames /\ scopes' = scopes /\ vals' = vals
        /\ mode' = mode /\ top' = top
    BY <1>1 DEF vars, top
  <2>2. ActiveTexts' = ActiveTexts
    BY <2>1 DEF ActiveTexts, DeclTexts
  <2> QED BY <2>1, <2>2 DEF DominanceInv
<1> QED BY <1>1, StatementsDominated, ExpressionsDominated, ContinuationsDominated, Steps

(***************************************************************************)
(* What control reaches.                                                   *)
(***************************************************************************)

\* One round of the program counters reached.
Round(c, avoid, before) ==
    before \cup UNION {NextPCs(c, i) : i \in (before \ avoid) \cap DOMAIN c}

Rounds(c, avoid, n, f) ==
    f = [k \in 0..n |-> IF k = 0 THEN {1} ELSE Round(c, avoid, f[k - 1])]

\* The function ReachedWithout defines by recursion exists.
LEMMA RoundsExist ==
    ASSUME NEW c, NEW avoid, NEW n \in Nat
    PROVE  \E f : Rounds(c, avoid, n, f)
<1> DEFINE Bad == {m \in 0..n : ~ \E f : Rounds(c, avoid, m, f)}
<1>1. SUFFICES ASSUME Bad # {} PROVE FALSE
  <2>1. n \in 0..n
    OBVIOUS
  <2> QED BY <1>1, <2>1
<1>2. PICK m \in Bad : \A k \in Bad : m <= k
  <2>1. Bad \in SUBSET Nat
    OBVIOUS
  <2> QED BY <1>1, <2>1, LeastNatural
<1>3. m \in 0..n /\ ~ \E f : Rounds(c, avoid, m, f)
  OBVIOUS
<1>4. CASE m = 0
  <2> DEFINE f == [k \in 0..0 |-> {1}]
  <2>1. \A k \in 0..0 : k = 0
    OBVIOUS
  <2>2. Rounds(c, avoid, 0, f)
    BY <2>1 DEF Rounds
  <2> QED BY <1>3, <1>4, <2>2
<1>5. CASE m # 0
  <2>1. m - 1 \in 0..n /\ ~(m <= m - 1)
    BY <1>3, <1>5
  <2>2. m - 1 \notin Bad
    BY <1>2, <2>1
  <2>3. PICK f : Rounds(c, avoid, m - 1, f)
    BY <2>1, <2>2
  <2>4. \A k \in 0..(m - 1) : f[k] = IF k = 0 THEN {1} ELSE Round(c, avoid, f[k - 1])
    BY <2>3 DEF Rounds
  <2> DEFINE g == [k \in 0..m |-> IF k = 0 THEN {1} ELSE Round(c, avoid, f[k - 1])]
  <2>5. \A k \in 0..m : k # 0 => k - 1 \in 0..m /\ k - 1 \in 0..(m - 1)
    BY <1>3
  <2>6. \A k \in 0..m : g[k] = IF k = 0 THEN {1} ELSE Round(c, avoid, f[k - 1])
    OBVIOUS
  <2>7. \A k \in 0..m : k # 0 => g[k - 1] = f[k - 1]
    <3> HIDE DEF g
    <3> QED BY <2>4, <2>5, <2>6
  <2>8. g = [k \in 0..m |-> IF k = 0 THEN {1} ELSE Round(c, avoid, g[k - 1])]
    BY <2>7
  <2> HIDE DEF g
  <2>9. Rounds(c, avoid, m, g)
    BY <2>8 DEF Rounds
  <2> QED BY <1>3, <2>9
<1> QED BY <1>4, <1>5

\* It takes as many rounds as there are instructions.
LEMMA ReachedInRounds ==
    ASSUME NEW c, NEW avoid, Len(c) \in Nat
    PROVE  \E after : /\ after[0] = {1}
                      /\ \A k \in 1..Len(c) : after[k] = Round(c, avoid, after[k - 1])
                      /\ ReachedWithout(c, avoid) = after[Len(c)]
<1> DEFINE G(f) == [n \in 0..Len(c) |->
                      IF n = 0 THEN {1}
                      ELSE LET before == f[n - 1] IN
                           before \cup UNION {NextPCs(c, i) : i \in (before \ avoid) \cap DOMAIN c}]
           after == CHOOSE f : f = G(f)
<1>1. PICK f : Rounds(c, avoid, Len(c), f)
  BY RoundsExist
<1>2. f = G(f)
  BY <1>1 DEF Round, Rounds
<1>3. after = G(after)
  <2> HIDE DEF G
  <2> QED BY <1>2
<1>4. ReachedWithout(c, avoid) = after[Len(c)]
  BY DEF ReachedWithout
<1>5. \A n \in 0..Len(c) : G(after)[n] = IF n = 0 THEN {1} ELSE Round(c, avoid, after[n - 1])
  <2> HIDE DEF after
  <2> QED BY DEF Round
<1> HIDE DEF after, G
<1>6. \A n \in 0..Len(c) : after[n] = IF n = 0 THEN {1} ELSE Round(c, avoid, after[n - 1])
  BY <1>3, <1>5
<1>7. after[0] = {1}
  BY <1>6
<1>8. \A k \in 1..Len(c) : after[k] = Round(c, avoid, after[k - 1])
  BY <1>6
<1> QED BY <1>4, <1>7, <1>8

\* Control that passes no definition does not come into the region.
LEMMA RegionNotReached ==
    ASSUME NEW c, IsList(c), TargetsDefined(c), NEW text, NEW R, NEW ahead, NEW behind,
           Region(c, text, R, ahead, behind)
    PROVE  ReachedWithout(c, DefinitionsOf(c, text)) \cap R = {}
<1> DEFINE L == Len(c)
           D == DefinitionsOf(c, text)
<1>1. L \in Nat /\ DOMAIN c = 1..L
  BY ListLength
<1>2. PICK after : /\ after[0] = {1}
                   /\ \A k \in 1..L : after[k] = Round(c, D, after[k - 1])
                   /\ ReachedWithout(c, D) = after[L]
  BY <1>1, ReachedInRounds
<1> DEFINE Bad == {k \in 0..L : after[k] \cap R # {}}
<1>3. SUFFICES ASSUME Bad # {} PROVE FALSE
  <2>1. L \in 0..L
    BY <1>1
  <2> QED BY <1>2, <1>3, <2>1
<1>4. PICK k \in Bad : \A m \in Bad : k <= m
  <2>1. Bad \in SUBSET Nat
    BY <1>1
  <2> QED BY <1>3, <2>1, LeastNatural
<1>5. k \in 0..L /\ after[k] \cap R # {}
  OBVIOUS
<1>6. k # 0
  BY <1>2, <1>5 DEF Region
<1>7. k \in 1..L /\ k - 1 \in 0..L /\ ~(k <= k - 1)
  BY <1>1, <1>5, <1>6
<1>8. after[k - 1] \cap R = {}
  BY <1>4, <1>7
<1>9. PICK p \in R : p \in after[k]
  BY <1>5
<1>10. PICK i \in (after[k - 1] \ D) \cap DOMAIN c : p \in NextPCs(c, i)
  BY <1>2, <1>7, <1>8, <1>9 DEF Round
<1>11. i \in 1..L /\ i \notin Known(c, text, R)
  BY <1>1, <1>8, <1>10 DEF Known
<1>12. CASE c[i].kind \in {"jmp", "br"}
  <2>1. PICK l \in Targets(c[i]) : p = LabelIndex(c, l)
    BY <1>10, <1>12 DEF NextPCs
  <2>2. l \in Defined(c)
    BY <1>10, <2>1 DEF TargetsDefined
  <2>3. c[p].kind = "label" /\ c[p].label = l
    BY <2>1, <2>2, LabelIndexDefined
  <2> QED BY <1>9, <1>11, <2>1, <2>3 DEF Region
<1>13. CASE c[i].kind \notin {"jmp", "br"}
  <2>1. p = i + 1
    BY <1>10, <1>13 DEF NextPCs
  <2>2. p - 1 = i
    BY <1>11, <2>1
  <2> QED BY <1>9, <1>11, <2>2 DEF Region
<1> QED BY <1>12, <1>13

LEMMA DominatedUses ==
    ASSUME CodeInv, DominanceInv
    PROVE  DefinitionsDominateUses
<1>1. SUFFICES ASSUME mode = "lowered", NEW text,
                      NEW i \in ReachedWithout(code, DefinitionsOf(code, text)) \cap DOMAIN code
               PROVE  text \notin UsedBy(code[i])
  BY <1>1 DEF DefinitionsDominateUses
<1>2. frames = <<>>
  BY <1>1 DEF CodeInv, EndInv, Ended
<1>3. TargetsDefined(code)
  BY <1>1, LoweredCode DEF WellFormed
<1>4. PICK home : /\ Homes(home, Len(scopes), frames)
                  /\ \A t : \E R : Held(t, R, home, code, frames, scopes, ActiveTexts)
  BY DEF DominanceInv, Dominated
<1>5. IsList(code) /\ IsList(scopes) /\ Len(scopes) \in Nat
  BY ListLength DEF DominanceInv, Dominated
<1>6. PICK R : Held(text, R, home, code, frames, scopes, ActiveTexts)
  BY <1>4
<1>7. text \notin VariableTexts(scopes)
  <2>1. Len(frames) = 0 /\ \A m \in 1..0 : FALSE
    BY <1>2, EmptyList
  <2>2. \A k \in 1..Len(scopes) : FALSE
    BY <1>4, <2>1 DEF Homes
  <2> QED BY <2>2 DEF VariableTexts
<1>8. Region(code, text, R, {}, AllHeads(frames))
  BY <1>6, <1>7 DEF Held
<1>9. i \notin R
  BY <1>3, <1>5, <1>8, RegionNotReached
<1>10. i \in 1..Len(code)
  BY <1>5, ListLength
<1> QED BY <1>8, <1>9, <1>10 DEF Region

\* On every path a temporary and a slot are defined before they are used, for
\* every tree in which no declaration is the body of an if, a while or a for: no
\* operand the evaluator or the backend reads is unknown.  (lowerStatement lowers
\* a declaration that is such a body into the enclosing scope; the path around the
\* body then reaches a use behind the statement without the slot.)
THEOREM DefinitionsDominate ==
    ASSUME SubstatementDecls = FALSE
    PROVE  Spec => []DefinitionsDominateUses
<1>1. Init => NamesBelowCounter /\ DominanceInv
  BY DominanceInitially, EmptyList DEF Init, NamesBelowCounter, Fresh
<1>2. CodeInv /\ NamesBelowCounter /\ DominanceInv /\ [Next]_vars
      => NamesBelowCounter' /\ DominanceInv'
  BY EveryStepBuilds, BuildsKeepsNames, DominanceInductive DEF CodeInv
<1>3. CodeInv /\ DominanceInv => DefinitionsDominateUses
  BY DominatedUses
<1> QED BY <1>1, <1>2, <1>3, CodeInvHolds, PTL DEF Spec
=============================================================================
