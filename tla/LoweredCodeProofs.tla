------------------------- MODULE LoweredCodeProofs -------------------------
(***************************************************************************)
(* Theorems about the code of a lowered function, for any tree: it is well *)
(* typed, and the evaluator, given the function, meets no fault of the     *)
(* intermediate code and keeps every cell at its type.                     *)
(***************************************************************************)
EXTENDS CompileRun, LoweringProofs

(***************************************************************************)
(* Types.  Some assignment of types to names explains the code: an         *)
(* instruction reads names defined before it, the name it defines has the  *)
(* type its opcode and operands give, and stores, calls and returns agree  *)
(* with it.  It also explains what the walk claims of its operands: the    *)
(* entries of the expression being lowered, the variables in scope and the *)
(* variable being initialised.                                             *)
(***************************************************************************)

OwnKinds == {"temp", "slot"}
OwnTexts == {"t", "s"} \X Nat
Typings  == [OwnTexts -> Types]

ParameterOf(h, text) == CHOOSE p \in {h.params[k] : k \in DOMAIN h.params} : p.name = text
TypeIn(h, U, o) ==
    CASE o.kind = "imm"   -> I32
      [] o.kind = "param" -> LowerType(ParameterOf(h, o.text).type)
      [] OTHER            -> U[o.text]

\* The opcodes whose result has the type of the first operand.
Derived == Opcodes \ (CompareOpcodes \cup {"const", "lnot", "alloca", "load", "loadInd", "call"})

\* The type of the name an operation defines.
Result(U, i) ==
    LET defined == U[i.dst.text]
        first   == i.operands[1]
    IN /\ i.opcode = "alloca" => defined = PointerTo(first.text[2])
       /\ i.opcode \in CompareOpcodes \cup {"const", "lnot"} => defined = I32
       /\ i.opcode = "call" => defined = Signatures[i.callee].ret
       /\ i.opcode \in {"load", "loadInd"} =>
             first.kind \in OwnKinds /\ defined = PointeeType(U[first.text])
       /\ i.opcode \in Derived => first.kind \in OwnKinds /\ defined = U[first.text]

\* What stores, loads, calls and returns demand of their operands.
Demands(h, U, i) ==
    /\ i.kind = "ret" /\ i.value # NoOperand => TypeIn(h, U, i.value) = LowerType(h.ret)
    /\ i.kind = "op" /\ i.opcode \in {"store", "storeInd"} =>
          TypeIn(h, U, i.operands[1]) = PointerTo(TypeIn(h, U, i.operands[2]))
    /\ i.kind = "op" /\ i.opcode \in {"load", "loadInd"} =>
          IsPointerType(TypeIn(h, U, i.operands[1]))
    /\ i.kind = "op" /\ i.opcode = "call" =>
          /\ Len(i.operands) = Len(Signatures[i.callee].params)
          /\ \A k \in DOMAIN i.operands :
                TypeIn(h, U, i.operands[k]) = Signatures[i.callee].params[k]

\* What an instruction may read: a name the code defines, a parameter, or the
\* numeral of a literal.
Sourced(h, o) ==
    \/ o.kind \in OwnKinds
    \/ o.kind = "param" /\ \E k \in DOMAIN h.params : o.text = h.params[k].name
    \/ o.kind = "imm" /\ \E c \in 0..MaxInt : o.text = <<"n", c>>

\* The operations that yield nothing, of which calls only may.
Stores == {"store", "storeInd"}

Reads(h, i) ==
    /\ i.kind = "op" =>
          /\ i.opcode # "call" => (i.dst = NoOperand <=> i.opcode \in Stores)
          /\ i.opcode = "alloca" => \E t \in Types : i.operands[1].text = <<"type", t>>
          /\ i.opcode # "alloca" => \A k \in DOMAIN i.operands : Sourced(h, i.operands[k])
    /\ i.kind = "br" => Sourced(h, i.cond)
    /\ i.kind = "ret" /\ i.value # NoOperand => Sourced(h, i.value)

Defines(i) == i.kind = "op" /\ i.dst # NoOperand
Rule(h, U, i) ==
    /\ Defines(i) => i.dst.kind \in OwnKinds /\ i.dst.text \in OwnTexts /\ Result(U, i)
    /\ Demands(h, U, i)
    /\ Reads(h, i)

DefinesAt(c, j, text) == c[j].kind = "op" /\ c[j].dst.text = text
DefinedIn(c) == {text \in OwnTexts : \E j \in 1..Len(c) : DefinesAt(c, j, text)}

Typed(h, c, U) ==
    \A k \in 1..Len(c) :
        /\ Rule(h, U, c[k])
        /\ \A text \in UsedBy(c[k]) : \E j \in 1..(k - 1) : DefinesAt(c, j, text)

\* A claim is an operand and its type.
Holds(c, U, claims) ==
    \A p \in claims : /\ p[1].kind \in OwnKinds
                      /\ p[1].text \in DefinedIn(c)
                      /\ U[p[1].text] = p[2]

Tenable(h, c, claims) == \E U \in Typings : Typed(h, c, U) /\ Holds(c, U, claims)

\* The operands an instruction has at least, and what they are.
LEMMA OperandsThere ==
    ASSUME NEW i \in GoodInstructions, i.kind = "op"
    PROVE  /\ i.opcode \in Opcodes
           /\ i.operands \in Seq(Operands) /\ DOMAIN i.operands = 1..Len(i.operands)
           /\ i.opcode # "call" => 1 \in DOMAIN i.operands
           /\ i.opcode \in {"store", "storeInd"} => 2 \in DOMAIN i.operands
           /\ \A k \in DOMAIN i.operands : i.operands[k].kind \in ValueKinds
<1>1. VerifyOpcodeOperands(i) /\ i \in Instructions(Operands, Nat, Functions)
  BY DEF GoodInstructions, VerifyInstruction
<1>2. i.operands \in Seq(Operands) /\ i.opcode \in Opcodes
  BY <1>1 DEF Instructions
<1>3. DOMAIN i.operands = 1..Len(i.operands) /\ Len(i.operands) \in Nat
  BY <1>2
<1>4. CASE i.opcode = "call"
  BY <1>1, <1>2, <1>3, <1>4 DEF VerifyOpcodeOperands
<1> DEFINE kinds == OperandKinds(i.opcode)
<1>5. CASE i.opcode # "call"
  <2>1. /\ Len(i.operands) = Len(kinds)
        /\ \A k \in DOMAIN i.operands : i.operands[k].kind \in kinds[k]
    BY <1>1, <1>5 DEF VerifyOpcodeOperands
  <2>2. \/ kinds = <<{"imm"}>> \/ kinds = <<ValueKinds>> \/ kinds = <<ValueKinds, ValueKinds>>
        \/ kinds = <<{"slot"}>> \/ kinds = <<{"slot"}, ValueKinds>>
    BY <1>2, <1>5 DEF OperandKinds, Opcodes, UnaryOpcodes, BinaryOpcodes, ArithOpcodes, CompareOpcodes
  <2>3. i.opcode \in {"store", "storeInd"} => Len(kinds) = 2
    BY DEF OperandKinds, UnaryOpcodes, BinaryOpcodes, ArithOpcodes, CompareOpcodes
  <2>4. (Len(kinds) = 1 \/ Len(kinds) = 2) /\ \A k \in 1..Len(kinds) : kinds[k] \subseteq ValueKinds
    <3> HIDE DEF kinds
    <3>1. /\ Len(<<{"imm"}>>) = 1 /\ Len(<<ValueKinds>>) = 1 /\ Len(<<ValueKinds, ValueKinds>>) = 2
          /\ Len(<<{"slot"}>>) = 1 /\ Len(<<{"slot"}, ValueKinds>>) = 2
          /\ 1..1 = {1} /\ 1..2 = {1, 2}
      OBVIOUS
    <3>2. {"imm"} \subseteq ValueKinds /\ {"slot"} \subseteq ValueKinds
      BY DEF ValueKinds
    <3> HIDE <2>1
    <3> QED BY <2>2, <3>1, <3>2
  <2> HIDE DEF kinds
  <2>5. 1 \in DOMAIN i.operands /\ (i.opcode \in {"store", "storeInd"} => 2 \in DOMAIN i.operands)
    <3>1. Len(i.operands) = 1 \/ Len(i.operands) = 2
      BY <2>1, <2>4
    <3>2. i.opcode \in {"store", "storeInd"} => Len(i.operands) = 2
      BY <2>1, <2>3
    <3>3. 1 \in 1..1 /\ 1 \in 1..2 /\ 2 \in 1..2
      OBVIOUS
    <3>4. DOMAIN i.operands = 1..1 \/ DOMAIN i.operands = 1..2
      BY <1>3, <3>1
    <3>5. i.opcode \in {"store", "storeInd"} => DOMAIN i.operands = 1..2
      BY <1>3, <3>2
    <3> QED BY <3>3, <3>4, <3>5
  <2>6. \A k \in DOMAIN i.operands : i.operands[k].kind \in ValueKinds
    BY <1>3, <2>1, <2>4
  <2> QED BY <1>2, <1>3, <1>5, <2>5, <2>6
<1> QED BY <1>4, <1>5

\* The names an instruction reads.
LEMMA NamesRead ==
    ASSUME NEW i \in GoodInstructions
    PROVE  /\ i.kind = "op" => \A k \in DOMAIN i.operands :
                 i.operands[k].kind \in OwnKinds => i.operands[k].text \in UsedBy(i)
           /\ i.kind = "ret" /\ i.value.kind \in OwnKinds => i.value.text \in UsedBy(i)
BY DEF UsedBy, TextsOf, OwnKinds

LEMMA SameType ==
    ASSUME NEW h, NEW U, NEW V, NEW o, o.kind \in ValueKinds,
           o.kind \in OwnKinds => U[o.text] = V[o.text]
    PROVE  TypeIn(h, U, o) = TypeIn(h, V, o)
<1>1. CASE o.kind \in OwnKinds
  BY <1>1 DEF TypeIn, OwnKinds
<1>2. CASE o.kind = "imm"
  BY <1>2 DEF TypeIn
<1>3. CASE o.kind = "param"
  BY <1>3 DEF TypeIn
<1> QED BY <1>1, <1>2, <1>3 DEF ValueKinds, OwnKinds

LEMMA UsedAreOwn ==
    ASSUME NEW i \in GoodInstructions
    PROVE  UsedBy(i) \subseteq OwnTexts
<1>1. \A o \in Operands : o.kind \in OwnKinds => o.text \in OwnTexts
  BY DEF Operands, Slots, NoOperand, Operand, OwnKinds, OwnTexts
<1>2. \A S \in SUBSET Operands : TextsOf(S) \subseteq OwnTexts
  BY <1>1 DEF TextsOf, OwnKinds
<1>3. CASE i.kind = "op"
  <2>1. {i.operands[k] : k \in DOMAIN i.operands} \in SUBSET Operands
    BY <1>3, OperandsThere
  <2> QED BY <1>2, <1>3, <2>1 DEF UsedBy
<1>4. CASE i.kind = "br"
  <2>1. i.cond \in Operands
    BY <1>4 DEF GoodInstructions, Instructions
  <2> QED BY <1>2, <1>4, <2>1 DEF UsedBy
<1>5. CASE i.kind = "ret"
  <2>1. i.value \in Operands
    BY <1>5 DEF GoodInstructions, Instructions
  <2> QED BY <1>2, <1>5, <2>1 DEF UsedBy
<1> QED BY <1>3, <1>4, <1>5 DEF UsedBy

\* A rule looks only at the names the instruction reads and defines.
LEMMA RuleIsLocal ==
    ASSUME NEW h, NEW U, NEW V, NEW i \in GoodInstructions,
           \A text \in UsedBy(i) : U[text] = V[text],
           Defines(i) => U[i.dst.text] = V[i.dst.text],
           Rule(h, U, i)
    PROVE  Rule(h, V, i)
<1>1. ASSUME i.kind = "op" PROVE \A k \in DOMAIN i.operands :
          /\ i.operands[k].kind \in OwnKinds => U[i.operands[k].text] = V[i.operands[k].text]
          /\ TypeIn(h, U, i.operands[k]) = TypeIn(h, V, i.operands[k])
  BY <1>1, OperandsThere, NamesRead, SameType
<1>2. ASSUME Defines(i) PROVE Result(V, i)
  <2> DEFINE first == i.operands[1]
  <2>1. Result(U, i) /\ U[i.dst.text] = V[i.dst.text]
    BY <1>2 DEF Rule
  <2>2. i.opcode # "call" /\ first.kind \in OwnKinds => U[first.text] = V[first.text]
    BY <1>1, <1>2, OperandsThere DEF Defines
  <2>3. "call" \notin {"load", "loadInd"} \cup Derived
    BY DEF Derived
  <2> QED BY <2>1, <2>2, <2>3 DEF Result
<1>3. ASSUME i.kind = "ret", i.value # NoOperand
      PROVE  TypeIn(h, V, i.value) = LowerType(h.ret)
  <2>1. i.value \in Operands
    BY <1>3 DEF GoodInstructions, Instructions
  <2>2. i.value.kind \in ValueKinds
    BY <1>3, <2>1 DEF Operands, Slots, ValueKinds
  <2>3. TypeIn(h, U, i.value) = TypeIn(h, V, i.value)
    BY <1>3, <2>2, NamesRead, SameType
  <2> QED BY <1>3, <2>3 DEF Rule, Demands
<1>4. ASSUME i.kind = "op" PROVE Demands(h, V, i)
  <2>1. Demands(h, U, i) /\ i.kind # "ret"
    BY <1>4 DEF Rule
  <2>2. i.opcode \in {"store", "storeInd"} =>
           TypeIn(h, V, i.operands[1]) = PointerTo(TypeIn(h, V, i.operands[2]))
    BY <1>1, <1>4, <2>1, OperandsThere DEF Demands
  <2>3. i.opcode \in {"load", "loadInd"} => IsPointerType(TypeIn(h, V, i.operands[1]))
    BY <1>1, <1>4, <2>1, OperandsThere DEF Demands
  <2>4. i.opcode = "call" =>
          /\ Len(i.operands) = Len(Signatures[i.callee].params)
          /\ \A k \in DOMAIN i.operands :
                TypeIn(h, V, i.operands[k]) = Signatures[i.callee].params[k]
    BY <1>1, <1>4, <2>1 DEF Demands
  <2> QED BY <2>1, <2>2, <2>3, <2>4 DEF Demands
<1>5. CASE i.kind # "op"
  BY <1>3, <1>5 DEF Rule, Demands, Defines
<1>6. Reads(h, i)
  BY DEF Rule
<1> QED BY <1>2, <1>4, <1>5, <1>6 DEF Rule, Defines

LEMMA FewerClaims ==
    ASSUME NEW h, NEW c, NEW C, NEW D, Tenable(h, c, C), D \subseteq C
    PROVE  Tenable(h, c, D)
BY DEF Tenable, Holds

\* The last position of longer code.
LEMMA TypedAppend ==
    ASSUME NEW h, NEW c, IsList(c), NEW i, NEW U, Typed(h, c, U), Rule(h, U, i),
           UsedBy(i) \subseteq DefinedIn(c)
    PROVE  Typed(h, c \o <<i>>, U)
<1> DEFINE d == c \o <<i>>
           n == Len(c)
<1>1. /\ Len(d) = n + 1 /\ n \in Nat /\ d[n + 1] = i /\ \A k \in 1..n : d[k] = c[k]
  <2>1. IsList(<<i>>) /\ Len(<<i>>) = 1 /\ <<i>>[1] = i /\ 1 \in 1..1
    BY ShortLists
  <2> QED BY <2>1, ListConcat, ListLength
<1> HIDE DEF d, n
<1>2. \A j \in 1..n : \A text : DefinesAt(c, j, text) => DefinesAt(d, j, text)
  BY <1>1 DEF DefinesAt
<1>3. ASSUME NEW k \in 1..n
      PROVE  Rule(h, U, d[k]) /\ \A text \in UsedBy(d[k]) : \E j \in 1..(k - 1) : DefinesAt(d, j, text)
  <2>1. k \in 1..Len(c) /\ d[k] = c[k] /\ \A j \in 1..(k - 1) : j \in 1..n
    BY <1>1, <1>3 DEF n
  <2>2. Rule(h, U, c[k]) /\ \A text \in UsedBy(c[k]) : \E j \in 1..(k - 1) : DefinesAt(c, j, text)
    BY <2>1 DEF Typed
  <2> QED BY <1>2, <2>1, <2>2
<1>4. \A text \in UsedBy(i) : \E j \in 1..n : DefinesAt(d, j, text)
  BY <1>2 DEF DefinedIn, n
<1>5. \A k \in 1..(n + 1) : k \in 1..n \/ (k = n + 1 /\ k - 1 = n)
  BY <1>1
<1> QED BY <1>1, <1>3, <1>4, <1>5 DEF Typed, d

LEMMA DefinedMore ==
    ASSUME NEW c, IsList(c), NEW s, IsList(s)
    PROVE  /\ DefinedIn(c) \subseteq DefinedIn(c \o s)
           /\ \A U, C : Holds(c, U, C) => Holds(c \o s, U, C)
<1> DEFINE d == c \o s
<1>1. Len(d) = Len(c) + Len(s) /\ Len(c) \in Nat /\ Len(s) \in Nat /\ \A k \in 1..Len(c) : d[k] = c[k]
  BY ListConcat, ListLength
<1> HIDE DEF d
<1>2. \A k \in 1..Len(c) : \A text : DefinesAt(c, k, text) => k \in 1..Len(d) /\ DefinesAt(d, k, text)
  BY <1>1 DEF DefinesAt
<1>3. DefinedIn(c) \subseteq DefinedIn(d)
  BY <1>2 DEF DefinedIn
<1> QED BY <1>3 DEF Holds, d

\* An instruction that defines nothing.
LEMMA UseTenable ==
    ASSUME NEW h, NEW c, IsList(c), NEW i, NEW C, Tenable(h, c, C),
           \A U \in Typings : Holds(c, U, C) => Rule(h, U, i) /\ UsedBy(i) \subseteq DefinedIn(c)
    PROVE  Tenable(h, c \o <<i>>, C)
<1>1. PICK U \in Typings : Typed(h, c, U) /\ Holds(c, U, C)
  BY DEF Tenable
<1>2. Typed(h, c \o <<i>>, U)
  BY <1>1, TypedAppend
<1>3. Holds(c \o <<i>>, U, C)
  BY <1>1, DefinedMore, ShortLists
<1> QED BY <1>1, <1>2, <1>3 DEF Tenable

\* An instruction that defines a new name.
LEMMA DefinitionTenable ==
    ASSUME NEW h, NEW c \in Seq(GoodInstructions), NEW i \in GoodInstructions, i.kind = "op",
           NEW C, Tenable(h, c, C), NEW t \in Types,
           i.dst.kind \in OwnKinds, i.dst.text \in OwnTexts \ DefinedIn(c),
           \A U \in Typings : Holds(c, U, C) /\ U[i.dst.text] = t =>
               Rule(h, U, i) /\ UsedBy(i) \subseteq DefinedIn(c)
    PROVE  Tenable(h, c \o <<i>>, C \cup {<<i.dst, t>>})
<1> DEFINE d == i.dst.text
           e == c \o <<i>>
<1>1. PICK U \in Typings : Typed(h, c, U) /\ Holds(c, U, C)
  BY DEF Tenable
<1> DEFINE V == [U EXCEPT ![d] = t]
<1>2. V \in Typings /\ V[d] = t /\ \A text \in OwnTexts : text # d => V[text] = U[text]
  BY <1>1 DEF Typings
<1>0. IsList(c) /\ IsList(<<i>>) /\ Len(c) \in Nat /\ Len(<<i>>) = 1 /\ <<i>>[1] = i
  BY ShortLists, ListLength DEF IsList
<1> HIDE DEF V
<1>3. Holds(c, V, C)
  BY <1>1, <1>2 DEF Holds, DefinedIn
<1>4. ASSUME NEW k \in 1..Len(c) PROVE Rule(h, V, c[k])
  <2>0. c[k] \in GoodInstructions
    BY <1>0, <1>4
  <2>1. /\ Rule(h, U, c[k]) /\ c[k] \in GoodInstructions
        /\ \A text \in UsedBy(c[k]) : \E j \in 1..(k - 1) : DefinesAt(c, j, text)
    BY <1>1, <1>4, <2>0 DEF Typed
  <2>2. \A text \in UsedBy(c[k]) : text # d
    <3> SUFFICES ASSUME NEW j \in 1..(k - 1), DefinesAt(c, j, d) PROVE FALSE
      BY <2>1
    <3>1. j \in 1..Len(c)
      BY <1>0, <1>4
    <3> QED BY <3>1 DEF DefinedIn
  <2>3. \A text \in UsedBy(c[k]) : text \in OwnTexts
    BY <2>1, UsedAreOwn
  <2>4. Defines(c[k]) => c[k].dst.text # d /\ c[k].dst.text \in OwnTexts
    BY <1>4, <2>1 DEF DefinedIn, DefinesAt, Defines, Rule
  <2> QED BY <1>2, <2>1, <2>2, <2>3, <2>4, RuleIsLocal
<1>5. Typed(h, c, V)
  BY <1>1, <1>4 DEF Typed
<1>6. Typed(h, e, V)
  BY <1>0, <1>2, <1>3, <1>5, TypedAppend
<1>7. d \in DefinedIn(e)
  <2>1. Len(c) + 1 \in 1..Len(e) /\ e[Len(c) + 1] = i
    BY <1>0, ListConcat
  <2> HIDE DEF e
  <2> QED BY <2>1 DEF DefinedIn, DefinesAt
<1>8. Holds(e, V, C)
  BY <1>0, <1>3, DefinedMore
<1>9. Holds(e, V, C \cup {<<i.dst, t>>})
  <2> HIDE DEF e
  <2> QED BY <1>2, <1>7, <1>8 DEF Holds
<1> QED BY <1>2, <1>6, <1>9 DEF Tenable

LEMMA Claimed ==
    ASSUME NEW c, NEW U, NEW C, Holds(c, U, C), NEW o, NEW t, <<o, t>> \in C
    PROVE  /\ o.kind \in OwnKinds /\ o.kind \in ValueKinds
           /\ U[o.text] = t /\ \A h : TypeIn(h, U, o) = t
           /\ o.text \in DefinedIn(c)
           /\ TextsOf({o}) \subseteq DefinedIn(c)
<1> DEFINE p == <<o, t>>
<1>1. p[1] = o /\ p[2] = t /\ p \in C
  OBVIOUS
<1> HIDE DEF p
<1>2. o.kind \in OwnKinds /\ o.text \in DefinedIn(c) /\ U[o.text] = t
  BY <1>1 DEF Holds
<1>3. TextsOf({o}) = {o.text}
  BY <1>2, TextsFacts DEF OwnKinds
<1>4. \A h : TypeIn(h, U, o) = t
  BY <1>2 DEF TypeIn, OwnKinds
<1> QED BY <1>2, <1>3, <1>4 DEF OwnKinds, ValueKinds

LEMMA ClaimedType ==
    ASSUME NEW h, NEW c, NEW U, NEW C, Holds(c, U, C), NEW o, NEW t, <<o, t>> \in C
    PROVE  TypeIn(h, U, o) = t
<1> DEFINE p == <<o, t>>
<1>1. p[1] = o /\ p[2] = t /\ p \in C
  OBVIOUS
<1> HIDE DEF p
<1>2. o.kind \in OwnKinds /\ U[o.text] = t
  BY <1>1 DEF Holds
<1> QED BY <1>2 DEF TypeIn, OwnKinds

(***************************************************************************)
(* The rules of the instructions the walk emits.                           *)
(***************************************************************************)

LEMMA NewNames ==
    ASSUME NEW n \in Nat
    PROVE  /\ Temp(n).kind \in OwnKinds /\ Temp(n).text \in OwnTexts /\ Temp(n) # NoOperand
           /\ StackSlot(n).kind \in OwnKinds /\ StackSlot(n).text \in OwnTexts
           /\ StackSlot(n) # NoOperand
BY DEF Temp, StackSlot, Operand, NoOperand, OwnKinds, OwnTexts

LEMMA OpFields ==
    ASSUME NEW op, NEW dst, NEW ops
    PROVE  /\ Op(op, dst, ops).kind = "op" /\ Op(op, dst, ops).opcode = op
           /\ Op(op, dst, ops).dst = dst /\ Op(op, dst, ops).operands = ops
BY DEF Op

LEMMA OwnSourced ==
    ASSUME NEW o, o.kind \in OwnKinds
    PROVE  \A h : Sourced(h, o)
BY DEF Sourced

\* An operation on values reads what it may.
LEMMA OperationReads ==
    ASSUME NEW h, NEW op, op \notin {"alloca", "call"},
           NEW dst, dst = NoOperand <=> op \in Stores,
           NEW ops, \A k \in DOMAIN ops : Sourced(h, ops[k])
    PROVE  Reads(h, Op(op, dst, ops))
BY OpFields DEF Reads

\* The operators that have the type of their first operand.
Arithmetic == (UnaryOpcodes \cup BinaryOpcodes) \ (CompareOpcodes \cup {"lnot"})

LEMMA IntegerRule ==
    ASSUME NEW h, NEW U, NEW op \in CompareOpcodes \cup {"const", "lnot"}, NEW n \in Nat, NEW ops,
           \A k \in DOMAIN ops : Sourced(h, ops[k]), U[Temp(n).text] = I32
    PROVE  Rule(h, U, Op(op, Temp(n), ops))
<1> DEFINE i == Op(op, Temp(n), ops)
<1>1. i.kind = "op" /\ i.opcode = op /\ i.dst = Temp(n)
  BY OpFields
<1>2. /\ op \notin {"alloca", "call", "load", "loadInd", "store", "storeInd"} /\ op \notin Derived
  BY DEF Derived, CompareOpcodes
<1> HIDE DEF i
<1>3. Result(U, i)
  BY <1>1, <1>2 DEF Result
<1>4. Demands(h, U, i)
  BY <1>1, <1>2 DEF Demands
<1>5. Reads(h, i)
  BY <1>2, NewNames, OperationReads DEF i, Stores
<1> QED BY <1>1, <1>3, <1>4, <1>5, NewNames DEF Rule, i

LEMMA ArithmeticRule ==
    ASSUME NEW h, NEW U, NEW op \in Arithmetic, NEW n \in Nat, NEW ops,
           \A k \in DOMAIN ops : Sourced(h, ops[k]), ops[1].kind \in OwnKinds, U[Temp(n).text] = U[ops[1].text]
    PROVE  Rule(h, U, Op(op, Temp(n), ops))
<1> DEFINE i == Op(op, Temp(n), ops)
<1>1. i.kind = "op" /\ i.opcode = op /\ i.dst = Temp(n) /\ i.operands = ops
  BY OpFields
<1>2. op \notin CompareOpcodes
         \cup {"const", "lnot", "alloca", "call", "load", "loadInd", "store", "storeInd"}
  BY DEF Arithmetic, UnaryOpcodes, BinaryOpcodes, ArithOpcodes
<1> HIDE DEF i
<1>3. Result(U, i)
  BY <1>1, <1>2 DEF Result
<1>4. Demands(h, U, i)
  BY <1>1, <1>2 DEF Demands
<1>5. Reads(h, i)
  BY <1>2, NewNames, OperationReads DEF i, Stores
<1> QED BY <1>1, <1>3, <1>4, <1>5, NewNames DEF Rule, i

LEMMA LoadRule ==
    ASSUME NEW h, NEW U, NEW op \in {"load", "loadInd"}, NEW n \in Nat, NEW ops,
           \A k \in DOMAIN ops : Sourced(h, ops[k]), ops[1].kind \in OwnKinds, IsPointerType(U[ops[1].text]),
           U[Temp(n).text] = PointeeType(U[ops[1].text])
    PROVE  Rule(h, U, Op(op, Temp(n), ops))
<1> DEFINE i == Op(op, Temp(n), ops)
<1>1. i.kind = "op" /\ i.opcode = op /\ i.dst = Temp(n) /\ i.operands = ops
  BY OpFields
<1>2. op \notin CompareOpcodes \cup {"const", "lnot", "alloca", "call", "store", "storeInd"}
  BY DEF CompareOpcodes
<1>3. op \notin Derived
  BY DEF Derived
<1> HIDE DEF i
<1>4. Result(U, i)
  BY <1>1, <1>2, <1>3 DEF Result
<1>5. TypeIn(h, U, ops[1]) = U[ops[1].text]
  BY DEF TypeIn, OwnKinds
<1>6. Demands(h, U, i)
  BY <1>1, <1>2, <1>5 DEF Demands
<1>7. Reads(h, i)
  BY <1>2, NewNames, OperationReads DEF i, Stores
<1> QED BY <1>1, <1>4, <1>6, <1>7, NewNames DEF Rule, i

LEMMA AllocaRule ==
    ASSUME NEW h, NEW U, NEW n \in Nat, NEW t \in Types,
           U[StackSlot(n).text] = PointerTo(t)
    PROVE  Rule(h, U, Op("alloca", StackSlot(n), <<Immediate(<<"type", t>>)>>))
<1> DEFINE ops == <<Immediate(<<"type", t>>)>>
           op  == "alloca"
           i   == Op(op, StackSlot(n), ops)
<1>1. ops[1].text[2] = t /\ ops[1].text = <<"type", t>>
  BY DEF Immediate, Operand
<1> HIDE DEF ops
<1>2. i.kind = "op" /\ i.opcode = op /\ i.dst = StackSlot(n) /\ i.operands = ops
  BY OpFields
<1>3. op = "alloca" /\ op \notin CompareOpcodes
         \cup {"const", "lnot", "call", "load", "loadInd", "store", "storeInd"}
  BY DEF CompareOpcodes
<1>4. op \notin Derived
  BY DEF Derived
<1> HIDE DEF i, op
<1>5. Result(U, i)
  BY <1>1, <1>2, <1>3, <1>4 DEF Result
<1>6. Demands(h, U, i)
  BY <1>2, <1>3 DEF Demands
<1>7. Reads(h, i)
  BY <1>1, <1>2, <1>3, NewNames DEF Reads, Stores
<1>8. Rule(h, U, i)
  BY <1>2, <1>5, <1>6, <1>7, NewNames DEF Rule
<1> QED BY <1>8 DEF i, op, ops

LEMMA StoreRule ==
    ASSUME NEW h, NEW U, NEW op \in {"store", "storeInd"},
           NEW a, NEW b, Sourced(h, a), Sourced(h, b),
           TypeIn(h, U, a) = PointerTo(TypeIn(h, U, b))
    PROVE  Rule(h, U, Op(op, NoOperand, <<a, b>>))
<1> DEFINE ops == <<a, b>>
           i   == Op(op, NoOperand, ops)
<1>1. ops[1] = a /\ ops[2] = b /\ \A k \in DOMAIN ops : ops[k] = a \/ ops[k] = b
  OBVIOUS
<1> HIDE DEF ops
<1>2. i.kind = "op" /\ i.opcode = op /\ i.dst = NoOperand /\ i.operands = ops
  BY OpFields
<1> HIDE DEF i
<1>3. Demands(h, U, i)
  BY <1>1, <1>2 DEF Demands
<1>4. Reads(h, i)
  BY <1>1, <1>2 DEF Reads, Stores
<1>5. Rule(h, U, i)
  BY <1>2, <1>3, <1>4 DEF Rule, Defines
<1> QED BY <1>5 DEF i, ops

LEMMA CallRule ==
    ASSUME NEW h, NEW U, NEW f, NEW dst, NEW argv,
           Len(argv) = Len(Signatures[f].params), \A k \in DOMAIN argv : Sourced(h, argv[k]),
           \A k \in DOMAIN argv : TypeIn(h, U, argv[k]) = Signatures[f].params[k],
           dst # NoOperand => /\ dst.kind \in OwnKinds /\ dst.text \in OwnTexts
                              /\ U[dst.text] = Signatures[f].ret
    PROVE  Rule(h, U, Call(f, dst, argv))
<1> DEFINE i  == Call(f, dst, argv)
           op == "call"
<1>1. i.kind = "op" /\ i.opcode = op /\ i.dst = dst /\ i.operands = argv /\ i.callee = f
  BY DEF Call
<1>2. op \notin CompareOpcodes
         \cup {"const", "lnot", "alloca", "load", "loadInd", "store", "storeInd"}
  BY DEF CompareOpcodes
<1>3. op \notin Derived
  BY DEF Derived
<1> HIDE DEF i
<1>4. dst # NoOperand => Result(U, i)
  BY <1>1, <1>2, <1>3 DEF Result
<1>5. Demands(h, U, i)
  BY <1>1, <1>2 DEF Demands
<1>6. Reads(h, i)
  BY <1>1, <1>2 DEF Reads, Stores
<1>7. Rule(h, U, i)
  BY <1>1, <1>4, <1>5, <1>6 DEF Rule, Defines
<1> QED BY <1>7 DEF i

LEMMA ControlRules ==
    ASSUME NEW h, NEW U
    PROVE  /\ \A l : Rule(h, U, Label(l)) /\ Rule(h, U, Jmp(l))
           /\ \A v, l, m : Sourced(h, v) => Rule(h, U, Br(v, l, m))
           /\ Rule(h, U, Ret(NoOperand))
           /\ \A v : Sourced(h, v) /\ TypeIn(h, U, v) = LowerType(h.ret) => Rule(h, U, Ret(v))
<1>1. \A i : i.kind \notin {"op", "ret"} /\ (i.kind = "br" => Sourced(h, i.cond)) => Rule(h, U, i)
  BY DEF Rule, Defines, Demands, Reads
<1>2. \A v : Ret(v).kind = "ret" /\ Ret(v).value = v
  BY DEF Ret
<1>3. \A v, l, m : Br(v, l, m).kind = "br" /\ Br(v, l, m).cond = v
  BY DEF Br
<1>4. \A i : /\ i.kind = "ret"
             /\ i.value # NoOperand => /\ TypeIn(h, U, i.value) = LowerType(h.ret)
                                       /\ Sourced(h, i.value)
             => Rule(h, U, i)
  BY DEF Rule, Defines, Demands, Reads
<1>5. \A l : Label(l).kind = "label" /\ Jmp(l).kind = "jmp"
  BY DEF Label, Jmp
<1>6. \A l : Rule(h, U, Label(l)) /\ Rule(h, U, Jmp(l))
  BY <1>1, <1>5
<1>7. \A v, l, m : Sourced(h, v) => Rule(h, U, Br(v, l, m))
  BY <1>1, <1>3
<1> QED BY <1>2, <1>4, <1>6, <1>7

(***************************************************************************)
(* The names below a number.                                               *)
(***************************************************************************)

NumberedBelow(c, n) == \A j \in 1..Len(c) : c[j].kind = "op" => Numbered(c[j].dst, 0, n)

LEMMA NamesFresh ==
    ASSUME NEW c, NEW n \in Nat, NumberedBelow(c, n), NEW m \in Nat, n <= m
    PROVE  Temp(m).text \notin DefinedIn(c) /\ StackSlot(m).text \notin DefinedIn(c)
<1>1. ASSUME NEW text \in DefinedIn(c)
      PROVE  text # Temp(m).text /\ text # StackSlot(m).text
  <2>1. PICK j \in 1..Len(c) : c[j].kind = "op" /\ c[j].dst.text = text
    BY DEF DefinedIn, DefinesAt
  <2>2. c[j].dst = NoOperand \/ \E k \in Nat : k < n /\ (c[j].dst = Temp(k) \/ c[j].dst = StackSlot(k))
    BY <2>1 DEF NumberedBelow, Numbered
  <2>3. CASE c[j].dst = NoOperand
    <3>1. text \notin OwnTexts
      BY <2>1, <2>3 DEF NoOperand, Operand, OwnTexts
    <3> QED BY <3>1 DEF DefinedIn
  <2>4. ASSUME NEW k \in Nat, k < n, c[j].dst = Temp(k) \/ c[j].dst = StackSlot(k)
        PROVE  text # Temp(m).text /\ text # StackSlot(m).text
    <3>1. k # m
      BY <2>4
    <3>2. /\ <<"t", k>> # <<"t", m>> /\ <<"s", k>> # <<"s", m>>
          /\ <<"t", k>> # <<"s", m>> /\ <<"s", k>> # <<"t", m>>
      BY <3>1
    <3> QED BY <2>1, <2>4, <3>2 DEF Temp, StackSlot, Operand
  <2> QED BY <2>2, <2>3, <2>4
<1> QED BY <1>1

LEMMA NumberedAppend ==
    ASSUME NEW c, IsList(c), NEW n \in Nat, NumberedBelow(c, n), NEW i, i.kind = "op", i.dst = Temp(n)
    PROVE  NumberedBelow(c \o <<i>>, n + 1)
<1> DEFINE d == c \o <<i>>
<1>1. /\ Len(d) = Len(c) + 1 /\ Len(c) \in Nat /\ d[Len(c) + 1] = i
      /\ \A k \in 1..Len(c) : d[k] = c[k]
  <2>1. IsList(<<i>>) /\ Len(<<i>>) = 1 /\ <<i>>[1] = i /\ 1 \in 1..1
    BY ShortLists
  <2> QED BY <2>1, ListConcat, ListLength
<1> HIDE DEF d
<1>2. \A o : Numbered(o, 0, n) => Numbered(o, 0, n + 1)
  BY DEF Numbered
<1>3. Numbered(Temp(n), 0, n + 1)
  BY DEF Numbered
<1>4. \A k \in 1..Len(d) : k \in 1..Len(c) \/ k = Len(c) + 1
  BY <1>1
<1> QED BY <1>1, <1>2, <1>3, <1>4 DEF NumberedBelow, d

(***************************************************************************)
(* The claims of the state.                                                *)
(***************************************************************************)

\* An entry that is not void has the type it is listed with, an address one
\* level up.
EntryType(e)  == IF e.cat = "address" THEN PointerTo(e.type) ELSE e.type
EntryClaim(e) == IF e.cat # "call" /\ e.type # Void THEN {<<e.operand, EntryType(e)>>} ELSE {}
EntryClaims(v) == UNION {EntryClaim(v[k]) : k \in 1..Len(v)}

\* The slot of a variable points to its type.
SlotClaim(sym)  == <<sym.slot, PointerTo(sym.type)>>
NameClaims(s)   == {SlotClaim(s[x]) : x \in {y \in Names : s[y] # Undeclared}}
ScopeClaims(sc) == UNION {NameClaims(sc[i]) : i \in 1..Len(sc)}
FrameClaim(f)   == IF f.kind = "decl" THEN {SlotClaim(f.decl)} ELSE {}
FrameClaims(fs) == UNION {FrameClaim(fs[m]) : m \in 1..Len(fs)}

Claims(v, sc, fs) == EntryClaims(v) \cup ScopeClaims(sc) \cup FrameClaims(fs)
Now == Claims(vals, scopes, frames)

Explained == Tenable(header, code, Now)

\* The claims of lists that grow and shrink at the end.
LEMMA EntryClaimsFacts ==
    ASSUME NEW S, NEW v \in Seq(S)
    PROVE  /\ \A e \in S : EntryClaims(Append(v, e)) = EntryClaims(v) \cup EntryClaim(e)
           /\ \A n \in 0..Len(v) : EntryClaims(SubSeq(v, 1, n)) \subseteq EntryClaims(v)
           /\ \A k \in 1..Len(v) : EntryClaim(v[k]) \subseteq EntryClaims(v)
<1>2. Len(v) \in Nat
  OBVIOUS
<1>3. ASSUME NEW e \in S
      PROVE  EntryClaims(Append(v, e)) = EntryClaims(v) \cup EntryClaim(e)
  <2> DEFINE w == Append(v, e)
  <2>1. /\ Len(w) = Len(v) + 1 /\ w[Len(v) + 1] = e
        /\ \A k \in 1..Len(v) : w[k] = v[k]
    OBVIOUS
  <2>2. 1..(Len(v) + 1) = 1..Len(v) \cup {Len(v) + 1}
    BY <1>2
  <2> HIDE DEF w
  <2> QED BY <2>1, <2>2 DEF EntryClaims, w
<1>4. ASSUME NEW n \in 0..Len(v)
      PROVE  EntryClaims(SubSeq(v, 1, n)) \subseteq EntryClaims(v)
  <2> DEFINE w == SubSeq(v, 1, n)
  <2>1. Len(w) = n /\ \A k \in 1..n : k \in 1..Len(v) /\ w[k] = v[k]
    BY <1>2
  <2> HIDE DEF w
  <2> QED BY <2>1 DEF w, EntryClaims
<1>5. ASSUME NEW k \in 1..Len(v) PROVE EntryClaim(v[k]) \subseteq EntryClaims(v)
  BY DEF EntryClaims
<1> QED BY <1>3, <1>4, <1>5

LEMMA EntryClaimsOf ==
    /\ \A o, t : EntryClaim(Value(o, t)) \subseteq {<<o, t>>}
    /\ \A o, t : EntryClaim(Address(o, t)) \subseteq {<<o, PointerTo(t)>>}
    /\ \A f : EntryClaim(PendingCall(f)) = {}
    /\ \A e : e.cat = "value" /\ e.type # Void => <<e.operand, e.type>> \in EntryClaim(e)
    /\ \A e : e.cat = "address" /\ e.type # Void => <<e.operand, PointerTo(e.type)>> \in EntryClaim(e)
    /\ \A o : EntryClaim(Value(o, Void)) = {}
BY DEF EntryClaim, EntryType, Value, Address, PendingCall

LEMMA PointerFacts ==
    /\ \A t \in Types : IsPointerType(PointerTo(t)) /\ PointeeType(PointerTo(t)) = t
    /\ \A t \in Types : IsPointerType(t) => PointerTo(PointeeType(t)) = t
    /\ \A t \in Types : IsPointerType(t) => t # Void
<1>1. \A t \in Types : t = [base |-> t.base, depth |-> t.depth] /\ t.depth \in Nat
  BY DEF Types
<1>2. \A t \in Types : /\ PointerTo(t) = [base |-> t.base, depth |-> t.depth + 1]
                       /\ PointeeType(t) = [base |-> t.base, depth |-> t.depth - 1]
  BY <1>1 DEF PointerTo, PointeeType, Types
<1>3. \A t \in Types : IsPointerType(PointerTo(t)) /\ PointeeType(PointerTo(t)) = t
  <2> TAKE t \in Types
  <2>1. PointerTo(t) \in Types
    BY TypeFacts
  <2>2. PointerTo(t).base = t.base /\ PointerTo(t).depth = t.depth + 1
    BY <1>2
  <2>3. PointeeType(PointerTo(t)) = [base |-> t.base, depth |-> (t.depth + 1) - 1]
    BY <1>2, <2>1, <2>2
  <2>4. (t.depth + 1) - 1 = t.depth /\ t.depth + 1 > 0
    BY <1>1
  <2> QED BY <1>1, <2>2, <2>3, <2>4 DEF IsPointerType
<1>4. ASSUME NEW t \in Types, IsPointerType(t) PROVE PointerTo(PointeeType(t)) = t
  <2>1. PointeeType(t) \in Types
    BY <1>4, TypeFacts
  <2>2. PointeeType(t).base = t.base /\ PointeeType(t).depth = t.depth - 1
    BY <1>2
  <2>3. PointerTo(PointeeType(t)) = [base |-> t.base, depth |-> (t.depth - 1) + 1]
    BY <1>2, <2>1, <2>2
  <2>4. (t.depth - 1) + 1 = t.depth
    BY <1>1
  <2> QED BY <1>1, <2>3, <2>4
<1>5. \A t \in Types : IsPointerType(t) => t # Void
  BY DEF IsPointerType, Void
<1> QED BY <1>3, <1>4, <1>5

LEMMA StackClaims ==
    ASSUME TypeInv
    PROVE  /\ \A n \in 1..Len(vals) : EntryClaim(Top(n)) \subseteq Now
           /\ \A e : EntryClaims(Append(vals, e)) \subseteq Now \cup EntryClaim(e)
           /\ \A e : \A n \in 1..Len(vals) :
                 EntryClaims(Append(Below(n), e)) \subseteq Now \cup EntryClaim(e)
           /\ \A e : \A n \in 1..Len(vals) :
                 EntryClaims(Append(SubSeq(vals, 1, n - 1), e)) \subseteq Now \cup EntryClaim(e)
           /\ \A k \in 1..Len(vals) : EntryClaim(vals[k]) \subseteq Now
<1>1. vals \in Seq(GoodEntries) /\ Len(vals) \in Nat
  BY DEF TypeInv
<1>2. EntryClaims(vals) \subseteq Now
  BY DEF Now, Claims
<1>3. \A k \in 1..Len(vals) : EntryClaim(vals[k]) \subseteq Now
  BY <1>1, <1>2, EntryClaimsFacts
<1>4. \A n \in 1..Len(vals) : Len(vals) - n + 1 \in 1..Len(vals)
  BY <1>1
<1>5. \A n \in 1..Len(vals) : EntryClaim(Top(n)) \subseteq Now
  BY <1>3, <1>4 DEF Top
<1>6. ASSUME NEW e, NEW m \in 0..Len(vals)
      PROVE  EntryClaims(Append(SubSeq(vals, 1, m), e)) \subseteq Now \cup EntryClaim(e)
  <2> DEFINE S == GoodEntries \cup {e}
             w == SubSeq(vals, 1, m)
  <2>1. e \in S /\ vals \in Seq(S)
    BY <1>1
  <2> HIDE DEF S
  <2>2. w \in Seq(S)
    BY <1>1, <2>1
  <2>3. EntryClaims(w) \subseteq EntryClaims(vals)
    BY <1>1, EntryClaimsFacts
  <2> HIDE DEF w
  <2>4. EntryClaims(Append(w, e)) = EntryClaims(w) \cup EntryClaim(e)
    BY <2>1, <2>2, EntryClaimsFacts
  <2> QED BY <1>2, <2>3, <2>4 DEF w
<1>7. ASSUME NEW e PROVE EntryClaims(Append(vals, e)) \subseteq Now \cup EntryClaim(e)
  <2> DEFINE S == GoodEntries \cup {e}
  <2>1. vals \in Seq(S) /\ e \in S
    BY <1>1
  <2> HIDE DEF S
  <2>2. EntryClaims(Append(vals, e)) = EntryClaims(vals) \cup EntryClaim(e)
    BY <2>1, EntryClaimsFacts
  <2> QED BY <1>2, <2>2
<1>8. ASSUME NEW e, NEW n \in 1..Len(vals)
      PROVE  /\ EntryClaims(Append(Below(n), e)) \subseteq Now \cup EntryClaim(e)
             /\ EntryClaims(Append(SubSeq(vals, 1, n - 1), e)) \subseteq Now \cup EntryClaim(e)
  <2>1. Len(vals) - n \in 0..Len(vals) /\ n - 1 \in 0..Len(vals)
    BY <1>1
  <2> QED BY <1>6, <2>1 DEF Below
<1> QED BY <1>3, <1>5, <1>7, <1>8

\* A variable that an identifier resolves to is one of a scope.
LEMMA ResolvedClaim ==
    ASSUME TypeInv, NEW x \in Names, ResolveVariable(x) # Undeclared
    PROVE  SlotClaim(ResolveVariable(x)) \in Now
<1>1. DOMAIN scopes = 1..Len(scopes) /\ Len(scopes) \in Nat
  BY DEF TypeInv
<1>2. DeclaredIn(x) # {} /\ ResolveVariable(x) = scopes[Max(DeclaredIn(x))][x]
  BY DEF ResolveVariable
<1>3. Max(DeclaredIn(x)) \in DeclaredIn(x)
  <2>1. DeclaredIn(x) \in SUBSET (0..Len(scopes))
    BY <1>1 DEF DeclaredIn
  <2>2. PICK m \in DeclaredIn(x) : \A k \in DeclaredIn(x) : k <= m
    BY <1>1, <1>2, <2>1, GreatestNatural
  <2>3. \A k \in DeclaredIn(x) : m >= k
    BY <1>1, <2>1, <2>2
  <2> QED BY <2>3 DEF Max
<1>4. Max(DeclaredIn(x)) \in 1..Len(scopes)
  BY <1>1, <1>3 DEF DeclaredIn
<1>5. PICK i \in 1..Len(scopes) : ResolveVariable(x) = scopes[i][x]
  BY <1>2, <1>4
<1>6. SlotClaim(ResolveVariable(x)) \in NameClaims(scopes[i])
  BY <1>5 DEF NameClaims
<1> QED BY <1>6 DEF ScopeClaims, Claims, Now

(***************************************************************************)
(* The steps of an expression.                                             *)
(***************************************************************************)

LEMMA NothingExplained ==
    ASSUME Explained, UNCHANGED unchangedByExpressions, code' = code,
           EntryClaims(vals') \subseteq Now
    PROVE  Explained'
<1>1. header' = header /\ scopes' = scopes /\ frames' = frames
  BY DEF unchangedByExpressions
<1>2. Now' = EntryClaims(vals') \cup ScopeClaims(scopes) \cup FrameClaims(frames)
  BY <1>1 DEF Now, Claims
<1>3. ScopeClaims(scopes) \cup FrameClaims(frames) \subseteq Now
  BY DEF Now, Claims
<1> DEFINE next == Now'
<1>4. next \subseteq Now
  BY <1>2, <1>3
<1> HIDE DEF next
<1>5. Tenable(header, code, next)
  BY <1>4, FewerClaims DEF Explained
<1> QED BY <1>1, <1>5 DEF Explained, next

LEMMA DefinitionExplained ==
    ASSUME TypeInv, NamesBelowCounter, Explained, UNCHANGED unchangedByExpressions,
           NEW i \in GoodInstructions, i.kind = "op", i.dst = Temp(nextTempID), NEW t \in Types,
           code' = code \o <<i>>,
           EntryClaims(vals') \subseteq Now \cup {<<Temp(nextTempID), t>>},
           \A U \in Typings : Holds(code, U, Now) /\ U[Temp(nextTempID).text] = t =>
               Rule(header, U, i) /\ UsedBy(i) \subseteq DefinedIn(code)
    PROVE  Explained'
<1>0. nextTempID \in Nat /\ code \in Seq(GoodInstructions)
  BY DEF TypeInv
<1>1. header' = header /\ scopes' = scopes /\ frames' = frames
  BY DEF unchangedByExpressions
<1>2. Now' = EntryClaims(vals') \cup ScopeClaims(scopes) \cup FrameClaims(frames)
  BY <1>1 DEF Now, Claims
<1>3. ScopeClaims(scopes) \cup FrameClaims(frames) \subseteq Now
  BY DEF Now, Claims
<1>4. NumberedBelow(code, nextTempID)
  BY DEF NamesBelowCounter, Fresh, NumberedBelow
<1>5. i.dst.text \notin DefinedIn(code)
  BY <1>0, <1>4, NamesFresh
<1>6. i.dst.kind \in OwnKinds /\ i.dst.text \in OwnTexts
  BY <1>0, NewNames
<1> DEFINE next == Now'
           more == Now \cup {<<i.dst, t>>}
<1>7. next \subseteq more
  BY <1>2, <1>3
<1> HIDE DEF next
<1>8. Tenable(header, code \o <<i>>, more)
  BY <1>0, <1>5, <1>6, DefinitionTenable DEF Explained
<1> HIDE DEF more
<1>9. Tenable(header, code \o <<i>>, next)
  BY <1>7, <1>8, FewerClaims
<1> QED BY <1>1, <1>9 DEF Explained, next

LEMMA UseExplained ==
    ASSUME TypeInv, Explained, UNCHANGED unchangedByExpressions,
           NEW i, code' = code \o <<i>>, EntryClaims(vals') \subseteq Now,
           \A U \in Typings : Holds(code, U, Now) =>
               Rule(header, U, i) /\ UsedBy(i) \subseteq DefinedIn(code)
    PROVE  Explained'
<1>0. IsList(code)
  BY DEF TypeInv, IsList
<1>1. header' = header /\ scopes' = scopes /\ frames' = frames
  BY DEF unchangedByExpressions
<1>2. Now' = EntryClaims(vals') \cup ScopeClaims(scopes) \cup FrameClaims(frames)
  BY <1>1 DEF Now, Claims
<1>3. ScopeClaims(scopes) \cup FrameClaims(frames) \subseteq Now
  BY DEF Now, Claims
<1> DEFINE next == Now'
<1>4. next \subseteq Now
  BY <1>2, <1>3
<1> HIDE DEF next
<1>5. Tenable(header, code \o <<i>>, Now)
  BY <1>0, UseTenable DEF Explained
<1>6. Tenable(header, code \o <<i>>, next)
  BY <1>4, <1>5, FewerClaims
<1> QED BY <1>1, <1>6 DEF Explained, next

LEMMA ComputeExplained ==
    ASSUME TypeInv, NamesBelowCounter, Explained, UNCHANGED unchangedByExpressions,
           NEW n \in 1..Len(vals), NEW op, NEW ops, NEW t \in Types,
           Compute(n, op, ops, t), Op(op, Temp(nextTempID), ops) \in GoodInstructions,
           \A U \in Typings : Holds(code, U, Now) /\ U[Temp(nextTempID).text] = t =>
               /\ Rule(header, U, Op(op, Temp(nextTempID), ops))
               /\ UsedBy(Op(op, Temp(nextTempID), ops)) \subseteq DefinedIn(code)
    PROVE  Explained'
<1> DEFINE dst == Temp(nextTempID)
           i   == Op(op, dst, ops)
           e   == Value(dst, t)
<1>1. code' = code \o <<i>> /\ vals' = Append(Below(n), e)
  BY DEF Compute, Emit
<1>2. i.kind = "op" /\ i.dst = dst
  BY OpFields
<1>3. EntryClaim(e) \subseteq {<<dst, t>>}
  BY EntryClaimsOf
<1> HIDE DEF i, e
<1>4. EntryClaims(vals') \subseteq Now \cup EntryClaim(e)
  BY <1>1, StackClaims
<1>5. EntryClaims(vals') \subseteq Now \cup {<<dst, t>>}
  BY <1>3, <1>4
<1> QED BY <1>1, <1>2, <1>5, DefinitionExplained DEF i

\* What is claimed of the entry on top, or below it.
LEMMA TopClaims ==
    ASSUME TypeInv, NEW n \in 1..Len(vals)
    PROVE  /\ Top(n).cat = "value" /\ Top(n).type # Void => <<Top(n).operand, Top(n).type>> \in Now
           /\ Top(n).cat = "address" => <<Top(n).operand, PointerTo(Top(n).type)>> \in Now
           /\ Top(n).type \in Types
           /\ Top(n).cat \in {"value", "address"} /\ Top(n).type # Void => Top(n).operand \in Values
<1>1. EntryClaim(Top(n)) \subseteq Now
  BY StackClaims
<1>2. Top(n) \in GoodEntries
  BY ValsTyped
<1> QED BY <1>1, <1>2, EntryClaimsOf, EntryFacts

LEMMA OneOperandExplained ==
    ASSUME TypeInv, NamesBelowCounter, Explained, UNCHANGED unchangedByExpressions,
           NEW n \in 1..Len(vals), NEW op, NEW a, NEW s, <<a, s>> \in Now, NEW t \in Types,
           Compute(n, op, <<a>>, t), Op(op, Temp(nextTempID), <<a>>) \in GoodInstructions,
           \A U \in Typings : U[a.text] = s /\ a.kind \in OwnKinds /\ U[Temp(nextTempID).text] = t =>
               Rule(header, U, Op(op, Temp(nextTempID), <<a>>))
    PROVE  Explained'
<1>1. ASSUME NEW U \in Typings, Holds(code, U, Now), U[Temp(nextTempID).text] = t
      PROVE  /\ Rule(header, U, Op(op, Temp(nextTempID), <<a>>))
             /\ UsedBy(Op(op, Temp(nextTempID), <<a>>)) \subseteq DefinedIn(code)
  <2>1. U[a.text] = s /\ a.kind \in OwnKinds /\ TextsOf({a}) \subseteq DefinedIn(code)
    BY <1>1, Claimed
  <2> QED BY <1>1, <2>1, OperationUses
<1> QED BY <1>1, ComputeExplained

LEMMA LogicalExplained ==
    ASSUME TypeInv, NamesBelowCounter, Explained, NEW op \in LogicalOps, Logical(op)
    PROVE  Explained'
<1> DEFINE zero == Immediate(<<"n", 0>>)
           lhs  == Temp(nextTempID)
           rhs  == Temp(nextTempID + 1)
           res  == Temp(nextTempID + 2)
           v    == Top(2).operand
           w    == Top(1).operand
           ne   == "ne"
           a    == Op(ne, lhs, <<v, zero>>)
           b    == Op(ne, rhs, <<w, zero>>)
           c    == Op(op, res, <<lhs, rhs>>)
           e    == Value(res, I32)
           k1   == code \o <<a>>
           k2   == k1 \o <<b>>
           C1   == Now \cup {<<lhs, I32>>}
           C2   == C1 \cup {<<rhs, I32>>}
           C3   == C2 \cup {<<res, I32>>}
<1>0. /\ nextTempID \in Nat /\ nextTempID + 1 \in Nat /\ nextTempID + 2 \in Nat
      /\ code \in Seq(GoodInstructions) /\ I32 \in Types
  BY TypeFacts DEF TypeInv
<1>1. /\ TwoValues /\ NonVoid /\ UNCHANGED unchangedByExpressions
      /\ code' = code \o <<a, b, c>> /\ vals' = Append(Below(2), e)
  BY DEF Logical, Emit
<1>2. 1 \in 1..Len(vals) /\ 2 \in 1..Len(vals) /\ Top(1).cat = "value" /\ Top(2).cat = "value"
  BY <1>1, ValsTyped DEF TwoValues
<1>3. /\ v \in Values /\ w \in Values
      /\ <<v, Top(2).type>> \in Now /\ <<w, Top(1).type>> \in Now
  BY <1>1, <1>2, TopClaims DEF NonVoid
<1>4. op \in Arithmetic /\ op \in BinaryOpcodes /\ ne \in BinaryOpcodes /\ ne \in CompareOpcodes
  BY OperatorsAssumption DEF Arithmetic, UnaryOpcodes, BinaryOpcodes, ArithOpcodes, CompareOpcodes
<1>5. zero \in Values /\ lhs \in Values /\ rhs \in Values /\ res \in Values
  BY <1>0, OperandFacts
<1>6. a \in GoodInstructions /\ b \in GoodInstructions /\ c \in GoodInstructions
  <2> HIDE DEF zero, ne, v, w
  <2> QED BY <1>0, <1>3, <1>4, <1>5, GoodOps, OperandFacts
<1>7. /\ a.kind = "op" /\ a.dst = lhs /\ b.kind = "op" /\ b.dst = rhs /\ c.kind = "op" /\ c.dst = res
  BY OpFields
<1>8. TextsOf({zero}) = {}
  BY UnusedTexts
<1>9. /\ lhs.kind \in OwnKinds /\ lhs.text \in OwnTexts
      /\ rhs.kind \in OwnKinds /\ rhs.text \in OwnTexts
      /\ res.kind \in OwnKinds /\ res.text \in OwnTexts
  BY <1>0, NewNames
<1>10. NumberedBelow(code, nextTempID)
  BY DEF NamesBelowCounter, Fresh, NumberedBelow
<1>11. /\ k1 \in Seq(GoodInstructions) /\ k2 \in Seq(GoodInstructions)
       /\ IsList(code) /\ IsList(k1)
  <2> HIDE DEF a, b
  <2> QED BY <1>0, <1>6 DEF IsList
<1>12. NumberedBelow(k1, nextTempID + 1)
  BY <1>0, <1>7, <1>10, <1>11, NumberedAppend
<1>13. NumberedBelow(k2, nextTempID + 2)
  <2>1. (nextTempID + 1) + 1 = nextTempID + 2
    BY <1>0
  <2> HIDE DEF a, b, k1
  <2>2. NumberedBelow(k2, (nextTempID + 1) + 1)
    BY <1>0, <1>7, <1>11, <1>12, NumberedAppend
  <2> QED BY <2>1, <2>2
<1>14. lhs.text \notin DefinedIn(code) /\ rhs.text \notin DefinedIn(k1) /\ res.text \notin DefinedIn(k2)
  <2> HIDE DEF k1, k2
  <2> QED BY <1>0, <1>10, <1>12, <1>13, NamesFresh
<1>15. EntryClaims(vals') \subseteq C3
  <2>1. EntryClaim(e) \subseteq {<<res, I32>>}
    BY EntryClaimsOf
  <2> HIDE DEF e
  <2>2. EntryClaims(vals') \subseteq Now \cup EntryClaim(e)
    BY <1>1, <1>2, StackClaims
  <2> QED BY <2>1, <2>2
<1>16. Now' \subseteq C3
  <2>1. Now' = EntryClaims(vals') \cup ScopeClaims(scopes) \cup FrameClaims(frames)
    BY <1>1 DEF Now, Claims, unchangedByExpressions
  <2>2. ScopeClaims(scopes) \cup FrameClaims(frames) \subseteq Now
    BY DEF Now, Claims
  <2>3. Now \subseteq C3
    OBVIOUS
  <2> HIDE DEF C3
  <2> QED BY <1>15, <2>1, <2>2, <2>3
<1> DEFINE next == Now'
<1>17. next \subseteq C3
  BY <1>16
<1> HIDE DEF next
<1>s. Sourced(header, zero)
  BY LiteralsAssumption DEF Sourced, Immediate, Operand
<1>18. ASSUME NEW U \in Typings, Holds(code, U, Now), U[lhs.text] = I32
       PROVE  Rule(header, U, a) /\ UsedBy(a) \subseteq DefinedIn(code)
  <2>2. TextsOf({v}) \subseteq DefinedIn(code) /\ v.kind \in OwnKinds
    <3> DEFINE s == Top(2).type
    <3>1. <<v, s>> \in Now
      BY <1>3
    <3> HIDE DEF v, s, lhs
    <3> QED BY <1>18, <3>1, Claimed
  <2>1. Rule(header, U, a)
    <3> DEFINE ops == <<v, zero>>
    <3>1. \A k \in DOMAIN ops : Sourced(header, ops[k])
      BY <1>s, <2>2, OwnSourced
    <3> HIDE DEF ops
    <3>2. Rule(header, U, Op(ne, lhs, ops))
      BY <1>0, <1>4, <1>18, <3>1, IntegerRule
    <3> QED BY <3>2 DEF ops
  <2>3. TextsOf({zero}) \subseteq DefinedIn(code)
    BY <1>8
  <2> HIDE DEF v, zero, lhs, ne
  <2>4. UsedBy(a) \subseteq DefinedIn(code)
    BY <2>2, <2>3, PairUses
  <2> QED BY <2>1, <2>4
<1>19. Tenable(header, k1, C1)
  <2> HIDE DEF a, lhs, C1, k1
  <2>1. Tenable(header, code \o <<a>>, Now \cup {<<a.dst, I32>>})
    BY <1>0, <1>6, <1>7, <1>9, <1>14, <1>18, DefinitionTenable DEF Explained
  <2> QED BY <1>7, <2>1 DEF C1, k1
<1>20. ASSUME NEW U \in Typings, Holds(k1, U, C1), U[rhs.text] = I32
       PROVE  Rule(header, U, b) /\ UsedBy(b) \subseteq DefinedIn(k1)
  <2>5. <<w, Top(1).type>> \in C1
    BY <1>3
  <2> HIDE DEF k1, C1
  <2>2. TextsOf({w}) \subseteq DefinedIn(k1) /\ w.kind \in OwnKinds
    BY <1>20, <2>5, Claimed
  <2>1. Rule(header, U, b)
    <3> DEFINE ops == <<w, zero>>
    <3>1. \A k \in DOMAIN ops : Sourced(header, ops[k])
      BY <1>s, <2>2, OwnSourced
    <3> HIDE DEF ops
    <3>2. Rule(header, U, Op(ne, rhs, ops))
      BY <1>0, <1>4, <1>20, <3>1, IntegerRule
    <3> QED BY <3>2 DEF ops
  <2>3. TextsOf({zero}) \subseteq DefinedIn(k1)
    BY <1>8
  <2> HIDE DEF w, zero, rhs, ne
  <2>4. UsedBy(b) \subseteq DefinedIn(k1)
    BY <2>2, <2>3, PairUses
  <2> QED BY <2>1, <2>4
<1>21. Tenable(header, k2, C2)
  <2> HIDE DEF b, rhs, C1, C2, k1, k2
  <2>1. Tenable(header, k1 \o <<b>>, C1 \cup {<<b.dst, I32>>})
    BY <1>0, <1>6, <1>7, <1>9, <1>11, <1>14, <1>19, <1>20, DefinitionTenable
  <2> QED BY <1>7, <2>1 DEF C2, k2
<1>22. ASSUME NEW U \in Typings, Holds(k2, U, C2), U[res.text] = I32
       PROVE  Rule(header, U, c) /\ UsedBy(c) \subseteq DefinedIn(k2)
  <2>1. <<lhs, I32>> \in C2 /\ <<rhs, I32>> \in C2
    OBVIOUS
  <2> HIDE DEF k2, C2
  <2>2. /\ TextsOf({lhs}) \subseteq DefinedIn(k2) /\ TextsOf({rhs}) \subseteq DefinedIn(k2)
        /\ U[lhs.text] = I32 /\ lhs.kind \in OwnKinds /\ rhs.kind \in OwnKinds
    BY <1>22, <2>1, Claimed
  <2> DEFINE ops == <<lhs, rhs>>
  <2>3. ops[1] = lhs /\ \A k \in DOMAIN ops : Sourced(header, ops[k])
    BY <2>2, OwnSourced
  <2> HIDE DEF ops
  <2>4. Rule(header, U, Op(op, res, ops))
    BY <1>0, <1>4, <1>22, <2>2, <2>3, ArithmeticRule
  <2> HIDE DEF lhs, rhs, res
  <2>5. UsedBy(c) \subseteq DefinedIn(k2)
    BY <2>2, PairUses
  <2> QED BY <2>4, <2>5 DEF ops
<1>23. Tenable(header, k2 \o <<c>>, C3)
  <2> HIDE DEF c, res, C2, C3, k2
  <2>1. Tenable(header, k2 \o <<c>>, C2 \cup {<<c.dst, I32>>})
    BY <1>0, <1>6, <1>7, <1>9, <1>11, <1>14, <1>21, <1>22, DefinitionTenable
  <2> QED BY <1>7, <2>1 DEF C3
<1>24. Tenable(header, k2 \o <<c>>, next)
  <2> HIDE DEF c, C3, k2
  <2> QED BY <1>17, <1>23, FewerClaims
<1>25. k2 \o <<c>> = code'
  <2>1. code' = code \o <<a, b, c>>
    BY <1>1
  <2> HIDE DEF a, b, c
  <2>2. ((code \o <<a>>) \o <<b>>) \o <<c>> = code \o <<a, b, c>>
    <3>1. IsList(code)
      BY <1>11
    <3> QED BY <3>1, ThreeAppended
  <2> QED BY <2>1, <2>2
<1>26. header' = header
  BY <1>1 DEF unchangedByExpressions
<1> QED BY <1>24, <1>25, <1>26 DEF Explained, next

LEMMA RejectExplained ==
    ASSUME NEW d, Reject(d)
    PROVE  Explained'
<1>1. code' = <<>> /\ frames' = <<>> /\ scopes' = <<>> /\ vals' = <<>>
  BY DEF Reject
<1>2. EntryClaims(<<>>) = {} /\ ScopeClaims(<<>>) = {} /\ FrameClaims(<<>>) = {}
  BY EmptyList DEF EntryClaims, ScopeClaims, FrameClaims
<1>3. Now' = {}
  BY <1>1, <1>2 DEF Now, Claims
<1> DEFINE U == [text \in OwnTexts |-> I32]
<1>4. U \in Typings
  BY TypeFacts DEF Typings
<1>5. Typed(header', <<>>, U)
  BY EmptyList DEF Typed
<1>6. Holds(<<>>, U, {})
  BY DEF Holds
<1> HIDE DEF U
<1>7. Tenable(header', <<>>, {})
  BY <1>4, <1>5, <1>6 DEF Tenable
<1> QED BY <1>1, <1>3, <1>7 DEF Explained

LEMMA CallExplained ==
    ASSUME TypeInv, NamesBelowCounter, Explained, FinishCall
    PROVE  Explained'
<1> DEFINE f    == vals[innermost].callee
           ret  == Signatures[f].ret
           dst  == IF ret = Void THEN NoOperand ELSE Temp(nextTempID)
           argv == [i \in DOMAIN Arguments |-> Arguments[i].operand]
           base == SubSeq(vals, 1, innermost - 1)
           e    == Value(dst, ret)
           i    == Call(f, dst, argv)
<1>0. nextTempID \in Nat /\ vals \in Seq(GoodEntries) /\ Len(vals) \in Nat
  BY DEF TypeInv
<1>1. /\ UNCHANGED unchangedByExpressions /\ ArgumentsDone /\ ArgumentsMatch
      /\ code' = code \o <<i>> /\ vals' = Append(base, e)
  BY DEF FinishCall, Emit
<1>2. innermost \in 1..Len(vals) /\ f \in Functions /\ argv \in Seq(Values)
  BY <1>1, InnermostCall
<1>3. ret \in Types /\ Signatures[f].params \in Seq(Types \ {Void})
  BY <1>2, SignaturesAssumption
<1>4. /\ ret = Void => dst = NoOperand
      /\ ret # Void => dst = Temp(nextTempID)
  OBVIOUS
<1>5. dst \in Operands /\ dst.kind \in {"temp", "slot", "none"}
  BY <1>0, <1>4, OperandFacts
<1>6. i \in GoodInstructions
  <2> HIDE DEF dst, argv, f
  <2> QED BY <1>2, <1>5, GoodCall
<1>7. i.kind = "op" /\ i.dst = dst /\ UsedBy(i) = TextsOf({argv[k] : k \in DOMAIN argv})
  BY OperationUses DEF Call
<1>8. Arguments \in Seq(GoodEntries) /\ DOMAIN Arguments = 1..Len(Arguments)
  BY <1>1, InnermostCall, SeqFacts
<1>9. Len(argv) = Len(Signatures[f].params)
  <2>1. Len(Arguments) = Len(Signatures[f].params)
    BY <1>1 DEF ArgumentsDone, ArgumentTypes
  <2>2. DOMAIN argv = 1..Len(Arguments) /\ Len(Arguments) \in Nat
    BY <1>8
  <2>3. Len(argv) = Len(Arguments)
    BY <2>2, <1>2
  <2> QED BY <2>1, <2>3
<1>10. ASSUME NEW k \in DOMAIN argv
       PROVE  <<argv[k], Signatures[f].params[k]>> \in Now
  <2>1. k \in DOMAIN Arguments /\ argv[k] = Arguments[k].operand
    OBVIOUS
  <2>2. /\ innermost + k \in 1..Len(vals) /\ Arguments[k] = vals[innermost + k]
    BY <1>0, <1>2, <2>1 DEF Arguments
  <2>3. Arguments[k].cat = "value" /\ Arguments[k].type = Signatures[f].params[k]
    BY <1>1, <2>1 DEF ArgumentsDone, ArgumentsMatch, ArgumentTypes
  <2>4. k \in 1..Len(Signatures[f].params)
    BY <1>2, <1>9, SeqFacts
  <2>5. Signatures[f].params[k] # Void
    BY <1>3, <2>4, SeqFacts
  <2>6. EntryClaim(Arguments[k]) \subseteq Now
    BY <2>2, StackClaims
  <2>7. <<Arguments[k].operand, Arguments[k].type>> \in EntryClaim(Arguments[k])
    BY <2>3, <2>5, EntryClaimsOf
  <2> QED BY <2>1, <2>3, <2>6, <2>7
<1>11. EntryClaims(vals') \subseteq Now \cup EntryClaim(e)
  <2> HIDE DEF e
  <2> QED BY <1>1, <1>2, StackClaims
<1>12. ASSUME NEW U \in Typings, Holds(code, U, Now), ret # Void => U[dst.text] = ret
       PROVE  Rule(header, U, i) /\ UsedBy(i) \subseteq DefinedIn(code)
  <2>a. ASSUME NEW o, NEW t, <<o, t>> \in Now
        PROVE  TypeIn(header, U, o) = t /\ o.text \in DefinedIn(code) /\ Sourced(header, o)
    <3>1. Holds(code, U, Now)
      BY <1>12
    <3> DEFINE p == <<o, t>>
    <3>2. p[1] = o /\ p[2] = t /\ p \in Now
      BY <2>a
    <3> HIDE DEF p
    <3>3. o.kind \in OwnKinds /\ o.text \in DefinedIn(code) /\ U[o.text] = t
      BY <3>1, <3>2 DEF Holds
    <3> QED BY <3>3, OwnSourced DEF TypeIn, OwnKinds
  <2>1. ASSUME NEW k \in DOMAIN argv
        PROVE  /\ TypeIn(header, U, argv[k]) = Signatures[f].params[k]
               /\ argv[k].text \in DefinedIn(code) /\ Sourced(header, argv[k])
    <3> DEFINE o == argv[k]
               t == Signatures[f].params[k]
    <3>1. <<o, t>> \in Now
      BY <1>10, <2>1
    <3> HIDE DEF o, t, argv, f, ret, dst, i, e, base
    <3>2. TypeIn(header, U, o) = t /\ o.text \in DefinedIn(code) /\ Sourced(header, o)
      BY <2>a, <3>1
    <3> QED BY <3>2 DEF o, t
  <2>2. dst # NoOperand => /\ dst.kind \in OwnKinds /\ dst.text \in OwnTexts
                           /\ U[dst.text] = Signatures[f].ret
    BY <1>0, <1>4, <1>12, NewNames
  <2> HIDE DEF dst, argv
  <2>3. Rule(header, U, i)
    BY <1>9, <2>1, <2>2, CallRule
  <2>4. UsedBy(i) \subseteq DefinedIn(code)
    <3>1. \A text \in TextsOf({argv[k] : k \in DOMAIN argv}) :
              \E o \in {argv[k] : k \in DOMAIN argv} : o.kind \in {"temp", "slot"} /\ text = o.text
      BY TextsFacts
    <3> QED BY <1>7, <2>1, <3>1
  <2> QED BY <2>3, <2>4
<1>13. CASE ret = Void
  <2>1. EntryClaim(e) = {}
    BY <1>13, EntryClaimsOf
  <2> HIDE DEF dst, i, e, ret
  <2> QED BY <1>1, <1>11, <1>12, <1>13, <2>1, UseExplained
<1>14. CASE ret # Void
  <2>1. EntryClaim(e) \subseteq {<<dst, ret>>} /\ dst = Temp(nextTempID)
    BY <1>4, <1>14, EntryClaimsOf
  <2> HIDE DEF dst, i, e, ret
  <2>2. EntryClaims(vals') \subseteq Now \cup {<<Temp(nextTempID), ret>>}
    BY <1>11, <2>1
  <2>3. \A U \in Typings : Holds(code, U, Now) /\ U[Temp(nextTempID).text] = ret =>
               Rule(header, U, i) /\ UsedBy(i) \subseteq DefinedIn(code)
    BY <1>12, <2>1
  <2> QED BY <1>1, <1>3, <1>6, <1>7, <2>1, <2>2, <2>3, DefinitionExplained
<1> QED BY <1>13, <1>14

LEMMA ExpressionsExplained ==
    ASSUME TypeInv, FramesNest, NamesBelowCounter, Explained, ExpressionStep
    PROVE  Explained'
<1>0. nextTempID \in Nat
  BY DEF TypeInv
<1>1. ASSUME NEW c \in Literals, Literal(c) PROVE Explained'
  <2> DEFINE n  == Immediate(<<"n", c>>)
             op == "const"
             i  == Op(op, Temp(nextTempID), <<n>>)
             e  == Value(Temp(nextTempID), I32)
  <2>1. UNCHANGED unchangedByExpressions /\ code' = code \o <<i>> /\ vals' = Append(vals, e)
    BY <1>1 DEF Literal, Push, Emit
  <2>2. i \in GoodInstructions
    BY <1>0, LiteralsAssumption, GoodOps, OperandFacts
  <2>3. i.kind = "op" /\ i.dst = Temp(nextTempID) /\ UsedBy(i) = {}
    <3>1. TextsOf({n}) = {}
      BY UnusedTexts
    <3> HIDE DEF n
    <3> QED BY <3>1, OpFields, OperationUses
  <2>4. EntryClaim(e) \subseteq {<<Temp(nextTempID), I32>>}
    BY EntryClaimsOf
  <2>s. Sourced(header, n)
    BY <1>1, LiteralsAssumption DEF Sourced, Immediate, Operand, Literal
  <2>5. \A U \in Typings : U[Temp(nextTempID).text] = I32 => Rule(header, U, i)
    <3> DEFINE ops == <<n>>
    <3>1. \A k \in DOMAIN ops : Sourced(header, ops[k])
      BY <2>s
    <3> HIDE DEF ops
    <3>2. \A U \in Typings : U[Temp(nextTempID).text] = I32 =>
              Rule(header, U, Op(op, Temp(nextTempID), ops))
      BY <1>0, <3>1, IntegerRule
    <3> QED BY <3>2 DEF ops
  <2> HIDE DEF e, i
  <2>6. EntryClaims(vals') \subseteq Now \cup {<<Temp(nextTempID), I32>>}
    BY <2>1, <2>4, StackClaims
  <2> QED BY <2>1, <2>2, <2>3, <2>5, <2>6, TypeFacts, DefinitionExplained
<1>2. ASSUME NEW x \in Names, Identifier(x) PROVE Explained'
  <2> DEFINE sym == ResolveVariable(x)
             v   == sym.slot
             op  == "load"
             t   == sym.type
             i   == Op(op, Temp(nextTempID), <<v>>)
             e   == Value(Temp(nextTempID), t)
  <2>1. /\ UNCHANGED unchangedByExpressions /\ code' = code \o <<i>> /\ vals' = Append(vals, e)
        /\ sym # Undeclared /\ mode \in Working
    BY <1>2 DEF Identifier, Push, Emit, MayAddOperand, OperandNeeded, OperandFits, Working
  <2>2. sym \in GoodSymbols
    BY <2>1, ScopesTyped
  <2>3. t \in Types /\ v \in Slots /\ <<v, PointerTo(t)>> \in Now
    BY <2>1, <2>2, ResolvedClaim DEF SlotClaim, GoodSymbols, Symbols
  <2>4. i \in GoodInstructions
    BY <1>0, <2>3, GoodOps, OperandFacts
  <2>5. i.kind = "op" /\ i.dst = Temp(nextTempID)
    BY OpFields
  <2>6. UsedBy(i) = TextsOf({v})
    BY OperationUses
  <2>7. EntryClaim(e) \subseteq {<<Temp(nextTempID), t>>}
    BY EntryClaimsOf
  <2> HIDE DEF sym, v, t
  <2>8. ASSUME NEW U \in Typings, Holds(code, U, Now), U[Temp(nextTempID).text] = t
        PROVE  Rule(header, U, i) /\ UsedBy(i) \subseteq DefinedIn(code)
    <3>1. U[v.text] = PointerTo(t) /\ v.kind \in OwnKinds /\ TextsOf({v}) \subseteq DefinedIn(code)
      <4> DEFINE ty == PointerTo(t)
      <4>1. <<v, ty>> \in Now /\ Holds(code, U, Now)
        BY <2>3, <2>8
      <4> HIDE DEF ty
      <4>2. /\ U[v.text] = ty /\ v.kind \in OwnKinds
            /\ TextsOf({v}) \subseteq DefinedIn(code)
        BY <4>1, Claimed
      <4> QED BY <4>2 DEF ty
    <3> DEFINE ops == <<v>>
    <3>2. /\ ops[1] = v /\ op \in {"load", "loadInd"}
          /\ \A k \in DOMAIN ops : Sourced(header, ops[k])
      BY <3>1, OwnSourced
    <3> HIDE DEF ops, op
    <3>3. Rule(header, U, Op(op, Temp(nextTempID), ops))
      BY <1>0, <2>3, <2>8, <3>1, <3>2, PointerFacts, LoadRule
    <3> QED BY <2>6, <3>1, <3>3 DEF ops
  <2> HIDE DEF e, i
  <2>9. EntryClaims(vals') \subseteq Now \cup {<<Temp(nextTempID), t>>}
    BY <2>1, <2>7, StackClaims
  <2> QED BY <2>1, <2>3, <2>4, <2>5, <2>8, <2>9, DefinitionExplained
<1>3. ASSUME NEW x \in Names, AddressOfIdentifier(x) PROVE Explained'
  <2> DEFINE sym == ResolveVariable(x)
             e   == Address(sym.slot, sym.type)
  <2>1. /\ UNCHANGED unchangedByExpressions /\ sym # Undeclared
        /\ code' = code /\ vals' = Append(vals, e)
    BY <1>3 DEF AddressOfIdentifier, Push
  <2>2. EntryClaim(e) \subseteq Now
    BY <2>1, EntryClaimsOf, ResolvedClaim DEF SlotClaim
  <2> HIDE DEF e
  <2>3. EntryClaims(vals') \subseteq Now
    BY <2>1, <2>2, StackClaims
  <2> QED BY <2>1, <2>3, NothingExplained
<1>a. ASSUME 1 \in 1..Len(vals), Top(1).cat = "value", DerefError(Top(1).type) = NoDiagnostic
      PROVE  /\ IsPointerType(Top(1).type) /\ Top(1).operand \in Values
             /\ Top(1).type \in Types /\ Top(1).type # Void
             /\ PointeeType(Top(1).type) \in Types
             /\ PointerTo(PointeeType(Top(1).type)) = Top(1).type
             /\ <<Top(1).operand, Top(1).type>> \in Now
  <2>1. Top(1).type \in Types
    BY <1>a, TopClaims
  <2>2. IsPointerType(Top(1).type)
    BY <1>a DEF DerefError, NoDiagnostic
  <2>3. Top(1).type # Void
    BY <2>1, <2>2, PointerFacts
  <2> QED BY <1>a, <2>1, <2>2, <2>3, TopClaims, PointerFacts, TypeFacts
<1>4. CASE Dereference
  <2> DEFINE op == IF Top(1).operand.kind = "slot" THEN "load" ELSE "loadInd"
             v  == Top(1).operand
             s  == Top(1).type
             t  == PointeeType(s)
  <2>1. /\ UNCHANGED unchangedByExpressions /\ 1 \in 1..Len(vals) /\ Top(1).cat = "value"
        /\ DerefError(s) = NoDiagnostic /\ Compute(1, op, <<v>>, t)
    BY <1>4, ValsTyped DEF Dereference
  <2>2. v \in Values /\ t \in Types /\ <<v, s>> \in Now /\ IsPointerType(s)
    BY <1>a, <2>1
  <2>3. Op(op, Temp(nextTempID), <<v>>) \in GoodInstructions
    BY <1>0, <2>2, GoodOps, OperandFacts
  <2>4. op \in {"load", "loadInd"}
    OBVIOUS
  <2> HIDE DEF op, v, s
  <2>5. ASSUME NEW U \in Typings, U[v.text] = s, v.kind \in OwnKinds, U[Temp(nextTempID).text] = t
        PROVE  Rule(header, U, Op(op, Temp(nextTempID), <<v>>))
    <3> DEFINE ops == <<v>>
    <3>1. ops[1] = v /\ \A k \in DOMAIN ops : Sourced(header, ops[k])
      BY <2>5, OwnSourced
    <3> HIDE DEF ops
    <3>2. Rule(header, U, Op(op, Temp(nextTempID), ops))
      BY <1>0, <2>2, <2>4, <2>5, <3>1, LoadRule
    <3> QED BY <3>2 DEF ops
  <2> HIDE DEF t
  <2> QED BY <2>1, <2>2, <2>3, <2>5, OneOperandExplained
<1>5. CASE AddressOfDereference
  <2> DEFINE e == Address(Top(1).operand, PointeeType(Top(1).type))
  <2>1. /\ UNCHANGED unchangedByExpressions /\ 1 \in 1..Len(vals) /\ Top(1).cat = "value"
        /\ DerefError(Top(1).type) = NoDiagnostic /\ code' = code /\ vals' = Append(Below(1), e)
    BY <1>5, ValsTyped DEF AddressOfDereference
  <2>2. EntryClaim(e) \subseteq Now
    <3>1. EntryClaim(e) \subseteq {<<Top(1).operand, PointerTo(PointeeType(Top(1).type))>>}
      BY EntryClaimsOf
    <3>2. /\ PointerTo(PointeeType(Top(1).type)) = Top(1).type
          /\ <<Top(1).operand, Top(1).type>> \in Now
      BY <1>a, <2>1
    <3> HIDE DEF e
    <3> QED BY <3>1, <3>2
  <2> HIDE DEF e
  <2>3. EntryClaims(vals') \subseteq Now
    BY <2>1, <2>2, StackClaims
  <2> QED BY <2>1, <2>3, NothingExplained
<1>6. CASE AddressOf
  <2> DEFINE e == Value(Top(1).operand, PointerTo(Top(1).type))
  <2>1. /\ UNCHANGED unchangedByExpressions /\ 1 \in 1..Len(vals) /\ Top(1).cat = "address"
        /\ code' = code /\ vals' = Append(Below(1), e)
    BY <1>6, ValsTyped DEF AddressOf
  <2>2. EntryClaim(e) \subseteq Now
    <3>1. EntryClaim(e) \subseteq {<<Top(1).operand, PointerTo(Top(1).type)>>}
      BY EntryClaimsOf
    <3>2. <<Top(1).operand, PointerTo(Top(1).type)>> \in Now
      BY <2>1, TopClaims
    <3> HIDE DEF e
    <3> QED BY <3>1, <3>2
  <2> HIDE DEF e
  <2>3. EntryClaims(vals') \subseteq Now
    BY <2>1, <2>2, StackClaims
  <2> QED BY <2>1, <2>3, NothingExplained
<1>7. ASSUME NEW op \in UnaryOps, Unary(op) PROVE Explained'
  <2>1. /\ UNCHANGED unchangedByExpressions /\ 1 \in 1..Len(vals) /\ Top(1).cat = "value"
        /\ Top(1).type = I32
    BY <1>7, ValsTyped DEF Unary
  <2>2. CASE op = "plus"
    <3>1. code' = code /\ vals' = vals
      BY <1>7, <2>2 DEF Unary
    <3>2. EntryClaims(vals') \subseteq Now
      BY <3>1 DEF Now, Claims
    <3> QED BY <2>1, <3>1, <3>2, NothingExplained
  <2>3. CASE op # "plus"
    <3> DEFINE v == Top(1).operand
    <3>1. Compute(1, op, <<v>>, I32)
      BY <1>7, <2>3 DEF Unary
    <3>2. v \in Values /\ <<v, I32>> \in Now /\ I32 \in Types
      BY <2>1, TopClaims, TypeFacts
    <3>3. op \in UnaryOpcodes
      BY <2>3, OperatorsAssumption
    <3>4. Op(op, Temp(nextTempID), <<v>>) \in GoodInstructions
      BY <1>0, <3>2, <3>3, GoodOps, OperandFacts
    <3>5. op \in CompareOpcodes \cup {"const", "lnot"} \/ op \in Arithmetic
      BY <3>3 DEF Arithmetic
    <3> HIDE DEF v
    <3>6. ASSUME NEW U \in Typings, U[v.text] = I32, v.kind \in OwnKinds,
                 U[Temp(nextTempID).text] = I32
          PROVE  Rule(header, U, Op(op, Temp(nextTempID), <<v>>))
      <4> DEFINE ops == <<v>>
      <4>1. ops[1] = v /\ \A k \in DOMAIN ops : Sourced(header, ops[k])
        BY <3>6, OwnSourced
      <4> HIDE DEF ops
      <4>2. Rule(header, U, Op(op, Temp(nextTempID), ops))
        BY <1>0, <3>5, <3>6, <4>1, IntegerRule, ArithmeticRule
      <4> QED BY <4>2 DEF ops
    <3> QED BY <2>1, <3>1, <3>2, <3>4, <3>6, OneOperandExplained
  <2> QED BY <2>2, <2>3
<1>8. ASSUME NEW op \in BinaryOps, Binary(op) PROVE Explained'
  <2> DEFINE t == IF op \in CompareOpcodes THEN I32 ELSE Top(2).type
             v == Top(2).operand
             w == Top(1).operand
             i == Op(op, Temp(nextTempID), <<v, w>>)
  <2>1. /\ TwoValues /\ NonVoid /\ UNCHANGED unchangedByExpressions
        /\ Compute(2, op, <<v, w>>, t)
    BY <1>8 DEF Binary
  <2>2. 1 \in 1..Len(vals) /\ 2 \in 1..Len(vals) /\ Top(1).cat = "value" /\ Top(2).cat = "value"
    BY <2>1, ValsTyped DEF TwoValues
  <2>3. /\ v \in Values /\ w \in Values /\ Top(2).type \in Types
        /\ <<v, Top(2).type>> \in Now /\ <<w, Top(1).type>> \in Now
    BY <2>1, <2>2, TopClaims DEF NonVoid
  <2>4. t \in Types
    BY <2>3, TypeFacts
  <2>5. op \in BinaryOpcodes
    BY OperatorsAssumption
  <2>6. i \in GoodInstructions
    <3> HIDE DEF v, w
    <3> QED BY <1>0, <2>3, <2>5, GoodOps, OperandFacts
  <2>7. \/ op \in CompareOpcodes /\ t = I32
        \/ op \in Arithmetic /\ t = Top(2).type
    <3>1. op \notin CompareOpcodes => op \in Arithmetic
      BY <2>5 DEF Arithmetic, BinaryOpcodes, ArithOpcodes
    <3> QED BY <3>1
  <2> HIDE DEF t, v, w
  <2>8. ASSUME NEW U \in Typings, Holds(code, U, Now), U[Temp(nextTempID).text] = t
        PROVE  Rule(header, U, i) /\ UsedBy(i) \subseteq DefinedIn(code)
    <3>1. /\ U[v.text] = Top(2).type /\ v.kind \in OwnKinds
          /\ TextsOf({v}) \subseteq DefinedIn(code)
      <4> DEFINE ty == Top(2).type
      <4>1. <<v, ty>> \in Now /\ Holds(code, U, Now)
        BY <2>3, <2>8
      <4> HIDE DEF ty
      <4>2. /\ U[v.text] = ty /\ v.kind \in OwnKinds
            /\ TextsOf({v}) \subseteq DefinedIn(code)
        BY <4>1, Claimed
      <4> QED BY <4>2 DEF ty
    <3>5. TextsOf({w}) \subseteq DefinedIn(code) /\ w.kind \in OwnKinds
      <4> DEFINE ty == Top(1).type
      <4>1. <<w, ty>> \in Now /\ Holds(code, U, Now)
        BY <2>3, <2>8
      <4> HIDE DEF ty
      <4>2. /\ U[w.text] = ty /\ w.kind \in OwnKinds
            /\ TextsOf({w}) \subseteq DefinedIn(code)
        BY <4>1, Claimed
      <4> QED BY <4>2 DEF ty
    <3> DEFINE ops == <<v, w>>
    <3>2. ops[1] = v /\ \A k \in DOMAIN ops : Sourced(header, ops[k])
      BY <3>1, <3>5, OwnSourced
    <3> HIDE DEF ops
    <3>3. Rule(header, U, Op(op, Temp(nextTempID), ops))
      BY <1>0, <2>7, <2>8, <3>1, <3>2, IntegerRule, ArithmeticRule
    <3>4. UsedBy(i) \subseteq DefinedIn(code)
      BY <3>1, <3>5, PairUses
    <3> QED BY <3>3, <3>4 DEF ops
  <2> QED BY <2>1, <2>2, <2>4, <2>6, <2>8, ComputeExplained
<1>9. ASSUME NEW op \in LogicalOps, Logical(op) PROVE Explained'
  BY <1>9, LogicalExplained
<1>10. CASE Assign
  <2> DEFINE op == IF Top(2).operand.kind = "slot" THEN "store" ELSE "storeInd"
             v  == Top(2).operand
             w  == Top(1).operand
             t  == Top(1).type
             e  == Top(1)
             i  == Op(op, NoOperand, <<v, w>>)
  <2>1. /\ UNCHANGED unchangedByExpressions /\ 1 \in 1..Len(vals) /\ 2 \in 1..Len(vals)
        /\ Top(1).cat = "value" /\ Top(2).cat = "address" /\ Top(1).type = Top(2).type
        /\ code' = code \o <<i>> /\ vals' = Append(Below(2), e)
    BY <1>10, ValsTyped DEF Assign, Emit
  <2>2. t # Void
    <3>1. Top(2) \in GoodEntries
      BY <2>1, ValsTyped
    <3> QED BY <2>1, <3>1, EntryFacts
  <2>3. <<w, t>> \in Now /\ <<v, PointerTo(t)>> \in Now
    BY <2>1, <2>2, TopClaims
  <2>4. EntryClaim(e) \subseteq Now
    BY <2>1, StackClaims
  <2>5. op \in {"store", "storeInd"}
    OBVIOUS
  <2> HIDE DEF op, v, w, t, e
  <2>6. ASSUME NEW U \in Typings, Holds(code, U, Now)
        PROVE  Rule(header, U, i) /\ UsedBy(i) \subseteq DefinedIn(code)
    <3>1. /\ TypeIn(header, U, v) = PointerTo(t) /\ TextsOf({v}) \subseteq DefinedIn(code)
          /\ v.kind \in OwnKinds
      BY <2>3, <2>6, Claimed
    <3>2. /\ TypeIn(header, U, w) = t /\ TextsOf({w}) \subseteq DefinedIn(code)
          /\ w.kind \in OwnKinds
      BY <2>3, <2>6, Claimed
    <3>3. Rule(header, U, i)
      BY <2>5, <3>1, <3>2, OwnSourced, StoreRule
    <3> QED BY <3>1, <3>2, <3>3, PairUses
  <2> HIDE DEF i
  <2>7. EntryClaims(vals') \subseteq Now
    BY <2>1, <2>4, StackClaims
  <2> QED BY <2>1, <2>6, <2>7, UseExplained
<1>11. ASSUME NEW f \in Functions, StartCall(f) PROVE Explained'
  <2> DEFINE e == PendingCall(f)
  <2>1. /\ UNCHANGED unchangedByExpressions /\ code' = code /\ vals' = Append(vals, e)
    BY <1>11 DEF StartCall, Push
  <2>2. EntryClaim(e) = {}
    BY EntryClaimsOf
  <2> HIDE DEF e
  <2>3. EntryClaims(vals') \subseteq Now
    BY <2>1, <2>2, StackClaims
  <2> QED BY <2>1, <2>3, NothingExplained
<1>12. CASE FinishCall
  BY <1>12, CallExplained
<1>14. CASE \/ \E c \in Literals : BadLiteral(c)
            \/ \E x \in Names : UndeclaredIdentifier(x)
            \/ BadTarget \/ BadDereference \/ BadUnary \/ BadBinary \/ BadAssign
            \/ BadCall \/ BadArguments
  BY <1>14, RejectExplained DEF BadLiteral, UndeclaredIdentifier, BadTarget, BadDereference,
               BadUnary, BadBinary, BadAssign, BadCall, BadArguments
<1> QED BY <1>1, <1>2, <1>3, <1>4, <1>5, <1>6, <1>7, <1>8, <1>9, <1>10, <1>11, <1>12, <1>14
       DEF ExpressionStep

(***************************************************************************)
(* Statements and continuations.                                           *)
(***************************************************************************)

\* An instruction that neither reads nor defines a name.
Silent(i) == UsedBy(i) = {} /\ \A h, U : Rule(h, U, i)
Quiet(s)  == IsList(s) /\ \A k \in 1..Len(s) : Silent(s[k])

LEMMA SilentInstructions ==
    /\ \A l : Silent(Label(l)) /\ Silent(Jmp(l))
    /\ Silent(Ret(NoOperand))
<1>1. \A l : UsedBy(Label(l)) = {} /\ UsedBy(Jmp(l)) = {}
  BY DEF UsedBy, Label, Jmp
<1> DEFINE n == Ret(NoOperand)
<1>2. UsedBy(n) = {}
  <2>1. n.kind = "ret" /\ n.value = NoOperand
    BY DEF Ret
  <2> HIDE DEF n
  <2>2. UsedBy(n) = TextsOf({n.value})
    BY <2>1 DEF UsedBy
  <2> QED BY <2>1, <2>2, UnusedTexts
<1> QED BY <1>1, <1>2, ControlRules DEF Silent

LEMMA QuietConcat ==
    ASSUME NEW s, NEW t, Quiet(s), Quiet(t)
    PROVE  Quiet(s \o t)
<1> DEFINE d == s \o t
<1>1. /\ IsList(d) /\ Len(d) = Len(s) + Len(t)
      /\ \A i \in 1..Len(s) : d[i] = s[i]
      /\ \A i \in 1..Len(t) : d[Len(s) + i] = t[i]
      /\ Len(s) \in Nat /\ Len(t) \in Nat
  BY ListConcat, ListLength DEF Quiet
<1> HIDE DEF d
<1>2. ASSUME NEW i \in 1..Len(d) PROVE Silent(d[i])
  <2>1. CASE i \in 1..Len(s)
    BY <1>1, <2>1 DEF Quiet
  <2>2. CASE i \notin 1..Len(s)
    <3>1. i - Len(s) \in 1..Len(t) /\ i = Len(s) + (i - Len(s))
      BY <1>1, <2>2
    <3>2. d[i] = t[i - Len(s)]
      BY <1>1, <3>1
    <3> QED BY <3>1, <3>2 DEF Quiet
  <2> QED BY <2>1, <2>2
<1> QED BY <1>1, <1>2 DEF Quiet, d

LEMMA QuietLists ==
    ASSUME NEW r, NEW l, NEW m
    PROVE  /\ Quiet(<<>>) /\ Quiet(<<Label(m)>>) /\ Quiet(<<Ret(NoOperand)>>)
           /\ Quiet(JmpIf(r, l)) /\ Quiet(<<Jmp(l), Label(m)>>)
           /\ Quiet(JmpIf(r, l) \o <<Label(m)>>)
<1> DEFINE a == Label(m)
           j == Jmp(l)
           n == Ret(NoOperand)
<1>1. Silent(a) /\ Silent(j) /\ Silent(n)
  BY SilentInstructions
<1> HIDE DEF a, j, n
<1>2. Quiet(<<>>)
  BY EmptyList DEF Quiet
<1>3. ASSUME NEW i, Silent(i) PROVE Quiet(<<i>>)
  <2> DEFINE s == <<i>>
  <2>1. IsList(s) /\ Len(s) = 1 /\ s[1] = i
    BY ShortLists
  <2> HIDE DEF s
  <2> QED BY <1>3, <2>1 DEF Quiet, s
<1>4. Quiet(<<a>>) /\ Quiet(<<j>>) /\ Quiet(<<n>>)
  BY <1>1, <1>3
<1>5. Quiet(<<j, a>>)
  BY <1>4, QuietConcat, Joined
<1>6. Quiet(JmpIf(r, l))
  BY <1>2, <1>4 DEF JmpIf, j
<1> QED BY <1>2, <1>4, <1>5, <1>6, QuietConcat DEF a, j, n

LEMMA QuietTenable ==
    ASSUME NEW h, NEW c, IsList(c), NEW s, Quiet(s), NEW C, Tenable(h, c, C)
    PROVE  Tenable(h, c \o s, C)
<1> DEFINE d == c \o s
           n == Len(c)
<1>1. PICK U \in Typings : Typed(h, c, U) /\ Holds(c, U, C)
  BY DEF Tenable
<1>2. /\ Len(d) = n + Len(s) /\ n \in Nat /\ Len(s) \in Nat
      /\ \A k \in 1..n : d[k] = c[k]
      /\ \A k \in 1..Len(s) : d[n + k] = s[k]
  BY ListConcat, ListLength DEF Quiet
<1>3. Holds(d, U, C)
  BY <1>1, DefinedMore DEF Quiet
<1> HIDE DEF d
<1>4. ASSUME NEW k \in 1..Len(d)
      PROVE  Rule(h, U, d[k]) /\ \A text \in UsedBy(d[k]) : \E j \in 1..(k - 1) : DefinesAt(d, j, text)
  <2>1. CASE k \in 1..n
    <3>1. /\ Rule(h, U, c[k]) /\ d[k] = c[k]
          /\ \A text \in UsedBy(c[k]) : \E j \in 1..(k - 1) : DefinesAt(c, j, text)
      BY <1>1, <1>2, <2>1 DEF Typed
    <3>2. \A j \in 1..(k - 1) : d[j] = c[j]
      BY <1>2, <2>1
    <3> QED BY <3>1, <3>2 DEF DefinesAt
  <2>2. CASE k \notin 1..n
    <3>1. k - n \in 1..Len(s) /\ k = n + (k - n)
      BY <1>2, <2>2
    <3>2. d[k] = s[k - n]
      BY <1>2, <3>1
    <3> QED BY <3>1, <3>2 DEF Quiet, Silent
  <2> QED BY <2>1, <2>2
<1>5. Typed(h, d, U)
  BY <1>4 DEF Typed
<1> QED BY <1>1, <1>3, <1>5 DEF Tenable, d

(***************************************************************************)
(* The claims of frames and scopes.                                        *)
(***************************************************************************)

LEMMA FrameClaimsFacts ==
    ASSUME NEW fs, IsList(fs)
    PROVE  /\ \A f : FrameClaims(Append(fs, f)) \subseteq FrameClaims(fs) \cup FrameClaim(f)
           /\ Len(fs) >= 1 => FrameClaims(SubSeq(fs, 1, Len(fs) - 1)) \subseteq FrameClaims(fs)
<1>0. Len(fs) \in Nat
  BY ListLength
<1>1. ASSUME NEW f
      PROVE  FrameClaims(Append(fs, f)) \subseteq FrameClaims(fs) \cup FrameClaim(f)
  <2> DEFINE gs == Append(fs, f)
  <2>1. /\ Len(gs) = Len(fs) + 1 /\ gs[Len(fs) + 1] = f
        /\ \A k \in 1..Len(fs) : gs[k] = fs[k]
    BY ListAppend
  <2>2. 1..(Len(fs) + 1) = 1..Len(fs) \cup {Len(fs) + 1}
    BY <1>0
  <2> HIDE DEF gs
  <2> QED BY <2>1, <2>2 DEF FrameClaims, gs
<1>2. ASSUME Len(fs) >= 1
      PROVE  FrameClaims(SubSeq(fs, 1, Len(fs) - 1)) \subseteq FrameClaims(fs)
  <2> DEFINE gs == SubSeq(fs, 1, Len(fs) - 1)
  <2>1. Len(gs) = Len(fs) - 1 /\ \A k \in 1..(Len(fs) - 1) : gs[k] = fs[k]
    BY <1>2, ListFront
  <2>2. \A k \in 1..(Len(fs) - 1) : k \in 1..Len(fs)
    BY <1>0
  <2> HIDE DEF gs
  <2> QED BY <2>1, <2>2 DEF FrameClaims, gs
<1> QED BY <1>1, <1>2

LEMMA ScopeClaimsFacts ==
    ASSUME NEW sc, IsList(sc)
    PROVE  /\ ScopeClaims(Append(sc, NoNames)) \subseteq ScopeClaims(sc)
           /\ Len(sc) >= 1 => ScopeClaims(SubSeq(sc, 1, Len(sc) - 1)) \subseteq ScopeClaims(sc)
<1>0. Len(sc) \in Nat
  BY ListLength
<1>1. NameClaims(NoNames) = {}
  BY DEF NameClaims, NoNames
<1>2. ScopeClaims(Append(sc, NoNames)) \subseteq ScopeClaims(sc)
  <2> DEFINE rc == Append(sc, NoNames)
  <2>1. /\ Len(rc) = Len(sc) + 1 /\ rc[Len(sc) + 1] = NoNames
        /\ \A k \in 1..Len(sc) : rc[k] = sc[k]
    BY ListAppend
  <2>2. 1..(Len(sc) + 1) = 1..Len(sc) \cup {Len(sc) + 1}
    BY <1>0
  <2> HIDE DEF rc
  <2> QED BY <1>1, <2>1, <2>2 DEF ScopeClaims, rc
<1>3. ASSUME Len(sc) >= 1
      PROVE  ScopeClaims(SubSeq(sc, 1, Len(sc) - 1)) \subseteq ScopeClaims(sc)
  <2> DEFINE rc == SubSeq(sc, 1, Len(sc) - 1)
  <2>1. Len(rc) = Len(sc) - 1 /\ \A k \in 1..(Len(sc) - 1) : rc[k] = sc[k]
    BY <1>3, ListFront
  <2>2. \A k \in 1..(Len(sc) - 1) : k \in 1..Len(sc)
    BY <1>0
  <2> HIDE DEF rc
  <2> QED BY <2>1, <2>2 DEF ScopeClaims, rc
<1> QED BY <1>2, <1>3

\* A new variable adds the claim of its slot.
LEMMA DeclaredClaims ==
    ASSUME TypeInv, FramesNest, mode \in Working, NEW x \in Names, NEW sym, DeclareLocal(x, sym)
    PROVE  ScopeClaims(scopes') \subseteq ScopeClaims(scopes) \cup {SlotClaim(sym)}
<1> DEFINE n  == Len(scopes)
           rc == [scopes EXCEPT ![n][x] = sym]
<1>1. /\ n \in Nat /\ n >= 1 /\ DOMAIN scopes = 1..n /\ n \in 1..n
      /\ scopes \in Seq([Names -> GoodSymbols])
  BY ScopeMoves, SeqFacts DEF TypeInv
<1>2. scopes[n] \in [Names -> GoodSymbols]
  BY <1>1
<1>3. scopes' = rc
  BY DEF DeclareLocal
<1> DEFINE e == [scopes[n] EXCEPT ![x] = sym]
<1>4. rc = [scopes EXCEPT ![n] = e]
  OBVIOUS
<1>5. e[x] = sym /\ \A y \in Names : y # x => e[y] = scopes[n][y]
  BY <1>2
<1> HIDE DEF e
<1>6. Len(rc) = n /\ rc[n] = e /\ \A i \in 1..n : i # n => rc[i] = scopes[i]
  <2> DEFINE S == [Names -> GoodSymbols] \cup {e}
  <2>1. scopes \in Seq(S) /\ e \in S
    BY <1>1
  <2> HIDE DEF S, rc, n
  <2>2. Len([scopes EXCEPT ![n] = e]) = Len(scopes)
    BY <1>1, <2>1, ExceptSeq DEF n
  <2>3. /\ [scopes EXCEPT ![n] = e][n] = e
        /\ \A i \in 1..n : i # n => [scopes EXCEPT ![n] = e][i] = scopes[i]
    BY <1>1
  <2> QED BY <1>4, <2>2, <2>3 DEF n
<1> HIDE DEF rc
<1>7. NameClaims(e) \subseteq NameClaims(scopes[n]) \cup {SlotClaim(sym)}
  <2> SUFFICES ASSUME NEW y \in Names, e[y] # Undeclared
               PROVE  SlotClaim(e[y]) \in NameClaims(scopes[n]) \cup {SlotClaim(sym)}
    BY DEF NameClaims
  <2>1. CASE y = x
    BY <1>5, <2>1
  <2>2. CASE y # x
    BY <1>5, <2>2 DEF NameClaims
  <2> QED BY <2>1, <2>2
<1>8. NameClaims(scopes[n]) \subseteq ScopeClaims(scopes)
  BY <1>1 DEF ScopeClaims
<1>9. \A i \in 1..n : NameClaims(rc[i]) \subseteq ScopeClaims(scopes) \cup {SlotClaim(sym)}
  <2> TAKE i \in 1..n
  <2>1. CASE i = n
    BY <1>6, <1>7, <1>8, <2>1
  <2>2. CASE i # n
    BY <1>6, <2>2 DEF ScopeClaims
  <2> QED BY <2>1, <2>2
<1>10. ScopeClaims(rc) \subseteq ScopeClaims(scopes) \cup {SlotClaim(sym)}
  <2> HIDE DEF n
  <2> QED BY <1>6, <1>9 DEF ScopeClaims
<1> QED BY <1>3, <1>10

\* What a step that declares nothing does to the claims of the two stacks.
KeepsClaims ==
    /\ FrameClaims(frames') \subseteq FrameClaims(frames)
    /\ ScopeClaims(scopes') \subseteq ScopeClaims(scopes)

LEMMA ClaimsKept ==
    ASSUME FramesNest, mode \in Working,
           PushScope \/ PopScope \/ scopes' = scopes,
           \/ frames' = frames \/ frames' = Pop
           \/ \E f, k : /\ HasKind(f, k) /\ k # "decl"
                        /\ frames' = Append(frames, f) \/ frames' = ReplaceTop(f)
    PROVE  KeepsClaims
<1>1. IsList(frames) /\ Len(frames) >= 1 /\ IsList(scopes) /\ Len(scopes) >= 1
  BY ScopeMoves DEF FramesNest, Nested
<1>2. ScopeClaims(scopes') \subseteq ScopeClaims(scopes)
  BY <1>1, ScopeClaimsFacts DEF PushScope, PopScope
<1>3. FrameClaims(Pop) \subseteq FrameClaims(frames) /\ IsList(Pop)
  BY <1>1, FrameClaimsFacts, ListFront DEF Pop
<1>4. ASSUME NEW f, NEW k, HasKind(f, k), k # "decl"
      PROVE  /\ FrameClaims(Append(frames, f)) \subseteq FrameClaims(frames)
             /\ FrameClaims(ReplaceTop(f)) \subseteq FrameClaims(frames)
  <2>1. FrameClaim(f) = {}
    BY <1>4 DEF FrameClaim, HasKind
  <2>2. FrameClaims(Append(frames, f)) \subseteq FrameClaims(frames) \cup FrameClaim(f)
    BY <1>1, FrameClaimsFacts
  <2>3. FrameClaims(Append(Pop, f)) \subseteq FrameClaims(Pop) \cup FrameClaim(f)
    BY <1>3, FrameClaimsFacts
  <2> QED BY <1>3, <2>1, <2>2, <2>3 DEF ReplaceTop
<1>5. FrameClaims(frames') \subseteq FrameClaims(frames)
  BY <1>3, <1>4
<1> QED BY <1>2, <1>5 DEF KeepsClaims

LEMMA ClaimsRemain ==
    ASSUME header' = header, NEW C, Tenable(header, code', C), EntryClaims(vals') \subseteq C,
           FrameClaims(frames') \subseteq C, ScopeClaims(scopes') \subseteq C
    PROVE  Explained'
<1> DEFINE next == Now'
<1>1. next \subseteq C
  BY DEF Now, Claims
<1> HIDE DEF next
<1>2. Tenable(header, code', next)
  BY <1>1, FewerClaims
<1> QED BY <1>2 DEF Explained, next

LEMMA NoEntryClaims == EntryClaims(<<>>) = {}
BY EmptyList DEF EntryClaims

LEMMA KeptClaims ==
    ASSUME KeepsClaims, vals' = vals \/ vals' = <<>>
    PROVE  /\ EntryClaims(vals') \subseteq Now
           /\ FrameClaims(frames') \subseteq Now
           /\ ScopeClaims(scopes') \subseteq Now
BY NoEntryClaims DEF KeepsClaims, Now, Claims

LEMMA QuietExplained ==
    ASSUME TypeInv, Explained, header' = header, KeepsClaims, vals' = vals \/ vals' = <<>>,
           code' = code \/ \E s : Quiet(s) /\ code' = code \o s
    PROVE  Explained'
<1>1. IsList(code)
  BY DEF TypeInv, IsList
<1>2. Tenable(header, code', Now)
  BY <1>1, QuietTenable DEF Explained
<1> QED BY <1>2, KeptClaims, ClaimsRemain

\* The statements that do not declare a variable.
PlainStatement ==
    \/ ParametersDone \/ StartBlock \/ EndBlock \/ EmptyStatement
    \/ ExpressionStatement \/ ReturnStatement \/ BareReturn
    \/ IfStatement \/ ThenDone \/ ThenElseDone \/ ElseDone
    \/ WhileStatement \/ WhileDone
    \/ \E hasInit \in BOOLEAN : ForStatement(hasInit)
    \/ \E hasCond \in BOOLEAN : ForInitDone(hasCond)
    \/ ForBodyDoneWithPost \/ ForBodyDone

LEMMA PlainStatementsQuiet ==
    ASSUME PlainStatement
    PROVE  /\ header' = header /\ vals' = vals
           /\ code' = code \/ \E s : Quiet(s) /\ code' = code \o s
<1>1. header' = header /\ vals' = vals
  BY DEF PlainStatement, ParametersDone, StartBlock, EndBlock, EmptyStatement,
         ExpressionStatement, ReturnStatement, BareReturn, IfStatement, ThenDone, ThenElseDone,
         ElseDone, WhileStatement, WhileDone, ForStatement, ForInitDone, ForBodyDoneWithPost,
         ForBodyDone, unchangedByStatements
<1> DEFINE Goal == code' = code \/ \E s : Quiet(s) /\ code' = code \o s
<1> SUFFICES Goal
  BY <1>1
<1>2. CASE \/ ParametersDone \/ StartBlock \/ EndBlock \/ EmptyStatement
           \/ ExpressionStatement \/ ReturnStatement \/ IfStatement
           \/ \E hasInit \in BOOLEAN : ForStatement(hasInit)
  BY <1>2 DEF ParametersDone, StartBlock, EndBlock, EmptyStatement, ExpressionStatement,
              ReturnStatement, IfStatement, ForStatement
<1>3. CASE BareReturn
  BY <1>3, QuietLists DEF BareReturn, Emit
<1>4. CASE ThenDone \/ WhileStatement \/ WhileDone \/ ForBodyDoneWithPost \/ ThenElseDone
  BY <1>4, QuietLists
     DEF ThenDone, WhileStatement, WhileDone, ForBodyDoneWithPost, ThenElseDone, Emit
<1>5. CASE ElseDone
  <2> DEFINE e == IF top.flag \/ reachable THEN <<Label(top.end)>> ELSE <<>>
             j == JmpIf(reachable, top.end)
  <2>1. code' = code \o (j \o e)
    BY <1>5 DEF ElseDone, Emit
  <2>2. Quiet(j) /\ Quiet(e)
    BY QuietLists
  <2> HIDE DEF j, e
  <2> QED BY <2>1, <2>2, QuietConcat
<1>6. ASSUME NEW hasCond \in BOOLEAN, ForInitDone(hasCond) PROVE Goal
  <2> DEFINE n == nextLabelID
             enter == <<Jmp(n), Label(n)>>
             again == <<Jmp(n + 1), Label(n + 1)>>
  <2>1. code' = code \o enter \/ code' = code \o (enter \o again)
    BY <1>6 DEF ForInitDone, Emit
  <2>2. Quiet(enter) /\ Quiet(again)
    BY QuietLists
  <2> HIDE DEF enter, again
  <2> QED BY <2>1, <2>2, QuietConcat
<1>7. CASE ForBodyDone
  <2> DEFINE a == JmpIf(reachable, top.alt) \o <<Label(top.alt)>>
             b == JmpIf(reachable, top.head)
             c == <<Label(top.end)>>
  <2>1. code' = code \o ((a \o b) \o c)
    BY <1>7 DEF ForBodyDone, Emit
  <2>2. Quiet(a) /\ Quiet(b) /\ Quiet(c)
    BY QuietLists
  <2> HIDE DEF a, b, c
  <2> QED BY <2>1, <2>2, QuietConcat
<1> HIDE DEF Goal
<1> QED BY <1>2, <1>3, <1>4, <1>5, <1>6, <1>7 DEF PlainStatement, Goal

LEMMA PlainStatementsKeepClaims ==
    ASSUME FramesNest, PlainStatement
    PROVE  KeepsClaims
<1>1. ASSUME NEW f, NEW k, HasKind(f, k), k # "decl", mode \in Working,
             frames' = Append(frames, f) \/ frames' = ReplaceTop(f),
             PushScope \/ PopScope \/ scopes' = scopes
      PROVE  KeepsClaims
  BY <1>1, ClaimsKept
<1>2. \A k : HasKind(Frame(k), k)
  BY FrameKind
<1>3. mode \in {"after", "stmt", "params"} => mode \in Working
  BY DEF Working
<1>4. CASE ParametersDone \/ EmptyStatement
  BY <1>3, <1>4, ClaimsKept DEF ParametersDone, EmptyStatement, NeedStmt
<1>5. CASE EndBlock \/ ThenDone \/ ElseDone \/ WhileDone
  BY <1>3, <1>5, ClaimsKept DEF EndBlock, ThenDone, ElseDone, WhileDone
<1>6. CASE StartBlock
  BY <1>1, <1>2, <1>6, StartFacts DEF StartBlock
<1>7. CASE ExpressionStatement
  BY <1>1, <1>2, <1>7, StartFacts DEF ExpressionStatement
<1>8. CASE ReturnStatement
  BY <1>1, <1>2, <1>8, StartFacts DEF ReturnStatement
<1>9. CASE BareReturn
  BY <1>9, StartFacts, ClaimsKept DEF BareReturn
<1>10. CASE IfStatement
  BY <1>1, <1>2, <1>10, StartFacts DEF IfStatement
<1>11. CASE ThenElseDone
  <2> DEFINE f == [top EXCEPT !.kind = "else", !.alt = NoLabel, !.flag = reachable]
  <2>1. mode \in Working /\ frames' = ReplaceTop(f) /\ scopes' = scopes
    BY <1>3, <1>11 DEF ThenElseDone
  <2>2. HasKind(f, "else")
    BY <2>1, TopKind
  <2> HIDE DEF f
  <2> QED BY <1>1, <2>1, <2>2
<1>12. CASE WhileStatement
  <2> DEFINE f == [Frame("whileCond") EXCEPT !.head = nextLabelID,
                      !.body = nextLabelID + 1, !.end = nextLabelID + 2]
  <2>1. mode \in Working /\ frames' = Append(frames, f) /\ scopes' = scopes
    BY <1>12, StartFacts DEF WhileStatement
  <2>2. HasKind(f, "whileCond")
    BY FrameKind
  <2> HIDE DEF f
  <2> QED BY <1>1, <2>1, <2>2
<1>13. ASSUME NEW hasInit \in BOOLEAN, ForStatement(hasInit) PROVE KeepsClaims
  <2>1. mode \in Working /\ frames' = Append(frames, Frame("forInit")) /\ PushScope
    BY <1>13, StartFacts DEF ForStatement
  <2> QED BY <1>1, <1>2, <2>1
<1>14. ASSUME NEW hasCond \in BOOLEAN, ForInitDone(hasCond) PROVE KeepsClaims
  <2> DEFINE f == [Frame("forCond") EXCEPT !.head = nextLabelID, !.body = nextLabelID + 1,
                      !.alt = nextLabelID + 2, !.end = nextLabelID + 3]
             g == [f EXCEPT !.kind = "forBody", !.body = NoLabel]
  <2>1. /\ mode \in Working /\ UNCHANGED scopes
        /\ frames' = ReplaceTop(f) \/ frames' = ReplaceTop(g)
    BY <1>3, <1>14 DEF ForInitDone
  <2>2. HasKind(f, "forCond")
    BY FrameKind
  <2>3. HasKind(g, "forBody")
    <3> HIDE DEF f
    <3> QED BY <2>2 DEF HasKind, IsFrame
  <2> HIDE DEF f, g
  <2> QED BY <1>1, <2>1, <2>2, <2>3
<1>15. CASE ForBodyDoneWithPost
  <2> DEFINE f == [top EXCEPT !.kind = "forPost", !.alt = NoLabel]
  <2>1. mode \in Working /\ frames' = ReplaceTop(f) /\ scopes' = scopes
    BY <1>3, <1>15 DEF ForBodyDoneWithPost
  <2>2. HasKind(f, "forPost")
    BY <2>1, TopKind
  <2> HIDE DEF f
  <2> QED BY <1>1, <2>1, <2>2
<1>16. CASE ForBodyDone
  BY <1>3, <1>16, ClaimsKept DEF ForBodyDone, LeaveFor
<1> QED BY <1>4, <1>5, <1>6, <1>7, <1>8, <1>9, <1>10, <1>11, <1>12, <1>13, <1>14, <1>15, <1>16
       DEF PlainStatement

(***************************************************************************)
(* Declarations.                                                           *)
(***************************************************************************)

LEMMA DeclarationTenable ==
    ASSUME TypeInv, NamesBelowCounter, Explained, NEW x, NEW t \in Types,
           DeclarationError(x, t) = NoDiagnostic
    PROVE  Tenable(header, code \o <<Alloca(NewVariable(t))>>,
                   Now \cup {SlotClaim(NewVariable(t))})
<1> DEFINE sym == NewVariable(t)
           n   == nextTempID + 1
           i   == Alloca(sym)
<1>0. nextTempID \in Nat /\ n \in Nat /\ nextTempID <= n /\ code \in Seq(GoodInstructions)
  BY DEF TypeInv
<1>1. i \in GoodInstructions
  BY VariableTyped
<1>2. sym.slot = StackSlot(n) /\ sym.type = t
  BY DEF NewVariable, Symbol
<1>3. i = Op("alloca", StackSlot(n), <<Immediate(<<"type", t>>)>>)
  <2> HIDE DEF sym
  <2> QED BY <1>2 DEF Alloca
<1>4. i.kind = "op" /\ i.dst = StackSlot(n) /\ UsedBy(i) = {}
  BY <1>2, AllocaFacts
<1>5. SlotClaim(sym) = <<i.dst, PointerTo(t)>>
  BY <1>2, <1>4 DEF SlotClaim
<1> HIDE DEF sym, n
<1>6. i.dst.kind \in OwnKinds /\ i.dst.text \in OwnTexts
  BY <1>0, <1>4, NewNames
<1>7. NumberedBelow(code, nextTempID)
  BY DEF NamesBelowCounter, Fresh, NumberedBelow
<1>8. i.dst.text \notin DefinedIn(code)
  BY <1>0, <1>4, <1>7, NamesFresh
<1>9. \A U \in Typings : Holds(code, U, Now) /\ U[i.dst.text] = PointerTo(t) =>
          Rule(header, U, i) /\ UsedBy(i) \subseteq DefinedIn(code)
  <2> SUFFICES ASSUME NEW U \in Typings, U[StackSlot(n).text] = PointerTo(t)
               PROVE  Rule(header, U, i)
    BY <1>4
  <2> QED BY <1>0, <1>3, AllocaRule
<1>10. PointerTo(t) \in Types
  BY TypeFacts
<1> HIDE DEF i
<1>11. Tenable(header, code \o <<i>>, Now \cup {<<i.dst, PointerTo(t)>>})
  BY <1>0, <1>1, <1>4, <1>6, <1>8, <1>9, <1>10, DefinitionTenable DEF Explained
<1> QED BY <1>5, <1>11 DEF i, sym

LEMMA StackParts ==
    /\ EntryClaims(vals) \subseteq Now
    /\ FrameClaims(frames) \subseteq Now
    /\ ScopeClaims(scopes) \subseteq Now
BY DEF Now, Claims

LEMMA DeclarationExplained ==
    ASSUME TypeInv, FramesNest, NamesBelowCounter, Explained,
           NEW x \in Names, NEW t \in DeclTypes, NEW i \in BOOLEAN, DeclarationStatement(x, t, i)
    PROVE  Explained'
<1> DEFINE sym == NewVariable(LowerType(t))
           f   == [Frame("decl") EXCEPT !.decl = sym]
           a   == Alloca(sym)
           C   == Now \cup {SlotClaim(sym)}
<1>1. /\ DeclarationError(x, sym.type) = NoDiagnostic /\ DeclareLocal(x, sym)
      /\ code' = code \o <<a>> /\ header' = header /\ vals' = vals
      /\ frames' = frames \/ frames' = Append(frames, f)
      /\ StartSimpleStatement
  BY DEF DeclarationStatement, Emit, unchangedByStatements
<1>2. LowerType(t) \in Types /\ sym.type = LowerType(t)
  BY TypeFacts, DeclTypesAssumption DEF NewVariable, Symbol
<1>3. Tenable(header, code \o <<a>>, C)
  BY <1>1, <1>2, DeclarationTenable
<1>4. mode \in Working
  BY <1>1, StartFacts
<1>5. FrameClaim(f) \subseteq {SlotClaim(sym)}
  BY DEF FrameClaim, Frame
<1> HIDE DEF f, sym, a
<1>6. ScopeClaims(scopes') \subseteq C
  BY <1>1, <1>4, DeclaredClaims, StackParts
<1>7. FrameClaims(frames') \subseteq C
  <2>1. IsList(frames)
    BY DEF FramesNest, Nested
  <2>2. FrameClaims(Append(frames, f)) \subseteq FrameClaims(frames) \cup FrameClaim(f)
    BY <2>1, FrameClaimsFacts
  <2> QED BY <1>1, <1>5, <2>2, StackParts
<1>8. EntryClaims(vals') \subseteq C
  BY <1>1, StackParts
<1> HIDE DEF C
<1> QED BY <1>1, <1>3, <1>6, <1>7, <1>8, ClaimsRemain

(***************************************************************************)
(* The parameters: each is lowered once, in order, and two of the same     *)
(* name are refused.                                                       *)
(***************************************************************************)

DistinctParameters(h) ==
    \A j, k \in 1..Len(h.params) : h.params[j].name = h.params[k].name => j = k

Declared(n) ==
    /\ params = SubSeq(header.params, n + 1, Len(header.params))
    /\ \A k \in 1..n : scopes[Len(scopes)][header.params[k].name] # Undeclared
    /\ \A j, k \in 1..n : header.params[j].name = header.params[k].name => j = k

ParametersInv ==
    /\ mode = "params" => \E n \in 0..Len(header.params) : Declared(n)
    /\ mode \notin {"params", "rejected"} => DistinctParameters(header)

LEMMA ParameterOfName ==
    ASSUME NEW h \in Headers, DistinctParameters(h), NEW k \in 1..Len(h.params)
    PROVE  ParameterOf(h, h.params[k].name) = h.params[k]
<1>1. DOMAIN h.params = 1..Len(h.params)
  BY HeadersAssumption
<1> DEFINE S == {h.params[j] : j \in DOMAIN h.params}
<1>2. h.params[k] \in S
  BY <1>1
<1>3. \A p \in S : p.name = h.params[k].name => p = h.params[k]
  BY <1>1 DEF DistinctParameters
<1> HIDE DEF S
<1>4. (CHOOSE p \in S : p.name = h.params[k].name) = h.params[k]
  BY <1>2, <1>3
<1> QED BY <1>4 DEF ParameterOf, S

\* The parameter lowered next.
LEMMA NextParameter ==
    ASSUME TypeInv, NEW n \in 0..Len(header.params), Declared(n), params # <<>>
    PROVE  /\ n + 1 \in 1..Len(header.params)
           /\ Head(params) = header.params[n + 1] /\ Head(params) \in Parameters
           /\ Tail(params) = SubSeq(header.params, (n + 1) + 1, Len(header.params))
<1> DEFINE ps == header.params
<1>1. ps \in Seq(Parameters) /\ Len(ps) \in Nat
  BY HeadersAssumption DEF TypeInv
<1>2. params = SubSeq(ps, n + 1, Len(ps))
  BY DEF Declared
<1> HIDE DEF ps
<1>3. n + 1 \in 1..Len(ps)
  <2> SUFFICES ASSUME n = Len(ps) PROVE FALSE
    BY <1>1 DEF ps
  <2>1. Len(params) = 0 /\ params \in Seq(Parameters)
    BY <1>1, <1>2
  <2> QED BY <2>1
<1>4. Head(params) = ps[n + 1] /\ ps[n + 1] \in Parameters
  BY <1>1, <1>2, <1>3
<1>5. Tail(params) = SubSeq(ps, (n + 1) + 1, Len(ps))
  BY <1>1, <1>2, <1>3
<1> QED BY <1>3, <1>4, <1>5 DEF ps

LEMMA ParameterExplained ==
    ASSUME TypeInv, FramesNest, NamesBelowCounter, Explained, ParametersInv,
           DistinctParameters(header), LowerParameter
    PROVE  Explained'
<1> DEFINE p   == Head(params)
           t   == LowerType(p.type)
           sym == NewVariable(t)
           a   == Alloca(sym)
           b   == Store(sym.slot, Param(p.name))
           C   == Now \cup {SlotClaim(sym)}
<1>1. mode = "params" /\ mode \in Working /\ params # <<>>
  BY DEF LowerParameter, Working
<1>2. PICK n \in 0..Len(header.params) : Declared(n)
  BY <1>1 DEF ParametersInv
<1>3. n + 1 \in 1..Len(header.params) /\ p = header.params[n + 1] /\ p \in Parameters
  BY <1>1, <1>2, NextParameter
<1>4. ParameterOf(header, p.name) = p
  BY <1>3, ParameterOfName DEF TypeInv
<1>5. t \in Types /\ p.name \in Names /\ sym.type = t
  BY <1>3, TypeFacts DEF Parameters, NewVariable, Symbol
<1>6. CASE DeclarationError(p.name, sym.type) # NoDiagnostic
  BY <1>6, RejectExplained DEF LowerParameter
<1>7. CASE DeclarationError(p.name, sym.type) = NoDiagnostic
  <2>1. /\ DeclareLocal(p.name, sym) /\ code' = code \o <<a, b>>
        /\ header' = header /\ frames' = frames /\ vals' = vals
    BY <1>7 DEF LowerParameter, Emit
  <2>2. Tenable(header, code \o <<a>>, C)
    BY <1>5, <1>7, DeclarationTenable
  <2>3. IsList(code)
    BY DEF TypeInv, IsList
  <2> DEFINE v == Param(p.name)
             s == sym.slot
  <2>4. <<s, PointerTo(t)>> \in C
    BY <1>5 DEF SlotClaim
  <2>5. b = Op("store", NoOperand, <<s, v>>)
    BY DEF Store
  <2>6. v.kind = "param" /\ v.text = p.name
    BY DEF Param, Operand
  <2>7. \A U : TypeIn(header, U, v) = t
    BY <1>4, <2>6 DEF TypeIn
  <2>s. Sourced(header, v)
    <3>1. n + 1 \in DOMAIN header.params
      BY <1>3, HeadersAssumption DEF TypeInv
    <3> QED BY <1>3, <2>6, <3>1 DEF Sourced
  <2>8. TextsOf({v}) = {}
    BY UnusedTexts
  <2> DEFINE d == code \o <<a>>
  <2>9. IsList(d) /\ d \o <<b>> = code \o <<a, b>>
    <3> HIDE DEF a, b
    <3>1. IsList(<<a>>) /\ IsList(<<b>>) /\ <<a>> \o <<b>> = <<a, b>>
      BY ShortLists, Joined
    <3>2. code \o (<<a>> \o <<b>>) = (code \o <<a>>) \o <<b>>
      BY <2>3, <3>1, ConcatFacts
    <3> QED BY <2>3, <3>1, <3>2, ListConcat
  <2> HIDE DEF a, v, s, C, d, t, sym, p
  <2>10. ASSUME NEW U \in Typings, Holds(d, U, C)
         PROVE  Rule(header, U, b) /\ UsedBy(b) \subseteq DefinedIn(d)
    <3> DEFINE z == PointerTo(t)
    <3>a. Holds(d, U, C) /\ <<s, z>> \in C
      BY <2>4, <2>10
    <3> HIDE DEF z
    <3>b. TypeIn(header, U, s) = z
      BY <3>a, ClaimedType
    <3>c. TextsOf({s}) \subseteq DefinedIn(d) /\ s.kind \in OwnKinds
      BY <3>a, Claimed
    <3>1. TypeIn(header, U, s) = PointerTo(t) /\ TextsOf({s}) \subseteq DefinedIn(d)
      BY <3>b, <3>c DEF z
    <3> DEFINE op == "store"
    <3>2. op \in {"store", "storeInd"} /\ b = Op(op, NoOperand, <<s, v>>)
      BY <2>5
    <3> HIDE DEF op, b
    <3>3. Rule(header, U, b)
      BY <2>7, <2>s, <3>1, <3>2, <3>c, OwnSourced, StoreRule
    <3>4. UsedBy(b) \subseteq DefinedIn(d)
      BY <2>8, <3>1, <3>2, PairUses
    <3> QED BY <3>3, <3>4
  <2> HIDE DEF b
  <2>11. Tenable(header, d \o <<b>>, C)
    BY <2>2, <2>9, <2>10, UseTenable DEF d
  <2>12. ScopeClaims(scopes') \subseteq C
    <3> QED BY <1>1, <1>5, <2>1, DeclaredClaims, StackParts DEF C
  <2>13. FrameClaims(frames') \subseteq C /\ EntryClaims(vals') \subseteq C
    BY <2>1, StackParts DEF C
  <2> QED BY <2>1, <2>9, <2>11, <2>12, <2>13, ClaimsRemain
<1> QED BY <1>6, <1>7

LEMMA ParameterLowered ==
    ASSUME TypeInv, FramesNest, ParametersInv, LowerParameter
    PROVE  ParametersInv'
<1> DEFINE p   == Head(params)
           sym == NewVariable(LowerType(p.type))
           m   == Len(scopes)
           ps  == header.params
<1>1. mode = "params" /\ mode \in Working /\ params # <<>>
  BY DEF LowerParameter, Working
<1>2. PICK n \in 0..Len(header.params) : Declared(n)
  BY <1>1 DEF ParametersInv
<1>3. /\ n + 1 \in 1..Len(ps) /\ p = ps[n + 1] /\ p \in Parameters
      /\ Tail(params) = SubSeq(ps, (n + 1) + 1, Len(ps))
  BY <1>1, <1>2, NextParameter
<1>4. CASE DeclarationError(p.name, sym.type) # NoDiagnostic
  <2>1. mode' = "rejected"
    BY <1>4 DEF LowerParameter, Reject
  <2> QED BY <2>1 DEF ParametersInv
<1>5. CASE DeclarationError(p.name, sym.type) = NoDiagnostic
  <2>1. /\ DeclareLocal(p.name, sym) /\ header' = header /\ mode' = "params"
        /\ params' = Tail(params)
    BY <1>1, <1>5 DEF LowerParameter
  <2>2. scopes[m][p.name] = Undeclared /\ sym.type # Void
    BY <1>5 DEF DeclarationError, NoDiagnostic
  <2>3. sym # Undeclared
    BY <2>2 DEF Undeclared, Symbol
  <2>4. /\ m \in Nat /\ m >= 1 /\ DOMAIN scopes = 1..m /\ m \in 1..m
        /\ scopes \in Seq([Names -> GoodSymbols])
    BY <1>1, ScopeMoves, SeqFacts DEF TypeInv
  <2>5. scopes[m] \in [Names -> GoodSymbols] /\ p.name \in Names
    BY <1>3, <2>4 DEF Parameters
  <2>6. IsList(scopes') /\ Len(scopes') = m
    BY <1>1, <2>1, ScopeMoves
  <2> DEFINE e == [scopes[m] EXCEPT ![p.name] = sym]
  <2>7. scopes'[m] = e
    BY <2>1, <2>4 DEF DeclareLocal
  <2>8. \A x \in Names : scopes'[m][x] = IF x = p.name THEN sym ELSE scopes[m][x]
    BY <2>5, <2>7
  <2> HIDE DEF e, sym, p
  <2>9. \A k \in 1..n : k \in 1..Len(ps) /\ ps[k].name \in Names
    <3>1. ps \in Seq(Parameters) /\ Len(ps) \in Nat
      BY HeadersAssumption DEF TypeInv
    <3>2. \A k \in 1..n : k \in 1..Len(ps)
      BY <1>3, <3>1
    <3>3. \A k \in 1..Len(ps) : ps[k] \in Parameters
      BY <3>1, SeqFacts
    <3>4. \A q \in Parameters : q.name \in Names
      BY DEF Parameters
    <3> QED BY <3>2, <3>3, <3>4
  <2>10. \A k \in 1..(n + 1) : k \in 1..n \/ k = n + 1
    BY <1>2
  <2>11. \A k \in 1..(n + 1) : scopes'[m][ps[k].name] # Undeclared
    BY <1>2, <1>3, <2>3, <2>5, <2>8, <2>9, <2>10 DEF Declared
  <2>12. \A k \in 1..n : ps[k].name # p.name
    BY <1>2, <2>2 DEF Declared
  <2>13. \A j, k \in 1..(n + 1) : ps[j].name = ps[k].name => j = k
    BY <1>2, <1>3, <2>10, <2>12 DEF Declared
  <2>14. Declared(n + 1)'
    BY <1>3, <2>1, <2>6, <2>11, <2>13 DEF Declared
  <2>15. n + 1 \in 0..Len(header'.params)
    <3>1. Len(ps) \in Nat
      BY HeadersAssumption DEF TypeInv
    <3> QED BY <1>3, <2>1, <3>1
  <2> QED BY <2>1, <2>14, <2>15 DEF ParametersInv
<1> QED BY <1>4, <1>5

LEMMA ParametersLowered ==
    ASSUME TypeInv, ParametersInv, ParametersDone
    PROVE  ParametersInv'
<1>1. mode = "params" /\ params = <<>> /\ mode' = "after" /\ header' = header
  BY DEF ParametersDone
<1>2. PICK n \in 0..Len(header.params) : Declared(n)
  BY <1>1 DEF ParametersInv
<1>3. header.params \in Seq(Parameters) /\ Len(header.params) \in Nat
  BY HeadersAssumption DEF TypeInv
<1>4. n = Len(header.params)
  <2> DEFINE ps == header.params
  <2>1. SubSeq(ps, n + 1, Len(ps)) = <<>> /\ ps \in Seq(Parameters)
    BY <1>1, <1>2, <1>3 DEF Declared
  <2> HIDE DEF ps
  <2>2. Len(SubSeq(ps, n + 1, Len(ps))) = 0
    BY <2>1, EmptyList
  <2>3. n \in 0..Len(ps)
    BY <1>2 DEF ps
  <2>4. ASSUME n < Len(ps) PROVE FALSE
    <3>1. Len(SubSeq(ps, n + 1, Len(ps))) = Len(ps) - n
      BY <2>1, <2>3, <2>4
    <3> QED BY <2>1, <2>2, <2>3, <2>4, <3>1
  <2> QED BY <2>1, <2>3, <2>4 DEF ps
<1>5. DistinctParameters(header)
  BY <1>2, <1>4 DEF Declared, DistinctParameters
<1> QED BY <1>1, <1>5 DEF ParametersInv, DistinctParameters

\* Every other step comes after the parameters.
Later == mode \notin {"params", "rejected"} /\ mode' # "params" /\ header' = header

LEMMA LaterSteps ==
    ASSUME NamesBelowCounter, [Next]_vars, ~LowerParameter, ~ParametersDone
    PROVE  Later \/ mode' = "rejected" \/ UNCHANGED vars
<1>1. header' = header
  BY EveryStepBuilds DEF Builds
<1>2. \A d : Reject(d) => mode' = "rejected"
  BY DEF Reject
<1>3. CASE StatementStep
  <2>1. StartStatement \/ StartSimpleStatement => mode \notin {"params", "rejected"}
    BY StartFacts DEF Working
  <2>2. CASE \/ \E x \in Names, t \in DeclTypes, i \in BOOLEAN : DeclarationStatement(x, t, i)
             \/ StartBlock \/ ExpressionStatement \/ ReturnStatement \/ BareReturn \/ IfStatement
             \/ WhileStatement \/ \E hasInit \in BOOLEAN : ForStatement(hasInit)
    <3>1. StartStatement \/ StartSimpleStatement
      BY <2>2 DEF DeclarationStatement, StartBlock, ExpressionStatement, ReturnStatement,
                  BareReturn, IfStatement, WhileStatement, ForStatement
    <3>2. mode' # "params"
      BY <2>2 DEF DeclarationStatement, StartBlock, ExpressionStatement, ReturnStatement,
                  BareReturn, IfStatement, WhileStatement, ForStatement, StatementDone
    <3> QED BY <1>1, <2>1, <3>1, <3>2 DEF Later
  <2>3. CASE BadBareReturn \/ \E x \in Names, t \in DeclTypes : BadDeclaration(x, t)
    BY <1>2, <2>3 DEF BadBareReturn, BadDeclaration
  <2>4. CASE \/ EndBlock \/ EmptyStatement \/ ThenDone \/ ThenElseDone \/ ElseDone \/ WhileDone
             \/ \E hasCond \in BOOLEAN : ForInitDone(hasCond)
             \/ ForBodyDoneWithPost \/ ForBodyDone
    <3>1. mode \in {"after", "stmt"} /\ mode' # "params"
      BY <2>4 DEF EndBlock, EmptyStatement, ThenDone, ThenElseDone, ElseDone, WhileDone,
                  ForInitDone, ForBodyDoneWithPost, ForBodyDone, LeaveFor, StatementDone, NeedStmt
    <3> QED BY <1>1, <3>1 DEF Later
  <2>5. CASE EndFunction
    BY <1>1, <1>2, <2>5 DEF EndFunction, Later
  <2> QED BY <1>3, <2>2, <2>3, <2>4, <2>5 DEF StatementStep
<1>4. CASE ExpressionStep
  BY <1>1, <1>2, <1>4, ExpressionsLeaveFrames DEF Later
<1>5. CASE ContinuationStep
  BY <1>1, <1>2, <1>5
     DEF ContinuationStep, ExpressionStatementDone, InitializerDone, ReturnDone, VoidCondition,
         IfConditionDone, IfElseConditionDone, WhileConditionDone, ForConditionDone, ForPostDone,
         EnterBody, ExpressionDone, LeaveFor, StatementDone, Later
<1> QED BY <1>3, <1>4, <1>5, Steps

LEMMA ParametersInductive ==
    ASSUME TypeInv, FramesNest, NamesBelowCounter, ParametersInv, [Next]_vars
    PROVE  ParametersInv'
<1>1. CASE UNCHANGED vars
  BY <1>1 DEF vars, ParametersInv, Declared, DistinctParameters
<1>2. CASE mode' = "rejected"
  BY <1>2 DEF ParametersInv
<1>3. CASE Later
  BY <1>3 DEF Later, ParametersInv, DistinctParameters
<1> QED BY <1>1, <1>2, <1>3, LaterSteps, ParameterLowered, ParametersLowered

LEMMA ParametersInitially ==
    ASSUME Init
    PROVE  ParametersInv
<1>1. mode = "params" /\ params = header.params /\ header \in Headers
  BY DEF Init
<1>2. header.params \in Seq(Parameters)
  BY <1>1, HeadersAssumption
<1>3. SubSeq(header.params, 0 + 1, Len(header.params)) = header.params /\ Len(header.params) \in Nat
  BY <1>2
<1>4. Declared(0) /\ 0 \in 0..Len(header.params)
  BY <1>1, <1>3 DEF Declared
<1> QED BY <1>1, <1>4 DEF ParametersInv

(***************************************************************************)
(* The ends of expressions.                                                *)
(***************************************************************************)

\* An instruction that uses the value just lowered, and what follows it.
LEMMA LastUseExplained ==
    ASSUME TypeInv, Explained, header' = header, KeepsClaims, vals' = <<>>,
           NEW i, NEW s, Quiet(s), code' = code \o (<<i>> \o s),
           \A U \in Typings : Holds(code, U, Now) =>
               Rule(header, U, i) /\ UsedBy(i) \subseteq DefinedIn(code)
    PROVE  Explained'
<1>1. IsList(code) /\ IsList(<<i>>) /\ IsList(s)
  BY ShortLists DEF TypeInv, IsList, Quiet
<1>2. Tenable(header, code \o <<i>>, Now)
  BY <1>1, UseTenable DEF Explained
<1>3. IsList(code \o <<i>>) /\ code' = (code \o <<i>>) \o s
  BY <1>1, ConcatFacts
<1> DEFINE d == code \o <<i>>
<1> HIDE DEF d
<1>4. Tenable(header, d \o s, Now)
  BY <1>2, <1>3, QuietTenable DEF d
<1>5. Tenable(header, code', Now)
  BY <1>3, <1>4 DEF d
<1> QED BY <1>5, KeptClaims, ClaimsRemain

\* The value just lowered.
LEMMA ValueClaim ==
    ASSUME TypeInv, NEW k, ExpressionDone(k), Top(1).type # Void
    PROVE  <<Top(1).operand, Top(1).type>> \in Now
<1>1. 1 \in 1..Len(vals) /\ Top(1).cat = "value"
  BY DEF ExpressionDone
<1>2. EntryClaim(Top(1)) \subseteq Now
  BY <1>1, StackClaims
<1>3. <<Top(1).operand, Top(1).type>> \in EntryClaim(Top(1))
  BY <1>1, EntryClaimsOf
<1> QED BY <1>2, <1>3

LEMMA InitializerExplained ==
    ASSUME TypeInv, FramesNest, Explained, InitializerDone
    PROVE  Explained'
<1>1. ExpressionDone("decl") /\ mode \in Working /\ top.kind = "decl"
  BY ExpressionValue DEF InitializerDone
<1>2. CASE Top(1).type # top.decl.type
  BY <1>2, RejectExplained DEF InitializerDone
<1>3. CASE Top(1).type = top.decl.type
  <2> DEFINE v == top.decl.slot
             w == Top(1).operand
             t == Top(1).type
             i == Store(v, w)
  <2>1. /\ code' = code \o <<i>> /\ header' = header /\ vals' = <<>>
        /\ frames' = Pop /\ scopes' = scopes
    BY <1>3 DEF InitializerDone, Emit, unchangedByContinuations
  <2>2. t # Void
    <3>1. top \in GoodFrames
      BY <1>1, FramesTyped
    <3>2. top.decl \in GoodSymbols \ {Undeclared}
      BY <1>1, <3>1 DEF GoodFrames
    <3> QED BY <1>3, <3>2 DEF GoodSymbols
  <2>3. <<w, t>> \in Now
    BY <1>1, <2>2, ValueClaim
  <2>4. <<v, PointerTo(t)>> \in Now
    <3>1. Len(frames) \in 1..Len(frames)
      BY <1>1, FramesTyped
    <3>2. SlotClaim(top.decl) \in FrameClaim(top)
      BY <1>1 DEF FrameClaim
    <3>3. FrameClaim(top) \subseteq FrameClaims(frames)
      BY <3>1 DEF FrameClaims, top
    <3> QED BY <1>3, <3>2, <3>3, StackParts DEF SlotClaim
  <2>5. KeepsClaims
    BY <1>1, <2>1, ClaimsKept
  <2> DEFINE op == "store"
             z  == PointerTo(t)
  <2>6. i = Op(op, NoOperand, <<v, w>>) /\ op \in {"store", "storeInd"}
    BY DEF Store
  <2>7. code' = code \o (<<i>> \o <<>>) /\ Quiet(<<>>)
    BY <2>1, ShortLists, Joined, QuietLists
  <2>8. <<v, z>> \in Now
    BY <2>4
  <2> HIDE DEF v, w, t, i, op
  <2>9. ASSUME NEW U \in Typings, Holds(code, U, Now)
        PROVE  Rule(header, U, i) /\ UsedBy(i) \subseteq DefinedIn(code)
    <3> HIDE DEF z
    <3>1. TypeIn(header, U, v) = z /\ TypeIn(header, U, w) = t
      BY <2>3, <2>8, <2>9, ClaimedType
    <3>2. TextsOf({v}) \subseteq DefinedIn(code) /\ v.kind \in OwnKinds
      BY <2>8, <2>9, Claimed
    <3>3. TextsOf({w}) \subseteq DefinedIn(code) /\ w.kind \in OwnKinds
      BY <2>3, <2>9, Claimed
    <3>4. Rule(header, U, i)
      BY <2>6, <3>1, <3>2, <3>3, OwnSourced, StoreRule DEF z
    <3> QED BY <2>6, <3>2, <3>3, <3>4, PairUses
  <2> QED BY <2>1, <2>5, <2>7, <2>9, LastUseExplained
<1> QED BY <1>2, <1>3

LEMMA ReturnExplained ==
    ASSUME TypeInv, FramesNest, Explained, ReturnDone
    PROVE  Explained'
<1>1. ExpressionDone("return") /\ mode \in Working
  BY ExpressionValue DEF ReturnDone
<1>2. CASE Top(1).type # LowerType(header.ret) \/ Top(1).type = Void
  BY <1>2, RejectExplained DEF ReturnDone
<1>3. CASE ~(Top(1).type # LowerType(header.ret) \/ Top(1).type = Void)
  <2> DEFINE v == Top(1).operand
             t == LowerType(header.ret)
             i == Ret(v)
  <2>1. /\ code' = code \o <<i>> /\ header' = header /\ vals' = <<>>
        /\ frames' = Pop /\ scopes' = scopes
    BY <1>3 DEF ReturnDone, Emit, unchangedByContinuations
  <2>2. <<v, t>> \in Now
    BY <1>1, <1>3, ValueClaim
  <2>3. KeepsClaims
    BY <1>1, <2>1, ClaimsKept
  <2>4. code' = code \o (<<i>> \o <<>>) /\ Quiet(<<>>)
    BY <2>1, ShortLists, Joined, QuietLists
  <2>5. UsedBy(i) = TextsOf({v})
    BY DEF Ret, UsedBy
  <2> HIDE DEF v
  <2>6. ASSUME NEW U \in Typings, Holds(code, U, Now)
        PROVE  Rule(header, U, i) /\ UsedBy(i) \subseteq DefinedIn(code)
    <3>1. TypeIn(header, U, v) = t
      BY <2>2, <2>6, ClaimedType
    <3>2. TextsOf({v}) \subseteq DefinedIn(code) /\ v.kind \in OwnKinds
      BY <2>2, <2>6, Claimed
    <3>3. Rule(header, U, i)
      BY <3>1, <3>2, OwnSourced, ControlRules
    <3> QED BY <2>5, <3>2, <3>3
  <2> HIDE DEF i
  <2> QED BY <2>1, <2>3, <2>4, <2>6, LastUseExplained
<1> QED BY <1>2, <1>3

LEMMA ConditionExplained ==
    ASSUME TypeInv, FramesNest, Explained, NEW k, ExpressionDone(k), NEW a, NEW b, NEW f,
           EnterBody(a, b, f), NEW j, HasKind(f, j), j # "decl"
    PROVE  Explained'
<1> DEFINE v == Top(1).operand
           t == Top(1).type
           i == Br(v, b, a)
           s == <<Label(b)>>
<1>1. /\ t # Void /\ code' = code \o <<i, Label(b)>> /\ header' = header /\ vals' = <<>>
      /\ frames' = ReplaceTop(f) /\ scopes' = scopes
  BY DEF EnterBody, Emit, unchangedByContinuations
<1>2. mode \in Working
  BY ExpressionValue
<1>3. KeepsClaims
  BY <1>1, <1>2, ClaimsKept
<1>4. <<v, t>> \in Now
  BY <1>1, ValueClaim
<1>5. code' = code \o (<<i>> \o s) /\ Quiet(s)
  BY <1>1, Joined, QuietLists
<1>6. UsedBy(i) = TextsOf({v})
  BY DEF Br, UsedBy
<1> HIDE DEF v, t
<1>7. ASSUME NEW U \in Typings, Holds(code, U, Now)
      PROVE  Rule(header, U, i) /\ UsedBy(i) \subseteq DefinedIn(code)
  <2>1. TextsOf({v}) \subseteq DefinedIn(code) /\ v.kind \in OwnKinds
    BY <1>4, <1>7, Claimed
  <2> QED BY <1>6, <2>1, OwnSourced, ControlRules
<1> HIDE DEF i, s
<1> QED BY <1>1, <1>3, <1>5, <1>7, LastUseExplained

LEMMA ContinuationsExplained ==
    ASSUME TypeInv, FramesNest, Explained, ContinuationStep
    PROVE  Explained'
<1>1. CASE ExpressionStatementDone
  <2>1. /\ code' = code /\ header' = header /\ vals' = <<>> /\ frames' = Pop
        /\ scopes' = scopes /\ ExpressionDone("expr")
    BY <1>1 DEF ExpressionStatementDone, unchangedByContinuations
  <2>2. KeepsClaims
    BY <2>1, ExpressionValue, ClaimsKept
  <2> QED BY <2>1, <2>2, QuietExplained
<1>2. CASE ForPostDone
  <2>1. /\ ExpressionDone("forPost") /\ header' = header /\ vals' = <<>> /\ frames' = Pop
        /\ PopScope /\ code' = code \o <<Jmp(top.head), Label(top.end)>>
    BY <1>2 DEF ForPostDone, LeaveFor, Emit, unchangedByContinuations
  <2>2. KeepsClaims
    BY <2>1, ExpressionValue, ClaimsKept
  <2> QED BY <2>1, <2>2, QuietLists, QuietExplained
<1>3. CASE VoidCondition
  BY <1>3, RejectExplained DEF VoidCondition
<1>4. CASE IfConditionDone
  <2> DEFINE f == [Frame("then") EXCEPT !.end = nextLabelID + 1]
  <2>1. ExpressionDone("ifCond") /\ EnterBody(nextLabelID + 1, nextLabelID, f)
    BY <1>4 DEF IfConditionDone
  <2>2. HasKind(f, "then")
    BY FrameKind
  <2> HIDE DEF f
  <2> QED BY <2>1, <2>2, ConditionExplained
<1>5. CASE IfElseConditionDone
  <2> DEFINE f == [Frame("thenElse") EXCEPT !.end = nextLabelID + 1, !.alt = nextLabelID + 2]
  <2>1. ExpressionDone("ifCond") /\ EnterBody(nextLabelID + 2, nextLabelID, f)
    BY <1>5 DEF IfElseConditionDone
  <2>2. HasKind(f, "thenElse")
    BY FrameKind
  <2> HIDE DEF f
  <2> QED BY <2>1, <2>2, ConditionExplained
<1>6. CASE WhileConditionDone
  <2> DEFINE f == [top EXCEPT !.kind = "while", !.body = NoLabel]
  <2>1. ExpressionDone("whileCond") /\ EnterBody(top.end, top.body, f)
    BY <1>6 DEF WhileConditionDone
  <2>2. HasKind(f, "while")
    BY <2>1, ExpressionValue, TopKind
  <2> HIDE DEF f
  <2> QED BY <2>1, <2>2, ConditionExplained
<1>7. CASE ForConditionDone
  <2> DEFINE f == [top EXCEPT !.kind = "forBody", !.body = NoLabel]
  <2>1. ExpressionDone("forCond") /\ EnterBody(top.end, top.body, f)
    BY <1>7 DEF ForConditionDone
  <2>2. HasKind(f, "forBody")
    BY <2>1, ExpressionValue, TopKind
  <2> HIDE DEF f
  <2> QED BY <2>1, <2>2, ConditionExplained
<1> QED BY <1>1, <1>2, <1>3, <1>4, <1>5, <1>6, <1>7, InitializerExplained, ReturnExplained
       DEF ContinuationStep

LEMMA StatementsExplained ==
    ASSUME TypeInv, FramesNest, NamesBelowCounter, Explained, ParametersInv,
           DistinctParameters(header), StatementStep
    PROVE  Explained'
<1>1. CASE PlainStatement
  BY <1>1, PlainStatementsQuiet, PlainStatementsKeepClaims, QuietExplained
<1>2. CASE LowerParameter
  BY <1>2, ParameterExplained
<1>3. ASSUME NEW x \in Names, NEW t \in DeclTypes, NEW i \in BOOLEAN, DeclarationStatement(x, t, i)
      PROVE  Explained'
  BY <1>3, DeclarationExplained
<1>4. CASE BadBareReturn \/ \E x \in Names, t \in DeclTypes : BadDeclaration(x, t)
  BY <1>4, RejectExplained DEF BadBareReturn, BadDeclaration
<1>5. CASE EndFunction
  <2>1. CASE reachable /\ header.ret.spec # "void"
    BY <1>5, <2>1, RejectExplained DEF EndFunction
  <2>2. CASE ~(reachable /\ header.ret.spec # "void")
    <3> DEFINE s == IF reachable THEN <<Ret(NoOperand)>> ELSE <<>>
    <3>1. /\ mode = "after" /\ frames' = Pop /\ PopScope
          /\ code' = code \o s /\ header' = header /\ vals' = vals
      BY <1>5, <2>2 DEF EndFunction, Emit, unchangedByStatements
    <3>2. Quiet(s)
      BY QuietLists
    <3>3. KeepsClaims
      BY <3>1, ClaimsKept DEF Working
    <3> HIDE DEF s
    <3> QED BY <3>1, <3>2, <3>3, QuietExplained
  <2> QED BY <2>1, <2>2
<1> QED BY <1>1, <1>2, <1>3, <1>4, <1>5 DEF StatementStep, PlainStatement

TypingInv == DistinctParameters(header) => Explained

LEMMA TypingInductive ==
    ASSUME TypeInv, FramesNest, NamesBelowCounter, ParametersInv, TypingInv, [Next]_vars
    PROVE  TypingInv'
<1>1. header' = header
  BY EveryStepBuilds DEF Builds
<1> SUFFICES ASSUME DistinctParameters(header) PROVE Explained'
  BY <1>1 DEF TypingInv, DistinctParameters
<1>2. Explained
  BY DEF TypingInv
<1>3. CASE UNCHANGED vars
  <2>1. Now' = Now
    BY <1>3 DEF vars, Now, Claims
  <2> QED BY <1>2, <1>3, <2>1 DEF vars, Explained
<1> QED BY <1>2, <1>3, StatementsExplained, ExpressionsExplained, ContinuationsExplained, Steps

LEMMA TypingInitially ==
    ASSUME Init
    PROVE  TypingInv
<1>1. /\ code = <<>> /\ vals = <<>> /\ scopes = <<NoNames>> /\ frames = <<Frame("function")>>
  BY DEF Init
<1>2. NameClaims(NoNames) = {} /\ FrameClaim(Frame("function")) = {}
  BY DEF NameClaims, NoNames, FrameClaim, Frame
<1>3. ScopeClaims(<<NoNames>>) = {}
  <2> DEFINE s == <<NoNames>>
  <2>1. Len(s) = 1 /\ s[1] = NoNames /\ \A k \in 1..1 : k = 1
    BY ShortLists
  <2> HIDE DEF s
  <2> QED BY <1>2, <2>1 DEF ScopeClaims, s
<1>4. FrameClaims(<<Frame("function")>>) = {}
  <2> DEFINE f == Frame("function")
             s == <<f>>
  <2>1. Len(s) = 1 /\ s[1] = f /\ \A k \in 1..1 : k = 1
    BY ShortLists
  <2>2. FrameClaim(f) = {}
    BY <1>2
  <2> HIDE DEF s, f
  <2> QED BY <2>1, <2>2 DEF FrameClaims, s, f
<1>5. Now = {}
  BY <1>1, <1>3, <1>4, NoEntryClaims DEF Now, Claims
<1> DEFINE U == [text \in OwnTexts |-> I32]
<1>6. U \in Typings
  BY TypeFacts DEF Typings
<1>7. Typed(header, <<>>, U)
  BY EmptyList DEF Typed
<1>8. Holds(<<>>, U, {})
  BY DEF Holds
<1> HIDE DEF U
<1>9. Tenable(header, <<>>, {})
  BY <1>6, <1>7, <1>8 DEF Tenable
<1> QED BY <1>1, <1>5, <1>9 DEF TypingInv, Explained

(***************************************************************************)
(* ResultTypes, which rebuilds the types from the code alone, is the       *)
(* assignment that explains the code: there is only one, because an        *)
(* operand is defined before it is read, and once.                         *)
(***************************************************************************)

SingleNames(c) ==
    \A i, j \in 1..Len(c), text \in OwnTexts :
        DefinesAt(c, i, text) /\ DefinesAt(c, j, text) => i = j

Definitions(c) == {j \in DOMAIN c : c[j].kind = "op" /\ c[j].dst # NoOperand}

\* The type an operation yields, when known gives those of the others.
TypeYielded(c, known, i) ==
    LET first == c[i].operands[1]
        typeOfFirst == IF first.kind = "imm" THEN I32
                       ELSE known[DefinedAt(c, first.text)]
    IN CASE c[i].opcode = "alloca" -> PointerTo(first.text[2])
         [] c[i].opcode \in CompareOpcodes \cup {"const", "lnot"} -> I32
         [] c[i].opcode \in {"load", "loadInd"} -> PointeeType(typeOfFirst)
         [] c[i].opcode = "call" -> Signatures[c[i].callee].ret
         [] OTHER -> typeOfFirst

LEMMA NamesAreSingle ==
    ASSUME NamesBelowCounter
    PROVE  SingleNames(code)
<1> SUFFICES ASSUME NEW i \in 1..Len(code), NEW j \in 1..Len(code), NEW text \in OwnTexts,
                    DefinesAt(code, i, text), DefinesAt(code, j, text)
             PROVE  i = j
  BY DEF SingleNames
<1>1. \A k \in 1..Len(code) : DefinesAt(code, k, text) =>
          /\ code[k].dst # NoOperand
          /\ \E n \in Nat : code[k].dst = Temp(n) \/ code[k].dst = StackSlot(n)
  <2>1. NoOperand.text \notin OwnTexts
    BY DEF NoOperand, Operand, OwnTexts
  <2> QED BY <2>1 DEF DefinesAt, NamesBelowCounter, Fresh, Numbered
<1>2. \A m, n \in Nat : <<"t", m>> # <<"s", n>>
                        /\ (<<"t", m>> = <<"t", n>> => m = n) /\ (<<"s", m>> = <<"s", n>> => m = n)
  OBVIOUS
<1>3. \A n : Temp(n).text = <<"t", n>> /\ StackSlot(n).text = <<"s", n>>
  BY DEF Temp, StackSlot, Operand
<1>4. code[i].dst = code[j].dst
  BY <1>1, <1>2, <1>3 DEF DefinesAt
<1> QED BY <1>1, <1>4 DEF NamesBelowCounter, Fresh, DefinesAt

LEMMA DefinedAtFacts ==
    ASSUME NEW c, IsList(c), SingleNames(c), NEW j \in 1..Len(c), NEW text \in OwnTexts,
           DefinesAt(c, j, text)
    PROVE  DefinedAt(c, text) = j /\ j \in Definitions(c)
<1>1. DOMAIN c = 1..Len(c)
  BY ListLength
<1>2. DefinitionsOf(c, text) = {j}
  BY <1>1 DEF DefinitionsOf, SingleNames, DefinesAt
<1>3. DefinedAt(c, text) = j
  BY <1>2 DEF DefinedAt
<1>4. c[j].dst # NoOperand
  BY DEF DefinesAt, NoOperand, Operand, OwnTexts
<1> QED BY <1>1, <1>3, <1>4 DEF Definitions, DefinesAt

\* An operation that can read the type of its first operand yields its own.
LEMMA YieldsItsType ==
    ASSUME NEW h, NEW c \in Seq(GoodInstructions), NEW U, Typed(h, c, U),
           NEW known, NEW i \in Definitions(c),
           \A text \in UsedBy(c[i]) : known[DefinedAt(c, text)] = U[text]
    PROVE  TypeYielded(c, known, i) = U[c[i].dst.text]
<1> DEFINE op == c[i]
           first == op.operands[1]
<1>1. i \in 1..Len(c) /\ op \in GoodInstructions /\ op.kind = "op" /\ Defines(op)
  BY DEF Definitions, Defines
<1>2. Result(U, op)
  BY <1>1 DEF Typed, Rule
<1>3. op.opcode \in Opcodes
  BY <1>1, OperandsThere
<1>4. op.opcode # "call" /\ first.kind \in OwnKinds =>
          first.kind # "imm" /\ known[DefinedAt(c, first.text)] = U[first.text]
  <2>1. op.opcode # "call" => 1 \in DOMAIN op.operands
    BY <1>1, OperandsThere
  <2> QED BY <1>1, <2>1, NamesRead DEF OwnKinds
<1> DEFINE t == IF first.kind = "imm" THEN I32 ELSE known[DefinedAt(c, first.text)]
<1>5. op.opcode # "call" /\ first.kind \in OwnKinds => t = U[first.text]
  BY <1>4
<1>6. TypeYielded(c, known, i) =
          CASE op.opcode = "alloca" -> PointerTo(first.text[2])
            [] op.opcode \in CompareOpcodes \cup {"const", "lnot"} -> I32
            [] op.opcode \in {"load", "loadInd"} -> PointeeType(t)
            [] op.opcode = "call" -> Signatures[op.callee].ret
            [] OTHER -> t
  BY DEF TypeYielded
<1> DEFINE defined == U[op.dst.text]
<1>7. /\ op.opcode = "alloca" => defined = PointerTo(first.text[2])
      /\ op.opcode \in CompareOpcodes \cup {"const", "lnot"} => defined = I32
      /\ op.opcode = "call" => defined = Signatures[op.callee].ret
      /\ op.opcode \in {"load", "loadInd"} =>
             first.kind \in OwnKinds /\ defined = PointeeType(U[first.text])
      /\ op.opcode \in Derived => first.kind \in OwnKinds /\ defined = U[first.text]
  BY <1>2 DEF Result
<1> HIDE DEF t, defined
<1>8. CASE op.opcode = "alloca"
  BY <1>6, <1>7, <1>8 DEF CompareOpcodes, defined
<1>9. CASE op.opcode \in CompareOpcodes \cup {"const", "lnot"}
  BY <1>6, <1>7, <1>9 DEF CompareOpcodes, defined
<1>10. CASE op.opcode \in {"load", "loadInd"}
  <2>1. op.opcode # "call"
    BY <1>10
  <2>2. defined = PointeeType(t)
    BY <1>5, <1>7, <1>10, <2>1
  <2>3. TypeYielded(c, known, i) = PointeeType(t)
    BY <1>6, <1>10 DEF CompareOpcodes
  <2> QED BY <2>2, <2>3 DEF defined
<1>11. CASE op.opcode = "call"
  BY <1>6, <1>7, <1>11 DEF CompareOpcodes, defined
<1>12. CASE op.opcode \in Derived
  <2>1. op.opcode # "call"
    BY <1>12 DEF Derived
  <2>2. defined = t
    BY <1>5, <1>7, <1>12, <2>1
  <2>3. TypeYielded(c, known, i) = t
    BY <1>6, <1>12 DEF Derived
  <2> QED BY <2>2, <2>3 DEF defined
<1> QED BY <1>3, <1>8, <1>9, <1>10, <1>11, <1>12 DEF Derived

LEMMA ResultTypesAreThese ==
    ASSUME NEW h, NEW c \in Seq(GoodInstructions), NEW U, Typed(h, c, U), SingleNames(c)
    PROVE  \A i \in Definitions(c) : ResultTypes(c)[i] = U[c[i].dst.text]
<1> DEFINE D == Definitions(c)
<1>0. IsList(c) /\ Len(c) \in Nat /\ DOMAIN c = 1..Len(c)
  BY ListLength DEF IsList
<1>1. ASSUME NEW i \in D, NEW text \in UsedBy(c[i])
      PROVE  \E j \in D : /\ j < i /\ j \in 1..Len(c)
                          /\ DefinedAt(c, text) = j /\ c[j].dst.text = text
  <2>1. i \in 1..Len(c) /\ c[i] \in GoodInstructions
    BY <1>0 DEF Definitions
  <2>2. PICK j \in 1..(i - 1) : DefinesAt(c, j, text)
    BY <2>1 DEF Typed
  <2>3. j < i /\ j \in 1..Len(c)
    BY <1>0, <2>1, <2>2
  <2>4. text \in OwnTexts
    BY <2>1, UsedAreOwn
  <2>5. DefinedAt(c, text) = j /\ j \in D
    BY <1>0, <2>2, <2>3, <2>4, DefinedAtFacts
  <2> QED BY <2>2, <2>3, <2>5 DEF DefinesAt
<1> DEFINE G(f) == [i \in {j \in DOMAIN c : c[j].kind = "op" /\ c[j].dst # NoOperand} |->
                      LET first == c[i].operands[1]
                          typeOfFirst == IF first.kind = "imm" THEN I32
                                         ELSE f[DefinedAt(c, first.text)]
                      IN CASE c[i].opcode = "alloca" -> PointerTo(first.text[2])
                           [] c[i].opcode \in CompareOpcodes \cup {"const", "lnot"} -> I32
                           [] c[i].opcode \in {"load", "loadInd"} -> PointeeType(typeOfFirst)
                           [] c[i].opcode = "call" -> Signatures[c[i].callee].ret
                           [] OTHER -> typeOfFirst]
           known == CHOOSE f : f = G(f)
           F == [i \in D |-> U[c[i].dst.text]]
<1>2. ResultTypes(c) = known
  BY DEF ResultTypes
<1>3. \A f : G(f) = [i \in D |-> TypeYielded(c, f, i)]
  BY DEF TypeYielded, Definitions
<1> HIDE DEF G, known, D
<1>4. \A i \in D : TypeYielded(c, F, i) = F[i]
  <2> TAKE i \in D
  <2>1. \A text \in UsedBy(c[i]) : F[DefinedAt(c, text)] = U[text]
    BY <1>1
  <2>2. i \in Definitions(c) /\ F[i] = U[c[i].dst.text]
    BY DEF D
  <2> HIDE DEF F
  <2> QED BY <2>1, <2>2, YieldsItsType
<1>5. F = G(F)
  BY <1>3, <1>4
<1>6. known = G(known)
  BY <1>5 DEF known
<1>7. \A i \in D : known[i] = TypeYielded(c, known, i)
  BY <1>3, <1>6
<1> DEFINE Bad == {i \in D : known[i] # U[c[i].dst.text]}
<1>8. SUFFICES ASSUME Bad # {} PROVE FALSE
  BY <1>2 DEF D
<1>9. PICK i \in Bad : \A m \in Bad : i <= m
  <2>1. Bad \in SUBSET Nat
    BY <1>0 DEF D, Definitions
  <2> QED BY <1>8, <2>1, LeastNatural
<1>10. i \in D /\ i \in 1..Len(c)
  BY <1>0 DEF D, Definitions
<1>11. \A text \in UsedBy(c[i]) : known[DefinedAt(c, text)] = U[text]
  <2> TAKE text \in UsedBy(c[i])
  <2>1. PICK j \in D : /\ j < i /\ j \in 1..Len(c)
                       /\ DefinedAt(c, text) = j /\ c[j].dst.text = text
    BY <1>1, <1>10
  <2>2. ~(i <= j)
    BY <1>0, <1>10, <2>1
  <2>3. j \notin Bad
    BY <1>9, <2>2
  <2> QED BY <2>1, <2>3
<1>12. TypeYielded(c, known, i) = U[c[i].dst.text]
  BY <1>10, <1>11, YieldsItsType DEF D
<1> QED BY <1>7, <1>10, <1>12

\* The type the code gives an operand it reads is the one that explains it.
LEMMA OperandTypeIs ==
    ASSUME NEW c \in Seq(GoodInstructions), NEW U, Typed(header, c, U), SingleNames(c),
           NEW i \in 1..Len(c), NEW o, o.kind \in ValueKinds,
           o.kind \in OwnKinds => o.text \in UsedBy(c[i])
    PROVE  OperandType(c, o) = TypeIn(header, U, o)
<1>1. CASE o.kind = "imm"
  BY <1>1 DEF OperandType, TypeIn
<1>2. CASE o.kind = "param"
  <2>1. ParameterType(o.text) = LowerType(ParameterOf(header, o.text).type)
    BY DEF ParameterType, ParameterOf
  <2> QED BY <1>2, <2>1 DEF OperandType, TypeIn
<1>3. CASE o.kind \in OwnKinds
  <2>1. IsList(c) /\ Len(c) \in Nat /\ DOMAIN c = 1..Len(c)
    BY ListLength DEF IsList
  <2>2. c[i] \in GoodInstructions /\ o.text \in OwnTexts
    BY <1>3, <2>1, UsedAreOwn
  <2>3. PICK j \in 1..(i - 1) : DefinesAt(c, j, o.text)
    BY <1>3 DEF Typed
  <2>4. j \in 1..Len(c)
    BY <2>1
  <2>5. DefinedAt(c, o.text) = j /\ j \in Definitions(c) /\ c[j].dst.text = o.text
    BY <2>1, <2>2, <2>3, <2>4, DefinedAtFacts DEF DefinesAt
  <2>6. ResultTypes(c)[j] = U[o.text]
    BY <2>5, ResultTypesAreThese
  <2> QED BY <1>3, <2>5, <2>6 DEF OperandType, TypeIn, OwnKinds
<1> QED BY <1>1, <1>2, <1>3 DEF ValueKinds, OwnKinds

LEMMA ExplainedIsWellTyped ==
    ASSUME TypeInv, NamesBelowCounter, Explained, NEW i \in DOMAIN code
    PROVE  WellTyped(code, i)
<1>1. PICK U \in Typings : Typed(header, code, U)
  BY DEF Explained, Tenable
<1>2. code \in Seq(GoodInstructions) /\ SingleNames(code)
  BY NamesAreSingle DEF TypeInv
<1>3. i \in 1..Len(code) /\ code[i] \in GoodInstructions
  BY <1>2
<1> DEFINE c == code
           ins == c[i]
           T(o) == TypeIn(header, U, o)
<1>4. Demands(header, U, ins)
  BY <1>1, <1>3 DEF Typed, Rule
<1>5. ASSUME ins.kind = "op", NEW k \in DOMAIN ins.operands
      PROVE  OperandType(c, ins.operands[k]) = T(ins.operands[k])
  <2> DEFINE o == ins.operands[k]
  <2>1. o.kind \in ValueKinds
    BY <1>3, <1>5, OperandsThere
  <2>2. o.kind \in OwnKinds => o.text \in UsedBy(c[i])
    BY <1>3, <1>5, NamesRead
  <2> HIDE DEF o, T
  <2> QED BY <1>1, <1>2, <1>3, <2>1, <2>2, OperandTypeIs DEF o, T
<1>6. CASE ins.kind = "ret" /\ ins.value # NoOperand
  <2> DEFINE o == ins.value
  <2>1. o \in Operands
    BY <1>3, <1>6 DEF GoodInstructions, Instructions
  <2>2. o.kind \in ValueKinds
    BY <1>6, <2>1 DEF Operands, Slots, ValueKinds
  <2>3. o.kind \in OwnKinds => o.text \in UsedBy(c[i])
    BY <1>3, <1>6, NamesRead
  <2>4. OperandType(c, o) = T(o)
    <3> HIDE DEF o
    <3> QED BY <1>1, <1>2, <1>3, <2>2, <2>3, OperandTypeIs
  <2>5. T(o) = LowerType(header.ret)
    BY <1>4, <1>6 DEF Demands
  <2> HIDE DEF T
  <2> QED BY <1>6, <2>4, <2>5 DEF WellTyped
<1>7. CASE ins.kind = "op" /\ ins.opcode \in {"store", "storeInd"}
  <2>1. 1 \in DOMAIN ins.operands /\ 2 \in DOMAIN ins.operands
    BY <1>3, <1>7, OperandsThere
  <2>2. T(ins.operands[1]) = PointerTo(T(ins.operands[2]))
    BY <1>4, <1>7 DEF Demands
  <2> HIDE DEF T
  <2> QED BY <1>5, <1>7, <2>1, <2>2 DEF WellTyped
<1>8. CASE ins.kind = "op" /\ ins.opcode = "loadInd"
  <2>1. 1 \in DOMAIN ins.operands
    BY <1>3, <1>8, OperandsThere
  <2>2. IsPointerType(T(ins.operands[1]))
    BY <1>4, <1>8 DEF Demands
  <2> HIDE DEF T
  <2> QED BY <1>5, <1>8, <2>1, <2>2 DEF WellTyped
<1>9. CASE ins.kind = "op" /\ ins.opcode = "call"
  <2>1. /\ Len(ins.operands) = Len(Signatures[ins.callee].params)
        /\ \A k \in DOMAIN ins.operands :
              T(ins.operands[k]) = Signatures[ins.callee].params[k]
    BY <1>4, <1>9 DEF Demands
  <2> HIDE DEF T
  <2> QED BY <1>5, <1>9, <2>1 DEF WellTyped
<1> QED BY <1>6, <1>7, <1>8, <1>9 DEF WellTyped

\* The types sema checked are those of the code it emits: in a lowered
\* function what is stored has the type of its cell, what is dereferenced is a
\* pointer, calls agree with the callee's signature and returns with the
\* function's own, whatever the function's parameters and body are.
THEOREM LoweredCodeIsWellTyped == Spec => []CodeIsWellTyped
<1>1. Init => NamesBelowCounter /\ ParametersInv /\ TypingInv
  BY ParametersInitially, TypingInitially, EmptyList DEF Init, NamesBelowCounter, Fresh
<1>2. CodeInv /\ NamesBelowCounter /\ ParametersInv /\ TypingInv /\ [Next]_vars
      => NamesBelowCounter' /\ ParametersInv' /\ TypingInv'
  BY EveryStepBuilds, BuildsKeepsNames, ParametersInductive, TypingInductive DEF CodeInv
<1>3. CodeInv /\ NamesBelowCounter /\ ParametersInv /\ TypingInv => CodeIsWellTyped
  BY ExplainedIsWellTyped DEF CodeInv, ParametersInv, TypingInv, CodeIsWellTyped
<1> QED BY <1>1, <1>2, <1>3, CodeInvHolds, PTL DEF Spec

(***************************************************************************)
(* Lowered functions run (CompileRun).  In a call in progress every name   *)
(* that has a value has one of the type that explains the code, and so has *)
(* every cell.  A pointer is a cell number, so its type says what the cell *)
(* was allocated for.                                                      *)
(***************************************************************************)

ParamTexts(h) == {h.params[k].name : k \in DOMAIN h.params}

\* The type of a name, and what it is to have a type when the cells have theirs.
NameType(h, U, text) ==
    IF text \in OwnTexts THEN U[text] ELSE LowerType(ParameterOf(h, text).type)
HasType(v, t, C) ==
    IF IsPointerType(t)
    THEN v.kind = "ptr" /\ v.n \in DOMAIN C /\ C[v.n] = PointeeType(t)
    ELSE v.kind = "i32"

CellTypes(n) == [0..(n - 1) -> Types]
ValuesTyped(h, U, values, C) ==
    \A text \in DOMAIN values : /\ text \in OwnTexts \cup ParamTexts(h)
                                /\ HasType(values[text], NameType(h, U, text), C)
MemoryTyped(memory, C) ==
    \A a \in DOMAIN memory : a \in DOMAIN C /\ HasType(memory[a], C[a], C)

\* The one frame of Self with these fields.
RunFrames(pc, values, memory, n, id) ==
    [fn : {Self}, pc : {pc}, values : {values}, memory : {memory}, nextAddr : {n}, id : {id}]
IsRunFrame(f) == f \in RunFrames(f.pc, f.values, f.memory, f.nextAddr, f.id)

FrameTyped(f, h, c, U) ==
    /\ IsRunFrame(f) /\ f.pc \in 1..Len(c) /\ f.nextAddr \in Nat
    /\ ParamTexts(h) \subseteq DOMAIN f.values
    /\ \E C \in CellTypes(f.nextAddr) :
          ValuesTyped(h, U, f.values, C) /\ MemoryTyped(f.memory, C)

LEMMA RunFrameFields ==
    ASSUME NEW f, NEW pc, NEW values, NEW memory, NEW n, NEW id,
           f \in RunFrames(pc, values, memory, n, id)
    PROVE  /\ IsRunFrame(f) /\ f.fn = Self /\ f.pc = pc /\ f.values = values
           /\ f.memory = memory /\ f.nextAddr = n /\ f.id = id
BY DEF RunFrames, IsRunFrame

LEMMA FrameIsTyped ==
    ASSUME NEW h, NEW c, NEW U, NEW pc \in 1..Len(c), NEW values, NEW memory, NEW n \in Nat,
           NEW id, ParamTexts(h) \subseteq DOMAIN values, NEW C \in CellTypes(n),
           ValuesTyped(h, U, values, C), MemoryTyped(memory, C),
           NEW f \in RunFrames(pc, values, memory, n, id)
    PROVE  FrameTyped(f, h, c, U)
<1>1. /\ IsRunFrame(f) /\ f.pc = pc /\ f.values = values /\ f.memory = memory
      /\ f.nextAddr = n
  BY RunFrameFields
<1> QED BY <1>1 DEF FrameTyped

\* The frames the steps of the evaluator make of one.
LEMMA ChangedFrames ==
    ASSUME NEW f, IsRunFrame(f)
    PROVE  /\ \A p : [f EXCEPT !.pc = p] \in RunFrames(p, f.values, f.memory, f.nextAddr, f.id)
           /\ \A x : [f EXCEPT !.pc = @ + 1, !.values = x]
                        \in RunFrames(f.pc + 1, x, f.memory, f.nextAddr, f.id)
           /\ \A x : [f EXCEPT !.pc = @ + 1, !.memory = x]
                        \in RunFrames(f.pc + 1, f.values, x, f.nextAddr, f.id)
           /\ \A x, y : [f EXCEPT !.pc = @ + 1, !.nextAddr = @ + 1, !.memory = x,
                                   !.values = y]
                           \in RunFrames(f.pc + 1, y, x, f.nextAddr + 1, f.id)
BY DEF RunFrames, IsRunFrame

LEMMA PointerTypes ==
    /\ \A t \in Types : IsPointerType(PointerTo(t)) /\ PointeeType(PointerTo(t)) = t
    /\ ~IsPointerType(I32)
<1>1. \A t \in Types : t = [base |-> t.base, depth |-> t.depth] /\ t.depth \in Nat
  BY DEF Types
<1>2. \A t \in Types : PointerTo(t) = [base |-> t.base, depth |-> t.depth + 1]
  BY <1>1 DEF PointerTo, Types
<1>3. ASSUME NEW t \in Types PROVE PointeeType(PointerTo(t)) = t
  <2> DEFINE p == [base |-> t.base, depth |-> t.depth + 1]
  <2>1. PointerTo(t) = p /\ t.depth \in Nat
    BY <1>1, <1>2
  <2>2. PointeeType(p) = [base |-> t.base, depth |-> (t.depth + 1) - 1]
    BY DEF PointeeType
  <2>3. (t.depth + 1) - 1 = t.depth
    BY <2>1
  <2> QED BY <1>1, <2>1, <2>2, <2>3
<1>4. \A t \in Types : IsPointerType(PointerTo(t))
  BY <1>1, <1>2 DEF IsPointerType
<1> QED BY <1>3, <1>4 DEF I32, IsPointerType

LEMMA ValuePut ==
    ASSUME NEW h, NEW U, NEW values, NEW C, ValuesTyped(h, U, values, C),
           NEW text \in OwnTexts, NEW v, HasType(v, U[text], C)
    PROVE  ValuesTyped(h, U, Run!Put(values, text, v), C)
<1> DEFINE put == Run!Put(values, text, v)
<1>1. /\ DOMAIN put = DOMAIN values \cup {text} /\ put[text] = v
      /\ \A z \in DOMAIN values : z # text => put[z] = values[z]
  BY DEF Run!Put
<1> HIDE DEF put
<1>2. NameType(h, U, text) = U[text]
  BY DEF NameType
<1>3. ValuesTyped(h, U, put, C)
  BY <1>1, <1>2 DEF ValuesTyped
<1> QED BY <1>3 DEF put

LEMMA MemoryPut ==
    ASSUME NEW memory, NEW C, MemoryTyped(memory, C), NEW a \in DOMAIN C, NEW v,
           HasType(v, C[a], C)
    PROVE  MemoryTyped(Run!Put(memory, a, v), C)
<1> DEFINE put == Run!Put(memory, a, v)
<1>1. /\ DOMAIN put = DOMAIN memory \cup {a} /\ put[a] = v
      /\ \A z \in DOMAIN memory : z # a => put[z] = memory[z]
  BY DEF Run!Put
<1> HIDE DEF put
<1>2. MemoryTyped(put, C)
  BY <1>1 DEF MemoryTyped
<1> QED BY <1>2 DEF put

\* A new cell leaves the types of the others alone.
LEMMA CellAdded ==
    ASSUME NEW n \in Nat, NEW C \in CellTypes(n), NEW t \in Types,
           NEW h, NEW U, NEW values, ValuesTyped(h, U, values, C),
           NEW memory, MemoryTyped(memory, C), NEW id,
           NEW text \in OwnTexts, U[text] = PointerTo(t)
    PROVE  \E D \in CellTypes(n + 1) :
              /\ ValuesTyped(h, U, Run!Put(values, text, Run!Pointer(n, id)), D)
              /\ MemoryTyped(Run!Without(memory, n), D)
<1> DEFINE D == [a \in 0..((n + 1) - 1) |-> IF a = n THEN t ELSE C[a]]
           v == Run!Pointer(n, id)
<1>1. /\ \A a \in 0..(n - 1) : a \in 0..((n + 1) - 1) /\ a # n
      /\ n \in 0..((n + 1) - 1)
      /\ \A a \in 0..((n + 1) - 1) : a = n \/ a \in 0..(n - 1)
  OBVIOUS
<1>2. DOMAIN C = 0..(n - 1) /\ \A a \in 0..(n - 1) : C[a] \in Types
  BY DEF CellTypes
<1>3. D \in CellTypes(n + 1)
  BY <1>1, <1>2 DEF CellTypes
<1>4. DOMAIN D = 0..((n + 1) - 1) /\ D[n] = t /\ \A a \in DOMAIN C : a \in DOMAIN D /\ D[a] = C[a]
  BY <1>1, <1>2
<1> HIDE DEF D
<1>5. \A w, s : HasType(w, s, C) => HasType(w, s, D)
  BY <1>4 DEF HasType
<1>6. v.kind = "ptr" /\ v.n = n
  BY DEF Run!Pointer
<1>7. HasType(v, PointerTo(t), D)
  BY <1>1, <1>4, <1>6, PointerTypes DEF HasType
<1>8. ValuesTyped(h, U, values, D)
  BY <1>5 DEF ValuesTyped
<1> HIDE DEF v
<1>9. ValuesTyped(h, U, Run!Put(values, text, v), D)
  BY <1>7, <1>8, ValuePut
<1>10. MemoryTyped(Run!Without(memory, n), D)
  BY <1>4, <1>5 DEF MemoryTyped, Run!Without
<1> QED BY <1>3, <1>9, <1>10 DEF v

LEMMA TextsApart ==
    ASSUME SingleIntegerFunction, NEW h \in Headers
    PROVE  /\ \A text \in OwnTexts : text[1] # "n"
           /\ \A text \in ParamTexts(h) : text[1] # "n" /\ text \notin OwnTexts
<1>1. ASSUME NEW text \in OwnTexts PROVE text[1] \in {"t", "s"}
  BY DEF OwnTexts
<1>2. ASSUME NEW text \in ParamTexts(h) PROVE text[1] = "v"
  <2>1. PICK k \in DOMAIN h.params : text = h.params[k].name
    BY DEF ParamTexts
  <2>2. h.params \in Seq(Parameters)
    BY HeadersAssumption
  <2>3. h.params[k] \in Parameters
    BY <2>2, SeqFacts
  <2>4. text \in {"v"} \X STRING
    BY <2>1, <2>3 DEF Parameters, SingleIntegerFunction
  <2> QED BY <2>4
<1> QED BY <1>1, <1>2

\* A parameter is an integer.
LEMMA ParameterTypes ==
    ASSUME SingleIntegerFunction, NEW h \in Headers
    PROVE  /\ \A text \in ParamTexts(h) : ~IsPointerType(LowerType(ParameterOf(h, text).type))
           /\ \A U, C, v : \A text \in ParamTexts(h) :
                 HasType(v, NameType(h, U, text), C) <=> v.kind = "i32"
<1>1. ASSUME NEW text \in ParamTexts(h)
      PROVE  ~IsPointerType(LowerType(ParameterOf(h, text).type))
  <2> DEFINE Of == {h.params[k] : k \in DOMAIN h.params}
             p == CHOOSE q \in Of : q.name = text
  <2>1. \E q \in Of : q.name = text
    BY DEF ParamTexts
  <2>2. p \in Of
    BY <2>1
  <2>3. PICK k \in DOMAIN h.params : p = h.params[k]
    BY <2>2
  <2>4. ParameterOf(h, text) = p
    BY DEF ParameterOf
  <2> HIDE DEF p, Of
  <2> QED BY <2>3, <2>4 DEF SingleIntegerFunction
<1>2. \A text \in ParamTexts(h) : text \notin OwnTexts
  BY TextsApart
<1>3. \A U : \A text \in ParamTexts(h) : ~IsPointerType(NameType(h, U, text))
  BY <1>1, <1>2 DEF NameType
<1> QED BY <1>1, <1>3 DEF HasType

LEMMA OwnTextsOfOperands ==
    ASSUME NEW o \in Operands, o.kind \in OwnKinds
    PROVE  o.text \in OwnTexts
BY DEF Operands, Slots, NoOperand, Operand, OwnKinds, OwnTexts

\* What an operand yields has its type.
LEMMA OperandHasType ==
    ASSUME SingleIntegerFunction, NEW h \in Headers, NEW U, NEW C,
           NEW values, values = Run!frame.values,
           ValuesTyped(h, U, values, C), ParamTexts(h) \subseteq DOMAIN values,
           NEW o \in Operands, Sourced(h, o), Run!Resolves(o)
    PROVE  /\ HasType(Run!ValueOf(o), TypeIn(h, U, o), C)
           /\ o.kind \in OwnKinds => o.text \in DOMAIN values
<1>1. Run!ValueOf(o) = IF o.text \in DOMAIN values THEN values[o.text]
                       ELSE Run!Number(o.text[2])
  BY DEF Run!ValueOf
<1>2. CASE o.kind \in OwnKinds
  <2>1. o.text \in OwnTexts
    BY <1>2, OwnTextsOfOperands
  <2>2. o.text[1] # "n"
    BY <2>1, TextsApart
  <2>3. o.text \in DOMAIN values
    BY <2>2 DEF Run!Resolves, Run!IsNumeral
  <2>4. HasType(values[o.text], NameType(h, U, o.text), C)
    BY <2>3 DEF ValuesTyped
  <2>5. NameType(h, U, o.text) = TypeIn(h, U, o)
    BY <1>2, <2>1 DEF NameType, TypeIn, OwnKinds
  <2> QED BY <1>1, <2>3, <2>4, <2>5
<1>3. CASE o.kind = "param"
  <2>1. o.text \in ParamTexts(h)
    BY <1>3 DEF Sourced, ParamTexts, OwnKinds
  <2>2. o.text \notin OwnTexts
    BY <2>1, TextsApart
  <2>3. HasType(values[o.text], NameType(h, U, o.text), C)
    BY <2>1 DEF ValuesTyped
  <2>4. NameType(h, U, o.text) = TypeIn(h, U, o)
    BY <1>3, <2>2 DEF NameType, TypeIn
  <2> QED BY <1>1, <1>3, <2>1, <2>3, <2>4 DEF OwnKinds
<1>4. CASE o.kind = "imm"
  <2>1. o.text[1] = "n"
    BY <1>4 DEF Sourced, OwnKinds
  <2>2. o.text \notin DOMAIN values
    BY <2>1, TextsApart DEF ValuesTyped
  <2>3. Run!ValueOf(o).kind = "i32"
    BY <1>1, <2>2 DEF Run!Number
  <2>4. TypeIn(h, U, o) = I32
    BY <1>4 DEF TypeIn
  <2> QED BY <1>4, <2>3, <2>4, PointerTypes DEF HasType, OwnKinds
<1> QED BY <1>2, <1>3, <1>4 DEF Sourced

\* What has a value, or is a numeral, resolves.
LEMMA SourcedResolves ==
    ASSUME SingleIntegerFunction, NEW h, NEW values, values = Run!frame.values,
           ParamTexts(h) \subseteq DOMAIN values, NEW o, Sourced(h, o),
           o.kind \in OwnKinds => o.text \in DOMAIN values
    PROVE  Run!Resolves(o)
<1>1. CASE o.text \in DOMAIN values
  BY <1>1 DEF Run!Resolves
<1>2. CASE o.kind = "param"
  BY <1>1, <1>2 DEF Sourced, ParamTexts, OwnKinds
<1>3. ASSUME NEW c \in 0..MaxInt, o.text = <<"n", c>> PROVE Run!Resolves(o)
  <2>1. c \in Run!Words
    BY DEF SingleIntegerFunction
  <2>2. o.text[1] = "n" /\ o.text[2] = c
    BY <1>3
  <2> QED BY <2>1, <2>2 DEF Run!Resolves, Run!IsNumeral
<1> QED BY <1>1, <1>2, <1>3 DEF Sourced

(***************************************************************************)
(* What the compiler hands to the evaluator.                               *)
(***************************************************************************)

CompiledInv == CodeInv /\ ParametersInv /\ TypingInv

LEMMA CompiledHolds == Spec => []CompiledInv
<1>1. Init => NamesBelowCounter /\ ParametersInv /\ TypingInv
  BY ParametersInitially, TypingInitially, EmptyList DEF Init, NamesBelowCounter, Fresh
<1>2. CodeInv /\ NamesBelowCounter /\ ParametersInv /\ TypingInv /\ [Next]_vars
      => NamesBelowCounter' /\ ParametersInv' /\ TypingInv'
  BY EveryStepBuilds, BuildsKeepsNames, ParametersInductive, TypingInductive DEF CodeInv
<1> QED BY <1>1, <1>2, CodeInvHolds, PTL DEF Spec, CompiledInv

\* Code that the evaluator does not leave and that types explain.
Program(h, c, U) ==
    /\ h \in Headers /\ U \in Typings
    /\ c \in Seq(GoodInstructions) /\ IsCode(c) /\ 1 \in 1..Len(c)
    /\ TargetsDefined(c)
    /\ \A i \in 1..Len(c) : Rule(h, U, c[i]) /\ NextPCs(c, i) \subseteq 1..Len(c)

\* The types of the names.
Explanation(h, c) == CHOOSE U \in Typings : Typed(h, c, U)

LEMMA LoweredProgram ==
    ASSUME CompiledInv, mode = "lowered"
    PROVE  /\ Program(header, code, Explanation(header, code))
           /\ Typed(header, code, Explanation(header, code))
<1> DEFINE U == Explanation(header, code)
<1>1. code # <<>> /\ IsCode(code) /\ WellFormed(code)
  BY LoweredCode DEF CompiledInv
<1>2. header \in Headers /\ code \in Seq(GoodInstructions)
  BY DEF CompiledInv, CodeInv, TypeInv
<1>3. Len(code) >= 1 /\ Len(code) \in Nat /\ DOMAIN code = 1..Len(code)
  BY <1>1 DEF CompiledInv, CodeInv, EndInv, Ended, IsCode
<1>4. Explained
  BY DEF CompiledInv, ParametersInv, TypingInv
<1>5. \E V \in Typings : Typed(header, code, V)
  BY <1>4 DEF Explained, Tenable
<1>6. U \in Typings /\ Typed(header, code, U)
  BY <1>5 DEF Explanation
<1> HIDE DEF U
<1>7. \A i \in 1..Len(code) : Rule(header, U, code[i])
  BY <1>6 DEF Typed
<1>8. \A i \in 1..Len(code) : NextPCs(code, i) \subseteq 1..Len(code)
  <2>1. IsClosed(code)
    BY <1>1, ValidatorExactness, ValidatedCodeIsClosed
  <2> QED BY <1>3, <2>1 DEF IsClosed
<1>9. TargetsDefined(code) /\ 1 \in 1..Len(code)
  BY <1>1, <1>3 DEF WellFormed
<1>10. Program(header, code, U)
  BY <1>1, <1>2, <1>6, <1>7, <1>8, <1>9 DEF Program
<1> QED BY <1>6, <1>10 DEF U

LEMMA CompilesBySpec == CompileRunSpec => Spec
<1>1. CompileRunInit => Init
  BY DEF CompileRunInit
<1>2. [CompileRunNext]_allVars => [Next]_vars
  BY DEF CompileRunNext, Compile, EvaluateFunction, Evaluate, allVars, vars
<1> QED BY <1>1, <1>2, PTL DEF CompileRunSpec, Spec

(***************************************************************************)
(* The stack of the calls in progress.                                     *)
(***************************************************************************)

\* The innermost frame of s and g on top of the first n frames.
LEMMA StackReplaced ==
    ASSUME NEW s, IsList(s), NEW g, NEW n \in 0..Len(s)
    PROVE  LET t == Append(SubSeq(s, 1, n), g) IN
           /\ IsList(t) /\ Len(t) = n + 1 /\ t[n + 1] = g
           /\ \A k \in 1..n : t[k] = s[k]
<1> DEFINE b == SubSeq(s, 1, n)
           t == Append(b, g)
<1>1. PICK S : s \in Seq(S)
  BY DEF IsList
<1>2. b \in Seq(S) /\ Len(b) = n /\ n \in Nat /\ \A k \in 1..n : b[k] = s[k]
  BY <1>1
<1>3. IsList(b)
  BY <1>2 DEF IsList
<1> HIDE DEF b
<1>4. IsList(t) /\ Len(t) = n + 1 /\ t[n + 1] = g /\ \A k \in 1..n : t[k] = b[k]
  BY <1>2, <1>3, ListAppend
<1> QED BY <1>2, <1>4 DEF b

(***************************************************************************)
(* The innermost call and the instruction it runs.                         *)
(***************************************************************************)

IsCall(i) == i.kind = "op" /\ i.opcode = "call"

\* Every call in progress is typed, and those that called wait at a call.
StackTyped(stack, h, c, U) ==
    /\ IsList(stack)
    /\ \A k \in 1..Len(stack) : FrameTyped(stack[k], h, c, U)
    /\ \A k \in 1..Len(stack) : k < Len(stack) => IsCall(c[stack[k].pc])

\* The evaluator has been given the lowered function.
Evaluating(U) ==
    /\ Program(header, code, U)
    /\ main = Self /\ args \in ArgumentLists
    /\ module = [f \in {Self} |-> Lowered]
    /\ StackTyped(callStack, header, code, U)
Calling(U) == Evaluating(U) /\ 1 <= Len(callStack)

LEMMA ModuleFields ==
    ASSUME module = [f \in {Self} |-> Lowered]
    PROVE  /\ DOMAIN module = {Self} /\ module[Self].code = code
           /\ module[Self].params = [k \in DOMAIN header.params |-> header.params[k].name]
BY DEF Lowered

LEMMA Innermost ==
    ASSUME NEW U, Calling(U)
    PROVE  /\ Len(callStack) \in Nat /\ Len(callStack) \in 1..Len(callStack)
           /\ Run!frame = callStack[Len(callStack)]
           /\ FrameTyped(Run!frame, header, code, U)
           /\ Run!body = code /\ Run!frame.pc \in 1..Len(code)
           /\ Run!inst = code[Run!frame.pc] /\ Run!inst \in GoodInstructions
           /\ Rule(header, U, Run!inst)
           /\ NextPCs(code, Run!frame.pc) \subseteq 1..Len(code)
<1> DEFINE n == Len(callStack)
           f == callStack[n]
<1>1. n \in Nat /\ n \in 1..n
  BY ListLength DEF Calling, Evaluating, StackTyped
<1>2. FrameTyped(f, header, code, U)
  BY <1>1 DEF Calling, Evaluating, StackTyped
<1>3. Run!frame = f
  BY DEF Run!frame
<1> HIDE DEF n, f
<1>4. f.fn = Self /\ f.pc \in 1..Len(code)
  BY <1>2, RunFrameFields DEF FrameTyped, IsRunFrame
<1>5. Run!body = code
  <2>1. module[Self].code = code
    BY ModuleFields DEF Calling, Evaluating
  <2> QED BY <1>3, <1>4, <2>1 DEF Run!body
<1>6. Run!inst = code[f.pc]
  BY <1>3, <1>5 DEF Run!inst
<1>7. code \in Seq(GoodInstructions) /\ Rule(header, U, code[f.pc])
      /\ NextPCs(code, f.pc) \subseteq 1..Len(code)
  BY <1>4 DEF Calling, Evaluating, Program
<1>8. code[f.pc] \in GoodInstructions
  BY <1>4, <1>7
<1> QED BY <1>1, <1>2, <1>3, <1>4, <1>5, <1>6, <1>7, <1>8 DEF n, f

\* The types of operands are types.
LEMMA TypesIn ==
    ASSUME NEW h \in Headers, NEW U \in Typings, NEW o \in Operands, Sourced(h, o)
    PROVE  TypeIn(h, U, o) \in Types
<1>1. CASE o.kind \in OwnKinds
  <2>1. o.text \in OwnTexts
    BY <1>1, OwnTextsOfOperands
  <2> QED BY <1>1, <2>1 DEF TypeIn, OwnKinds, Typings
<1>2. CASE o.kind = "param"
  <2> DEFINE Of == {h.params[k] : k \in DOMAIN h.params}
             p == CHOOSE q \in Of : q.name = o.text
  <2>1. p \in Of
    BY <1>2 DEF Sourced, OwnKinds
  <2>2. PICK k \in DOMAIN h.params : p = h.params[k]
    BY <2>1
  <2>3. h.params \in Seq(Parameters)
    BY HeadersAssumption
  <2>4. h.params[k] \in Parameters
    BY <2>2, <2>3, SeqFacts
  <2>5. ParameterOf(h, o.text) = p
    BY DEF ParameterOf
  <2> HIDE DEF p, Of
  <2>6. p.type \in SourceTypes
    BY <2>2, <2>4 DEF Parameters
  <2> QED BY <1>2, <2>5, <2>6, TypeFacts DEF TypeIn
<1>3. CASE o.kind = "imm"
  BY <1>3 DEF TypeIn, I32, Types
<1> QED BY <1>1, <1>2, <1>3 DEF Sourced

\* What the evaluator takes from TacIR is what the compiler takes from it.
LEMMA SameNames ==
    /\ Run!NoOperand = NoOperand
    /\ Run!UnaryOpcodes = UnaryOpcodes /\ Run!BinaryOpcodes = BinaryOpcodes
    /\ Run!Opcodes = Opcodes
    /\ \A c, l : Run!LabelIndex(c, l) = LabelIndex(c, l)
    /\ \A c : Run!ValidateFunctionIR(c) = ValidateFunctionIR(c)
<1>1. Run!NoOperand = NoOperand
  BY DEF Run!NoOperand, Run!Operand, NoOperand, Operand
<1>2. /\ Run!UnaryOpcodes = UnaryOpcodes /\ Run!ArithOpcodes = ArithOpcodes
      /\ Run!CompareOpcodes = CompareOpcodes /\ Run!TerminatorKinds = TerminatorKinds
      /\ Run!ValueKinds = ValueKinds /\ Run!DestinationUnchecked = DestinationUnchecked
      /\ Run!NoLabel = NoLabel /\ Run!NoCallee = NoCallee
  BY DEF Run!UnaryOpcodes, UnaryOpcodes, Run!ArithOpcodes, ArithOpcodes, Run!CompareOpcodes,
         CompareOpcodes, Run!TerminatorKinds, TerminatorKinds, Run!ValueKinds, ValueKinds,
         Run!DestinationUnchecked, DestinationUnchecked, Run!NoLabel, NoLabel,
         Run!NoCallee, NoCallee
<1>3. Run!BinaryOpcodes = BinaryOpcodes
  BY <1>2 DEF Run!BinaryOpcodes, BinaryOpcodes
<1>4. Run!Opcodes = Opcodes
  BY <1>2, <1>3 DEF Run!Opcodes, Opcodes
<1>5. \A c, l : Run!LabelIndex(c, l) = LabelIndex(c, l)
  BY DEF Run!LabelIndex, LabelIndex, Run!LabelAt, LabelAt
<1>6. \A i : Run!Targets(i) = Targets(i) /\ (Run!IsTerminator(i) <=> IsTerminator(i))
  BY <1>2 DEF Run!Targets, Targets, Run!IsTerminator, IsTerminator
<1>7. \A o : Run!OperandKinds(o) = OperandKinds(o)
  BY <1>2, <1>3 DEF Run!OperandKinds, OperandKinds
<1>8. \A i : Run!VerifyInstruction(i) <=> VerifyInstruction(i)
  BY <1>2, <1>4, <1>7
     DEF Run!VerifyInstruction, VerifyInstruction, Run!VerifyOpcodeOperands, VerifyOpcodeOperands
<1>9. \A c : /\ Run!LabelsUnique(c) <=> LabelsUnique(c)
             /\ Run!TargetsDefined(c) <=> TargetsDefined(c)
             /\ Run!BlockStarts(c) = BlockStarts(c)
  BY <1>2, <1>5, <1>6
     DEF Run!LabelsUnique, LabelsUnique, Run!TargetsDefined, TargetsDefined, Run!Defined, Defined,
         Run!BlockStarts, BlockStarts, Run!JumpTargets, JumpTargets, Run!After, After
<1>10. \A c, starts, s : Run!BlockEnd(c, starts, s) = BlockEnd(c, starts, s)
  BY DEF Run!BlockEnd, BlockEnd
<1>11. \A c, starts : Run!NoTerminatorInside(c, starts) <=> NoTerminatorInside(c, starts)
  BY <1>6, <1>10 DEF Run!NoTerminatorInside, NoTerminatorInside
<1>12. \A c : Run!ValidateFunctionIR(c) = ValidateFunctionIR(c)
  BY <1>8, <1>9, <1>10, <1>11 DEF Run!ValidateFunctionIR, ValidateFunctionIR
<1> QED BY <1>1, <1>2, <1>3, <1>4, <1>5, <1>12

\* What no fault says of operands and destinations.
LEMMA NoFault ==
    /\ \A o : Run!ResolveFault(o) = "none" => Run!Resolves(o)
    /\ \A o : Run!KindFault(o, "i32") = "none" => Run!Resolves(o) /\ Run!ValueOf(o).kind = "i32"
    /\ \A o : Run!KindFault(o, "ptr") = "none" => Run!Resolves(o) /\ Run!ValueOf(o).kind = "ptr"
    /\ \A o : Run!LoadFault(o) = "none" =>
                 /\ Run!Resolves(o) /\ Run!ValueOf(o).kind = "ptr"
                 /\ Run!ValueOf(o).n \in DOMAIN Run!frame.memory
    /\ Run!NoDestinationFault = "none" => Run!inst.dst # NoOperand
<1>1. \A o : Run!ResolveFault(o) = "none" => Run!Resolves(o)
  BY DEF Run!ResolveFault
<1>2. ASSUME NEW o, NEW kind \in {"i32", "ptr"}, Run!KindFault(o, kind) = "none"
      PROVE  Run!Resolves(o) /\ Run!ValueOf(o).kind = kind
  <2> DEFINE there == Run!Resolves(o)
             same  == Run!ValueOf(o).kind = kind
  <2>1. Run!KindFault(o, kind) =
          CASE ~there -> "unknown value"
            [] there /\ ~same -> IF kind = "i32" THEN "expected i32 value"
                                 ELSE "expected pointer value"
            [] OTHER -> "none"
    BY DEF Run!KindFault
  <2> HIDE DEF there, same
  <2>2. ~there => FALSE
    BY <1>2, <2>1
  <2>3. there /\ ~same => FALSE
    BY <1>2, <2>1
  <2>4. there /\ same
    BY <2>2, <2>3
  <2> QED BY <2>4 DEF there, same
<1>3. ASSUME NEW o, Run!LoadFault(o) = "none"
      PROVE  /\ Run!Resolves(o) /\ Run!ValueOf(o).kind = "ptr"
             /\ Run!ValueOf(o).n \in DOMAIN Run!frame.memory
  <2>1. /\ Run!KindFault(o, "ptr") = "none"
        /\ Run!ValueOf(o).n \in DOMAIN Run!frame.memory
    BY <1>3 DEF Run!LoadFault
  <2> QED BY <1>2, <2>1
<1>4. Run!NoDestinationFault = "none" => Run!inst.dst # NoOperand
  BY SameNames DEF Run!NoDestinationFault
<1> QED BY <1>1, <1>2, <1>3, <1>4

LEMMA TwoFaults ==
    ASSUME NEW a, NEW b
    PROVE  /\ Run!FirstFault(<<a, b>>) \in {"none", a, b}
           /\ Run!FirstFault(<<a, b>>) = "none" => a = "none" /\ b = "none"
<1> DEFINE s == <<a, b>>
           real == {k \in DOMAIN s : s[k] # "none"}
           least == CHOOSE x \in real : \A y \in real : x <= y
<1>1. DOMAIN s = {1, 2} /\ s[1] = a /\ s[2] = b
  OBVIOUS
<1>2. Run!FirstFault(s) = IF real = {} THEN "none" ELSE s[least]
  BY DEF Run!FirstFault, Run!Min
<1>3. real # {} => least \in real
  <2> SUFFICES ASSUME real # {} PROVE least \in real
    OBVIOUS
  <2>1. real \in SUBSET Nat
    BY <1>1
  <2>2. \E x \in real : \A y \in real : x <= y
    <3> HIDE DEF real
    <3> QED BY <2>1, LeastNatural
  <2> HIDE DEF real
  <2> QED BY <2>2
<1>5. CASE real = {}
  <2>1. a = "none" /\ b = "none"
    BY <1>1, <1>5
  <2> HIDE DEF real, s
  <2> QED BY <1>2, <1>5, <2>1 DEF s
<1>6. CASE real # {}
  <2>1. s[least] # "none" /\ least \in {1, 2}
    BY <1>1, <1>3, <1>6
  <2> HIDE DEF real, s, least
  <2> QED BY <1>1, <1>2, <1>6, <2>1 DEF s
<1> QED BY <1>5, <1>6

(***************************************************************************)
(* One step of a call.                                                     *)
(***************************************************************************)

\* The call with frame f has gone on to g: it has run one instruction.
Advance(f, g, c) ==
    /\ g.pc \in NextPCs(c, f.pc)
    /\ DOMAIN f.values \subseteq DOMAIN g.values
    /\ c[f.pc].kind = "op" /\ c[f.pc].dst.text \in OwnTexts
          => c[f.pc].dst.text \in DOMAIN g.values

\* The innermost call, or one whose callee returned, goes on.
Advances(U) ==
    \E n \in 1..Len(callStack) : \E g :
        /\ FrameTyped(g, header, code, U) /\ Advance(callStack[n], g, code)
        /\ callStack' = Append(SubSeq(callStack, 1, n - 1), g)
        /\ UNCHANGED <<module, main, args, status, fault>>

LEMMA TopAdvances ==
    ASSUME NEW U, Calling(U), NEW g, FrameTyped(g, header, code, U),
           Advance(Run!frame, g, code), callStack' = Append(Run!Callers, g),
           UNCHANGED Run!unchangedByStep
    PROVE  Advances(U)
<1> DEFINE n == Len(callStack)
<1>1. n \in 1..n /\ Run!frame = callStack[n]
  BY Innermost
<1>2. callStack' = Append(SubSeq(callStack, 1, n - 1), g)
  BY DEF Run!Callers
<1>3. UNCHANGED <<module, main, args, status, fault>>
  BY DEF Run!unchangedByStep
<1> QED BY <1>1, <1>2, <1>3 DEF Advances

\* Control moves, nothing else changes.
LEMMA StepToAdvances ==
    ASSUME NEW U, Calling(U), Run!inst.kind # "op",
           NEW pc \in NextPCs(code, Run!frame.pc), Run!StepTo(pc)
    PROVE  Advances(U)
<1> DEFINE f == Run!frame
           g == [f EXCEPT !.pc = pc]
<1>1. FrameTyped(f, header, code, U) /\ code[f.pc].kind # "op" /\ pc \in 1..Len(code)
  BY Innermost
<1>2. callStack' = Append(Run!Callers, g) /\ UNCHANGED Run!unchangedByStep
  BY DEF Run!StepTo
<1>3. IsRunFrame(f) /\ ParamTexts(header) \subseteq DOMAIN f.values /\ f.nextAddr \in Nat
  BY <1>1 DEF FrameTyped
<1>4. g \in RunFrames(pc, f.values, f.memory, f.nextAddr, f.id)
  BY <1>3, ChangedFrames
<1> HIDE DEF g, f
<1>5. PICK C \in CellTypes(f.nextAddr) :
        ValuesTyped(header, U, f.values, C) /\ MemoryTyped(f.memory, C)
  BY <1>1 DEF FrameTyped
<1>6. FrameTyped(g, header, code, U)
  BY <1>1, <1>3, <1>4, <1>5, FrameIsTyped
<1>7. g.pc = pc /\ g.values = f.values
  BY <1>4, RunFrameFields
<1>8. Advance(f, g, code)
  BY <1>1, <1>7 DEF Advance, f
<1> QED BY <1>2, <1>6, <1>8, TopAdvances DEF f

\* The next instruction after an operation.
LEMMA OperationNext ==
    ASSUME NEW U, Calling(U), Run!inst.kind = "op"
    PROVE  /\ Run!frame.pc + 1 \in NextPCs(code, Run!frame.pc)
           /\ Run!frame.pc + 1 \in 1..Len(code)
           /\ Run!frame.pc \in Nat
<1>1. code[Run!frame.pc].kind = "op" /\ Run!frame.pc \in 1..Len(code)
  BY Innermost
<1>2. Run!frame.pc + 1 \in NextPCs(code, Run!frame.pc)
  BY <1>1 DEF NextPCs
<1> QED BY <1>1, <1>2, Innermost

\* An operation yields a value of the type of its destination.
LEMMA YieldAdvances ==
    ASSUME NEW U, Calling(U), Run!inst.kind = "op", Run!inst.dst # NoOperand, NEW v,
           \A C \in CellTypes(Run!frame.nextAddr) :
               ValuesTyped(header, U, Run!frame.values, C) /\ MemoryTyped(Run!frame.memory, C)
                   => HasType(v, U[Run!inst.dst.text], C),
           Run!Yield(v)
    PROVE  Advances(U)
<1> DEFINE f == Run!frame
           i == Run!inst
           values == Run!Put(f.values, i.dst.text, v)
           g == [f EXCEPT !.pc = @ + 1, !.values = Run!Put(@, i.dst.text, v)]
<1>1. /\ FrameTyped(f, header, code, U) /\ i = code[f.pc] /\ Rule(header, U, i)
      /\ f.pc + 1 \in NextPCs(code, f.pc) /\ f.pc + 1 \in 1..Len(code)
  BY Innermost, OperationNext
<1>2. callStack' = Append(Run!Callers, g) /\ UNCHANGED Run!unchangedByStep
  BY DEF Run!Yield
<1>3. IsRunFrame(f) /\ ParamTexts(header) \subseteq DOMAIN f.values /\ f.nextAddr \in Nat
  BY <1>1 DEF FrameTyped
<1>4. g \in RunFrames(f.pc + 1, values, f.memory, f.nextAddr, f.id)
  BY <1>3 DEF RunFrames, IsRunFrame
<1>5. DOMAIN values = DOMAIN f.values \cup {i.dst.text}
  BY DEF Run!Put
<1>6. i.dst.text \in OwnTexts
  BY <1>1 DEF Rule, Defines
<1>7. PICK C \in CellTypes(f.nextAddr) :
        ValuesTyped(header, U, f.values, C) /\ MemoryTyped(f.memory, C)
  BY <1>1 DEF FrameTyped
<1>8. HasType(v, U[i.dst.text], C)
  BY <1>7
<1>9. ValuesTyped(header, U, values, C)
  <2> HIDE DEF f, i
  <2> QED BY <1>6, <1>7, <1>8, ValuePut DEF values
<1> HIDE DEF g, f, i, values
<1>10. FrameTyped(g, header, code, U)
  BY <1>1, <1>3, <1>4, <1>5, <1>7, <1>9, FrameIsTyped
<1>11. g.pc = f.pc + 1 /\ g.values = values
  BY <1>4, RunFrameFields
<1>12. Advance(f, g, code)
  BY <1>1, <1>5, <1>11 DEF Advance
<1> QED BY <1>2, <1>10, <1>12, TopAdvances DEF f

\* The error of each kind of operation.
LEMMA RunFaults ==
    /\ Run!inst.opcode = "const" =>
          Run!OpFault = Run!FirstFault(<<IF Run!operand(1).text[2] \in Run!Words THEN "none"
                                         ELSE "invalid constant", Run!NoDestinationFault>>)
    /\ Run!inst.opcode = "const8" =>
          Run!OpFault = Run!FirstFault(<<IF Run!operand(1).text[2] \in Run!Bytes THEN "none"
                                         ELSE "invalid constant", Run!NoDestinationFault>>)
    /\ Run!inst.opcode = "copy" =>
          Run!OpFault = Run!FirstFault(<<Run!ResolveFault(Run!operand(1)),
                                         Run!NoDestinationFault>>)
    /\ Run!inst.opcode = "alloca" => Run!OpFault = Run!NoDestinationFault
    /\ Run!inst.opcode \in {"load", "loadInd"} =>
          Run!OpFault = Run!FirstFault(<<Run!LoadFault(Run!operand(1)), Run!NoDestinationFault>>)
    /\ Run!inst.opcode \in {"store", "storeInd"} =>
          Run!OpFault = Run!FirstFault(<<Run!KindFault(Run!operand(1), "ptr"),
                                         Run!ResolveFault(Run!operand(2))>>)
    /\ Run!inst.opcode \in UnaryOpcodes =>
          Run!OpFault = Run!FirstFault(<<Run!KindFault(Run!operand(1), "i32"),
                                         Run!NoDestinationFault>>)
    /\ Run!inst.opcode \in BinaryOpcodes =>
          LET kinds == Run!FirstFault(<<Run!KindFault(Run!operand(1), "i32"),
                                        Run!KindFault(Run!operand(2), "i32")>>)
          IN Run!OpFault = IF kinds # "none" THEN kinds
                           ELSE Run!FirstFault(<<Run!DivisionFault, Run!NoDestinationFault>>)
<1> USE DEF UnaryOpcodes, BinaryOpcodes, ArithOpcodes, CompareOpcodes, Run!UnaryOpcodes,
            Run!BinaryOpcodes, Run!ArithOpcodes, Run!CompareOpcodes
<1>1. Run!inst.opcode = "const" =>
          Run!OpFault = Run!FirstFault(<<IF Run!operand(1).text[2] \in Run!Words THEN "none"
                                         ELSE "invalid constant", Run!NoDestinationFault>>)
  BY DEF Run!OpFault
<1>2. Run!inst.opcode = "const8" =>
          Run!OpFault = Run!FirstFault(<<IF Run!operand(1).text[2] \in Run!Bytes THEN "none"
                                         ELSE "invalid constant", Run!NoDestinationFault>>)
  BY DEF Run!OpFault
<1>3. Run!inst.opcode = "copy" =>
          Run!OpFault = Run!FirstFault(<<Run!ResolveFault(Run!operand(1)),
                                         Run!NoDestinationFault>>)
  BY DEF Run!OpFault
<1>4. Run!inst.opcode = "alloca" => Run!OpFault = Run!NoDestinationFault
  BY DEF Run!OpFault
<1>5. Run!inst.opcode \in {"load", "loadInd"} =>
          Run!OpFault = Run!FirstFault(<<Run!LoadFault(Run!operand(1)), Run!NoDestinationFault>>)
  BY DEF Run!OpFault
<1>6. Run!inst.opcode \in {"store", "storeInd"} =>
          Run!OpFault = Run!FirstFault(<<Run!KindFault(Run!operand(1), "ptr"),
                                         Run!ResolveFault(Run!operand(2))>>)
  BY DEF Run!OpFault
<1>7. Run!inst.opcode \in UnaryOpcodes =>
          Run!OpFault = Run!FirstFault(<<Run!KindFault(Run!operand(1), "i32"),
                                         Run!NoDestinationFault>>)
  BY DEF Run!OpFault
<1>8. Run!inst.opcode \in BinaryOpcodes =>
          LET kinds == Run!FirstFault(<<Run!KindFault(Run!operand(1), "i32"),
                                        Run!KindFault(Run!operand(2), "i32")>>)
          IN Run!OpFault = IF kinds # "none" THEN kinds
                           ELSE Run!FirstFault(<<Run!DivisionFault, Run!NoDestinationFault>>)
  BY DEF Run!OpFault
<1> QED BY <1>1, <1>2, <1>3, <1>4, <1>5, <1>6, <1>7, <1>8

\* The first operand of an operation that is not a call nor an allocation.
LEMMA FirstOperand ==
    ASSUME NEW U, Calling(U), Run!inst.kind = "op", Run!inst.opcode \notin {"call", "alloca"}
    PROVE  LET o == Run!operand(1) IN
           /\ o = Run!inst.operands[1] /\ 1 \in DOMAIN Run!inst.operands
           /\ o \in Operands /\ o.kind \in ValueKinds /\ Sourced(header, o)
<1> DEFINE i == Run!inst
<1>1. i \in GoodInstructions /\ Rule(header, U, i)
  BY Innermost
<1>2. Run!operand(1) = i.operands[1]
  BY DEF Run!operand
<1> HIDE DEF i
<1>3. i.kind = "op" /\ i.opcode \notin {"call", "alloca"}
  BY DEF i
<1>4. 1 \in DOMAIN i.operands /\ i.operands \in Seq(Operands)
      /\ DOMAIN i.operands = 1..Len(i.operands) /\ i.operands[1].kind \in ValueKinds
  BY <1>1, <1>3, OperandsThere
<1>5. i.operands[1] \in Operands
  BY <1>4
<1>6. Sourced(header, i.operands[1])
  BY <1>1, <1>3, <1>4 DEF Rule, Reads
<1> QED BY <1>2, <1>4, <1>5, <1>6 DEF i

\* The typing of the innermost call's operands.
LEMMA FrameOperand ==
    ASSUME SingleIntegerFunction, NEW U, Calling(U), NEW C,
           ValuesTyped(header, U, Run!frame.values, C),
           NEW o \in Operands, Sourced(header, o), Run!Resolves(o)
    PROVE  HasType(Run!ValueOf(o), TypeIn(header, U, o), C)
<1> DEFINE values == Run!frame.values
<1>1. header \in Headers
  BY DEF Calling, Evaluating, Program
<1>2. ParamTexts(header) \subseteq DOMAIN values
  BY Innermost DEF FrameTyped
<1>3. values = Run!frame.values /\ ValuesTyped(header, U, values, C)
  OBVIOUS
<1> HIDE DEF values
<1> QED BY <1>1, <1>2, <1>3, OperandHasType

LEMMA ConstAdvances ==
    ASSUME NEW U, Calling(U), Run!StepConst
    PROVE  Advances(U)
<1> DEFINE i == Run!inst
           v == Run!Number(Run!operand(1).text[2])
<1>1. /\ i.kind = "op" /\ i.opcode \in {"const", "const8"} /\ Run!OpFault = "none"
      /\ Run!Yield(v)
  BY DEF Run!StepConst, Run!IsOp
<1>2. i.dst # NoOperand
  <2> DEFINE a == IF Run!operand(1).text[2] \in Run!Words THEN "none" ELSE "invalid constant"
             b == IF Run!operand(1).text[2] \in Run!Bytes THEN "none" ELSE "invalid constant"
             d == Run!NoDestinationFault
  <2>1. Run!OpFault = Run!FirstFault(<<a, d>>) \/ Run!OpFault = Run!FirstFault(<<b, d>>)
    BY <1>1, RunFaults
  <2> HIDE DEF a, b, d
  <2>2. d = "none"
    BY <1>1, <2>1, TwoFaults
  <2> QED BY <2>2, NoFault DEF d
<1>3. Rule(header, U, i) /\ i \in GoodInstructions
  BY Innermost
<1>4. U[i.dst.text] = I32
  <2>1. Result(U, i)
    BY <1>1, <1>2, <1>3 DEF Rule, Defines
  <2>2. CASE i.opcode = "const"
    BY <2>1, <2>2 DEF Result
  <2>3. CASE i.opcode = "const8"
    <3>1. i.operands[1].kind \in OwnKinds
      BY <2>1, <2>3 DEF Result, Derived, Opcodes, CompareOpcodes
    <3>2. i.operands[1].kind = "imm"
      <4>1. VerifyOpcodeOperands(i)
        BY <1>1, <1>3 DEF GoodInstructions, VerifyInstruction
      <4>2. OperandKinds(i.opcode) = <<{"imm"}>>
        BY <2>3 DEF OperandKinds, UnaryOpcodes, BinaryOpcodes, ArithOpcodes, CompareOpcodes
      <4>3. 1 \in DOMAIN i.operands
        BY <2>3, <1>1, <1>3, OperandsThere
      <4>4. i.operands[1].kind \in OperandKinds(i.opcode)[1]
        BY <2>3, <4>1, <4>3 DEF VerifyOpcodeOperands
      <4> QED BY <4>2, <4>4
    <3> QED BY <3>1, <3>2 DEF OwnKinds
  <2> QED BY <1>1, <2>2, <2>3
<1>5. v.kind = "i32"
  BY DEF Run!Number
<1>6. \A C : HasType(v, U[i.dst.text], C)
  BY <1>4, <1>5, PointerTypes DEF HasType
<1> HIDE DEF v
<1> QED BY <1>1, <1>2, <1>6, YieldAdvances

LEMMA CopyAdvances ==
    ASSUME SingleIntegerFunction, NEW U, Calling(U), Run!StepCopy
    PROVE  Advances(U)
<1> DEFINE i == Run!inst
           o == Run!operand(1)
           v == Run!ValueOf(o)
<1>1. i.kind = "op" /\ i.opcode = "copy" /\ Run!OpFault = "none" /\ Run!Yield(v)
  BY DEF Run!StepCopy, Run!IsOp
<1>2. i.dst # NoOperand /\ Run!Resolves(o)
  BY <1>1, RunFaults, TwoFaults, NoFault
<1>3. Rule(header, U, i)
  BY Innermost
<1>4. o = i.operands[1] /\ o \in Operands /\ Sourced(header, o)
  BY <1>1, FirstOperand
<1>5. Result(U, i)
  BY <1>1, <1>2, <1>3 DEF Rule, Defines
<1>6. o.kind \in OwnKinds /\ U[i.dst.text] = U[o.text]
  BY <1>1, <1>4, <1>5 DEF Result, Derived, Opcodes, CompareOpcodes
<1>7. TypeIn(header, U, o) = U[i.dst.text]
  BY <1>6 DEF TypeIn, OwnKinds
<1> HIDE DEF o, v
<1>8. \A C : ValuesTyped(header, U, Run!frame.values, C) => HasType(v, U[i.dst.text], C)
  BY <1>2, <1>4, <1>7, FrameOperand DEF v
<1> QED BY <1>1, <1>2, <1>8, YieldAdvances

LEMMA LoadAdvances ==
    ASSUME SingleIntegerFunction, NEW U, Calling(U), Run!StepLoad
    PROVE  Advances(U)
<1> DEFINE i == Run!inst
           o == Run!operand(1)
           p == Run!ValueOf(o).n
           v == Run!frame.memory[p]
<1>1. /\ i.kind = "op" /\ i.opcode \in {"load", "loadInd"} /\ Run!OpFault = "none"
      /\ Run!Yield(v)
  BY DEF Run!StepLoad, Run!IsOp
<1>2. i.dst # NoOperand /\ Run!LoadFault(o) = "none"
  <2> DEFINE a == Run!LoadFault(o)
             d == Run!NoDestinationFault
  <2>1. Run!OpFault = Run!FirstFault(<<a, d>>)
    BY <1>1, RunFaults
  <2> HIDE DEF a, d
  <2>2. a = "none" /\ d = "none"
    BY <1>1, <2>1, TwoFaults
  <2> QED BY <2>2, NoFault DEF a, d
<1>3. Run!Resolves(o) /\ p \in DOMAIN Run!frame.memory
  BY <1>2, NoFault
<1>4. Rule(header, U, i)
  BY Innermost
<1>5. o = i.operands[1] /\ o \in Operands /\ Sourced(header, o)
  BY <1>1, FirstOperand
<1>6. Result(U, i) /\ Demands(header, U, i)
  BY <1>1, <1>2, <1>4 DEF Rule, Defines
<1>7. o.kind \in OwnKinds /\ U[i.dst.text] = PointeeType(U[o.text])
  BY <1>1, <1>5, <1>6 DEF Result
<1>8. IsPointerType(TypeIn(header, U, o))
  BY <1>1, <1>5, <1>6 DEF Demands
<1>9. TypeIn(header, U, o) = U[o.text]
  BY <1>7 DEF TypeIn, OwnKinds
<1> HIDE DEF o, i
<1>10. ASSUME NEW C, ValuesTyped(header, U, Run!frame.values, C),
              MemoryTyped(Run!frame.memory, C)
       PROVE  HasType(v, U[i.dst.text], C)
  <2>1. HasType(Run!ValueOf(o), U[o.text], C)
    BY <1>3, <1>5, <1>9, <1>10, FrameOperand
  <2>2. C[p] = U[i.dst.text]
    BY <1>7, <1>8, <1>9, <2>1 DEF HasType
  <2>3. HasType(v, C[p], C)
    <3> HIDE DEF p
    <3> QED BY <1>3, <1>10 DEF MemoryTyped
  <2> HIDE DEF v, p
  <2> QED BY <2>2, <2>3
<1> HIDE DEF v
<1> QED BY <1>1, <1>2, <1>10, YieldAdvances DEF i

\* An operator on integers yields an integer, and its destination is one.
LEMMA IntegerAdvances ==
    ASSUME SingleIntegerFunction, NEW U, Calling(U), Run!inst.kind = "op",
           Run!inst.opcode \in UnaryOpcodes \cup BinaryOpcodes, Run!inst.dst # NoOperand,
           Run!Resolves(Run!operand(1)), Run!ValueOf(Run!operand(1)).kind = "i32",
           NEW n, Run!Yield(Run!Number(n))
    PROVE  Advances(U)
<1> DEFINE i == Run!inst
           o == Run!operand(1)
           v == Run!Number(n)
<1>1. i.opcode \in Opcodes
      /\ i.opcode \notin {"const", "alloca", "load", "loadInd", "call"}
  BY DEF Opcodes, UnaryOpcodes, BinaryOpcodes, ArithOpcodes, CompareOpcodes
<1>2. Rule(header, U, i)
  BY Innermost
<1>3. o = i.operands[1] /\ o \in Operands /\ Sourced(header, o)
  BY <1>1, FirstOperand
<1>4. Result(U, i)
  BY <1>2 DEF Rule, Defines
<1>5. v.kind = "i32"
  BY DEF Run!Number
<1> HIDE DEF v
<1>6. CASE i.opcode \in CompareOpcodes \cup {"lnot"}
  <2>1. U[i.dst.text] = I32
    BY <1>4, <1>6 DEF Result
  <2>2. \A C : HasType(v, U[i.dst.text], C)
    BY <1>5, <2>1, PointerTypes DEF HasType
  <2> QED BY <2>2, YieldAdvances DEF v
<1>7. CASE i.opcode \notin CompareOpcodes \cup {"lnot"}
  <2>1. i.opcode \in Derived
    BY <1>1, <1>7 DEF Derived
  <2>2. o.kind \in OwnKinds /\ U[i.dst.text] = U[o.text]
    BY <1>3, <1>4, <2>1 DEF Result
  <2>3. TypeIn(header, U, o) = U[i.dst.text]
    BY <2>2 DEF TypeIn, OwnKinds
  <2>4. ASSUME NEW C, ValuesTyped(header, U, Run!frame.values, C)
        PROVE  HasType(v, U[i.dst.text], C)
    <3>1. HasType(Run!ValueOf(o), U[i.dst.text], C)
      <4> HIDE DEF o
      <4> QED BY <1>3, <2>3, <2>4, FrameOperand DEF o
    <3>2. Run!ValueOf(o).kind = "i32"
      OBVIOUS
    <3> HIDE DEF o
    <3> QED BY <1>5, <3>1, <3>2 DEF HasType
  <2> QED BY <2>4, YieldAdvances DEF v
<1> QED BY <1>6, <1>7

LEMMA UnaryAdvances ==
    ASSUME SingleIntegerFunction, NEW U, Calling(U), Run!StepUnary
    PROVE  Advances(U)
<1> DEFINE n == Run!ApplyUnary(Run!inst.opcode, Run!ValueOf(Run!operand(1)).n)
<1>1. /\ Run!inst.kind = "op" /\ Run!inst.opcode \in UnaryOpcodes /\ Run!OpFault = "none"
      /\ Run!Yield(Run!Number(n))
  BY SameNames DEF Run!StepUnary, Run!IsOp
<1>2. /\ Run!KindFault(Run!operand(1), "i32") = "none"
      /\ Run!NoDestinationFault = "none"
  <2> DEFINE a == Run!KindFault(Run!operand(1), "i32")
             d == Run!NoDestinationFault
  <2>1. Run!OpFault = Run!FirstFault(<<a, d>>)
    BY <1>1, RunFaults
  <2> HIDE DEF a, d
  <2>2. a = "none" /\ d = "none"
    BY <1>1, <2>1, TwoFaults
  <2> QED BY <2>2 DEF a, d
<1> HIDE DEF n
<1> QED BY <1>1, <1>2, NoFault, IntegerAdvances

LEMMA BinaryAdvances ==
    ASSUME SingleIntegerFunction, NEW U, Calling(U), Run!StepBinary
    PROVE  Advances(U)
<1> DEFINE n == Run!ApplyBinary(Run!inst.opcode, Run!ValueOf(Run!operand(1)).n,
                                Run!ValueOf(Run!operand(2)).n)
           a == Run!KindFault(Run!operand(1), "i32")
           b == Run!KindFault(Run!operand(2), "i32")
           kinds == Run!FirstFault(<<a, b>>)
<1>1. /\ Run!inst.kind = "op" /\ Run!inst.opcode \in BinaryOpcodes /\ Run!OpFault = "none"
      /\ Run!Yield(Run!Number(n))
  BY SameNames DEF Run!StepBinary, Run!IsOp
<1> HIDE DEF n
<1>2. Run!OpFault = IF kinds # "none" THEN kinds
                    ELSE Run!FirstFault(<<Run!DivisionFault, Run!NoDestinationFault>>)
  BY <1>1, RunFaults
<1>3. kinds = "none" => a = "none" /\ b = "none"
  <2> HIDE DEF a, b
  <2> QED BY TwoFaults
<1> HIDE DEF kinds
<1>4. a = "none" /\ Run!NoDestinationFault = "none"
  BY <1>1, <1>2, <1>3, TwoFaults
<1> QED BY <1>1, <1>4, NoFault, IntegerAdvances

LEMMA AllocaAdvances ==
    ASSUME NEW U, Calling(U), Run!StepAlloca
    PROVE  Advances(U)
<1> DEFINE f == Run!frame
           i == Run!inst
           n == f.nextAddr
           v == Run!Pointer(n, f.id)
           values == Run!Put(f.values, i.dst.text, v)
           memory == Run!Without(f.memory, n)
           g == [f EXCEPT !.pc = @ + 1, !.nextAddr = @ + 1, !.memory = Run!Without(@, f.nextAddr),
                          !.values = Run!Put(@, i.dst.text, Run!Pointer(f.nextAddr, f.id))]
<1>1. /\ i.kind = "op" /\ i.opcode = "alloca" /\ Run!OpFault = "none"
      /\ callStack' = Append(Run!Callers, g) /\ UNCHANGED Run!unchangedByStep
  BY DEF Run!StepAlloca, Run!IsOp
<1>2. i.dst # NoOperand
  BY <1>1, RunFaults, NoFault
<1>3. /\ FrameTyped(f, header, code, U) /\ i = code[f.pc] /\ Rule(header, U, i)
      /\ f.pc + 1 \in NextPCs(code, f.pc) /\ f.pc + 1 \in 1..Len(code)
  BY <1>1, Innermost, OperationNext
<1>4. IsRunFrame(f) /\ ParamTexts(header) \subseteq DOMAIN f.values /\ n \in Nat
  BY <1>3 DEF FrameTyped
<1>5. g \in RunFrames(f.pc + 1, values, memory, n + 1, f.id)
  BY <1>4 DEF RunFrames, IsRunFrame
<1>6. DOMAIN values = DOMAIN f.values \cup {i.dst.text}
  BY DEF Run!Put
<1>7. i.dst.text \in OwnTexts /\ Result(U, i) /\ Reads(header, i)
  BY <1>1, <1>2, <1>3 DEF Rule, Defines
<1>8. PICK t \in Types : i.operands[1].text = <<"type", t>>
  BY <1>1, <1>7 DEF Reads
<1>9. U[i.dst.text] = PointerTo(t)
  <2>1. i.operands[1].text[2] = t
    BY <1>8
  <2> QED BY <1>1, <1>7, <2>1 DEF Result
<1>10. PICK C \in CellTypes(n) :
         ValuesTyped(header, U, f.values, C) /\ MemoryTyped(f.memory, C)
  BY <1>3 DEF FrameTyped
<1>11. PICK D \in CellTypes(n + 1) :
         ValuesTyped(header, U, values, D) /\ MemoryTyped(memory, D)
  <2> DEFINE vs == f.values
             m == f.memory
             id == f.id
             text == i.dst.text
  <2>1. /\ ValuesTyped(header, U, vs, C) /\ MemoryTyped(m, C) /\ n \in Nat
        /\ text \in OwnTexts /\ U[text] = PointerTo(t)
    BY <1>4, <1>7, <1>9, <1>10
  <2> HIDE DEF f, i, n, vs, m, id, text
  <2>2. \E D \in CellTypes(n + 1) :
           /\ ValuesTyped(header, U, Run!Put(vs, text, Run!Pointer(n, id)), D)
           /\ MemoryTyped(Run!Without(m, n), D)
    BY <2>1, CellAdded
  <2> QED BY <2>2 DEF vs, m, id, text
<1> HIDE DEF values, memory, g
<1>12. FrameTyped(g, header, code, U)
  <2> DEFINE p == f.pc + 1
             q == n + 1
             id == f.id
  <2>1. p \in 1..Len(code) /\ q \in Nat /\ ParamTexts(header) \subseteq DOMAIN values
    BY <1>3, <1>4, <1>6
  <2>2. g \in RunFrames(p, values, memory, q, id) /\ D \in CellTypes(q)
    BY <1>5
  <2> HIDE DEF p, q, id, f, n
  <2> QED BY <1>11, <2>1, <2>2, FrameIsTyped
<1>13. g.pc = f.pc + 1 /\ g.values = values
  BY <1>5, RunFrameFields
<1> HIDE DEF f, i
<1>14. Advance(f, g, code)
  BY <1>3, <1>6, <1>13 DEF Advance
<1> QED BY <1>1, <1>12, <1>14, TopAdvances DEF f

LEMMA StoreAdvances ==
    ASSUME SingleIntegerFunction, NEW U, Calling(U), Run!StepStore
    PROVE  Advances(U)
<1> DEFINE f == Run!frame
           i == Run!inst
           o == Run!operand(1)
           q == Run!operand(2)
           a == Run!ValueOf(o).n
           v == Run!ValueOf(q)
           memory == Run!Put(f.memory, a, v)
           g == [f EXCEPT !.pc = @ + 1, !.memory = Run!Put(@, a, v)]
<1>1. /\ i.kind = "op" /\ i.opcode \in {"store", "storeInd"} /\ Run!OpFault = "none"
      /\ callStack' = Append(Run!Callers, g) /\ UNCHANGED Run!unchangedByStep
  BY DEF Run!StepStore, Run!IsOp
<1>2. Run!Resolves(o) /\ Run!Resolves(q)
  <2> DEFINE x == Run!KindFault(o, "ptr")
             y == Run!ResolveFault(q)
  <2>1. Run!OpFault = Run!FirstFault(<<x, y>>)
    BY <1>1, RunFaults
  <2> HIDE DEF x, y
  <2>2. x = "none" /\ y = "none"
    BY <1>1, <2>1, TwoFaults
  <2> QED BY <2>2, NoFault DEF x, y
<1>3. /\ FrameTyped(f, header, code, U) /\ i = code[f.pc] /\ Rule(header, U, i)
      /\ f.pc + 1 \in NextPCs(code, f.pc) /\ f.pc + 1 \in 1..Len(code)
      /\ i \in GoodInstructions
  BY <1>1, Innermost, OperationNext
<1>4. IsRunFrame(f) /\ ParamTexts(header) \subseteq DOMAIN f.values /\ f.nextAddr \in Nat
  BY <1>3 DEF FrameTyped
<1>5. g \in RunFrames(f.pc + 1, f.values, memory, f.nextAddr, f.id)
  BY <1>4 DEF RunFrames, IsRunFrame
<1>6. o = i.operands[1] /\ o \in Operands /\ Sourced(header, o)
  BY <1>1, FirstOperand
<1>7. q = i.operands[2] /\ q \in Operands /\ Sourced(header, q)
  <2>1. 2 \in DOMAIN i.operands /\ i.operands \in Seq(Operands)
        /\ DOMAIN i.operands = 1..Len(i.operands)
    BY <1>1, <1>3, OperandsThere
  <2>2. i.operands[2] \in Operands
    BY <2>1
  <2>3. Sourced(header, i.operands[2])
    BY <1>1, <1>3, <2>1 DEF Rule, Reads
  <2> QED BY <2>2, <2>3 DEF Run!operand
<1>8. TypeIn(header, U, o) = PointerTo(TypeIn(header, U, q))
  BY <1>1, <1>3, <1>6, <1>7 DEF Rule, Demands
<1>9. i.dst = NoOperand
  BY <1>1, <1>3 DEF Rule, Reads, Stores
<1>10. TypeIn(header, U, q) \in Types
  <2>1. header \in Headers /\ U \in Typings
    BY DEF Calling, Evaluating, Program
  <2> HIDE DEF q
  <2> QED BY <1>7, <2>1, TypesIn
<1>11. PICK C \in CellTypes(f.nextAddr) :
         ValuesTyped(header, U, f.values, C) /\ MemoryTyped(f.memory, C)
  BY <1>3 DEF FrameTyped
<1>12. a \in DOMAIN C /\ C[a] = TypeIn(header, U, q)
  <2>1. HasType(Run!ValueOf(o), TypeIn(header, U, o), C)
    <3> HIDE DEF o
    <3> QED BY <1>2, <1>6, <1>11, FrameOperand
  <2> DEFINE t == TypeIn(header, U, q)
  <2>2. HasType(Run!ValueOf(o), PointerTo(t), C) /\ t \in Types
    BY <1>8, <1>10, <2>1
  <2> HIDE DEF t, o
  <2> QED BY <2>2, PointerTypes DEF HasType, t
<1>13. HasType(v, C[a], C)
  <2> HIDE DEF q, a
  <2> QED BY <1>2, <1>7, <1>11, <1>12, FrameOperand
<1>14. MemoryTyped(memory, C)
  <2> DEFINE m == f.memory
  <2>1. MemoryTyped(m, C)
    BY <1>11
  <2> HIDE DEF m, a, v, f
  <2> QED BY <1>12, <1>13, <2>1, MemoryPut DEF m
<1> HIDE DEF memory, g, f, i
<1>15. FrameTyped(g, header, code, U)
  BY <1>3, <1>4, <1>5, <1>11, <1>14, FrameIsTyped
<1>16. g.pc = f.pc + 1 /\ g.values = f.values
  BY <1>5, RunFrameFields
<1>17. Advance(f, g, code)
  <2>1. NoOperand.text \notin OwnTexts
    BY DEF NoOperand, Operand, OwnTexts
  <2> QED BY <1>3, <1>9, <1>16, <2>1 DEF Advance
<1> QED BY <1>1, <1>15, <1>17, TopAdvances DEF f

\* An error unwinds every call, and so does the return of the first.
Unwinds ==
    /\ callStack' = <<>> /\ status' \in {"returned", "failed"}
    /\ UNCHANGED <<module, main, args>>

LEMMA FailUnwinds ==
    ASSUME NEW e, Run!Fail(e)
    PROVE  Unwinds
BY DEF Run!Fail, Unwinds

LEMMA ControlAdvances ==
    ASSUME NEW U, Calling(U), Run!StepLabel \/ Run!StepJmp \/ Run!StepBr
    PROVE  Advances(U) \/ Unwinds
<1> DEFINE i == Run!inst
           pc == Run!frame.pc
<1>1. Run!body = code /\ i = code[pc]
  BY Innermost
<1>2. CASE Run!StepLabel
  <2>1. i.kind = "label" /\ Run!StepTo(pc + 1)
    BY <1>2 DEF Run!StepLabel
  <2>2. pc + 1 \in NextPCs(code, pc)
    BY <1>1, <2>1 DEF NextPCs
  <2> QED BY <2>1, <2>2, StepToAdvances
<1>3. ASSUME i.kind \in {"jmp", "br"}, NEW l \in Targets(i),
             Run!StepTo(Run!LabelIndex(Run!body, l))
      PROVE  Advances(U)
  <2> DEFINE next == LabelIndex(code, l)
  <2>1. Run!StepTo(next)
    BY <1>1, <1>3, SameNames
  <2>2. next \in NextPCs(code, pc)
    BY <1>1, <1>3 DEF NextPCs
  <2> HIDE DEF next
  <2> QED BY <1>3, <2>1, <2>2, StepToAdvances
<1>4. CASE Run!StepJmp
  <2>1. i.kind = "jmp" /\ Run!StepTo(Run!LabelIndex(Run!body, i.target))
    BY <1>4 DEF Run!StepJmp
  <2>2. i.target \in Targets(i)
    BY <2>1 DEF Targets
  <2> QED BY <1>3, <2>1, <2>2
<1>5. CASE Run!StepBr
  <2> DEFINE taken == IF Run!ValueOf(i.cond).n # 0 THEN i.trueLabel ELSE i.falseLabel
  <2>1. /\ i.kind = "br"
        /\ \/ Run!StepTo(Run!LabelIndex(Run!body, taken))
           \/ Run!Fail(Run!KindFault(i.cond, "i32"))
    BY <1>5 DEF Run!StepBr
  <2>2. taken \in Targets(i)
    BY <2>1 DEF Targets
  <2> HIDE DEF taken
  <2> QED BY <1>3, <2>1, <2>2, FailUnwinds
<1> QED BY <1>2, <1>4, <1>5

(***************************************************************************)
(* Calls and returns.                                                      *)
(***************************************************************************)

Enters(U) ==
    /\ callStack = <<>> \/ IsCall(Run!inst)
    /\ \E g : /\ FrameTyped(g, header, code, U) /\ g.pc = 1
              /\ callStack' = Append(callStack, g)
    /\ status' = "running"
    /\ UNCHANGED <<module, main, args, fault>>

\* A call entered with integers.
LEMMA EnteredTyped ==
    ASSUME SingleIntegerFunction, NEW U, Evaluating(U), NEW argv,
           \A k \in DOMAIN header.params : argv[k].kind = "i32", Run!Enter(Self, argv)
    PROVE  \E g : /\ FrameTyped(g, header, code, U) /\ g.pc = 1
                  /\ callStack' = Append(callStack, g)
<1> DEFINE named == [k \in DOMAIN header.params |-> header.params[k].name]
           last(text) == Run!Max({k \in DOMAIN named : named[k] = text})
           values == [text \in {named[k] : k \in DOMAIN named} |-> argv[last(text)]]
           g == Run!NewFrame(Self, values, calls + 1)
<1>1. module[Self].params = named
  BY ModuleFields DEF Evaluating
<1>2. callStack' = Append(callStack, g)
  BY <1>1 DEF Run!Enter
<1>3. header \in Headers /\ header.params \in Seq(Parameters) /\ 1 \in 1..Len(code)
  BY HeadersAssumption DEF Evaluating, Program
<1>4. Len(header.params) \in Nat /\ DOMAIN header.params = 1..Len(header.params)
  BY <1>3
<1>5. DOMAIN values = ParamTexts(header)
  BY DEF ParamTexts
<1>6. ASSUME NEW text \in ParamTexts(header) PROVE values[text].kind = "i32"
  <2> DEFINE K == {k \in DOMAIN named : named[k] = text}
             n == Len(header.params)
  <2>1. K \in SUBSET (0..n) /\ K \subseteq DOMAIN header.params
    BY <1>4
  <2>2. K # {}
    BY DEF ParamTexts
  <2>3. Run!Max(K) \in K
    <3>1. n \in Nat
      BY <1>4
    <3> HIDE DEF K, n
    <3>2. \E x \in K : \A y \in K : y <= x
      BY <2>1, <2>2, <3>1, GreatestNatural
    <3>3. \A x, y \in K : y <= x <=> x >= y
      BY <2>1, <3>1
    <3>4. \E x \in K : \A y \in K : x >= y
      BY <3>2, <3>3
    <3> QED BY <3>4 DEF Run!Max
  <2>4. values[text] = argv[Run!Max(K)]
    BY DEF ParamTexts
  <2> HIDE DEF K, values
  <2> QED BY <2>1, <2>3, <2>4
<1> HIDE DEF values
<1>7. g \in RunFrames(1, values, <<>>, 0, calls + 1)
  BY DEF Run!NewFrame, RunFrames
<1> DEFINE C == [a \in 0..(0 - 1) |-> I32]
           none == <<>>
<1>8. C \in CellTypes(0)
  BY DEF CellTypes
<1>9. DOMAIN none = {}
  OBVIOUS
<1> HIDE DEF C, none
<1>10. ValuesTyped(header, U, values, C)
  BY <1>3, <1>5, <1>6, ParameterTypes DEF ValuesTyped
<1>11. MemoryTyped(none, C)
  BY <1>9 DEF MemoryTyped
<1> HIDE DEF g
<1>12. FrameTyped(g, header, code, U)
  <2>1. g \in RunFrames(1, values, none, 0, calls + 1) /\ 0 \in Nat
    BY <1>7 DEF none
  <2> DEFINE id == calls + 1
  <2> HIDE DEF id
  <2>2. g \in RunFrames(1, values, none, 0, id)
    BY <2>1 DEF id
  <2> QED BY <1>3, <1>5, <1>8, <1>10, <1>11, <2>1, <2>2, FrameIsTyped
<1>13. g.pc = 1
  BY <1>7, RunFrameFields
<1> QED BY <1>2, <1>12, <1>13

LEMMA StartEnters ==
    ASSUME SingleIntegerFunction, NEW U, Evaluating(U), callStack = <<>>, Run!Start
    PROVE  Enters(U)
<1>1. Run!Enter(Self, Run!StartArguments) /\ status' = "running"
      /\ UNCHANGED <<module, main, args, fault>>
  BY DEF Run!Start, Evaluating
<1>2. header \in Headers /\ args \in ArgumentLists
  BY DEF Evaluating, Program
<1>3. args \in Seq(Run!Words) /\ Len(args) = Len(header.params) /\ header.params \in Seq(Parameters)
  BY <1>2, HeadersAssumption DEF SingleIntegerFunction
<1>4. DOMAIN header.params = DOMAIN args
  BY <1>3
<1> DEFINE argv == Run!StartArguments
<1>5. \A k \in DOMAIN header.params : argv[k].kind = "i32"
  BY <1>4 DEF Run!StartArguments, Run!Number
<1> HIDE DEF argv
<1>6. Run!Enter(Self, argv)
  BY <1>1 DEF argv
<1> QED BY <1>1, <1>5, <1>6, EnteredTyped DEF Enters

\* A call in the code is of the function itself, with its parameters.
LEMMA CallsItself ==
    ASSUME SingleIntegerFunction, NEW U, Program(header, code, U), NEW i \in GoodInstructions,
           IsCall(i), Rule(header, U, i)
    PROVE  /\ i.callee = Self
           /\ DOMAIN i.operands = DOMAIN header.params /\ Len(i.operands) = Len(header.params)
           /\ \A k \in DOMAIN i.operands :
                 /\ i.operands[k] \in Operands /\ Sourced(header, i.operands[k])
                 /\ ~IsPointerType(TypeIn(header, U, i.operands[k]))
           /\ i.dst # NoOperand => i.dst.text \in OwnTexts /\ ~IsPointerType(U[i.dst.text])
<1>1. VerifyOpcodeOperands(i) /\ i \in Instructions(Operands, Nat, Functions)
  BY DEF GoodInstructions, IsCall, VerifyInstruction
<1>2. i.callee = Self
  BY <1>1 DEF Instructions, VerifyOpcodeOperands, IsCall, SingleIntegerFunction
<1>3. header \in Headers
  BY DEF Program
<1>4. header.params \in Seq(Parameters)
  BY <1>3, HeadersAssumption
<1> DEFINE types == [k \in DOMAIN header.params |-> LowerType(header.params[k].type)]
<1>5. Signatures[Self].ret = LowerType(header.ret) /\ Signatures[Self].params = types
  <2>1. Signatures[Self] = SignatureForFunction(header)
    BY <1>3 DEF SingleIntegerFunction
  <2> QED BY <2>1 DEF SignatureForFunction
<1>6. DOMAIN header.params = 1..Len(header.params) /\ Len(header.params) \in Nat
  BY <1>4
<1>7. Len(types) = Len(header.params)
  BY <1>6
<1>8. i.operands \in Seq(Operands) /\ DOMAIN i.operands = 1..Len(i.operands)
  BY <1>1, OperandsThere DEF IsCall
<1>9. /\ Len(i.operands) = Len(types)
      /\ \A k \in DOMAIN i.operands : TypeIn(header, U, i.operands[k]) = types[k]
  BY <1>2, <1>5 DEF Rule, Demands, IsCall
<1>10. DOMAIN i.operands = DOMAIN header.params
  BY <1>6, <1>7, <1>8, <1>9
<1>11. \A k \in DOMAIN header.params : ~IsPointerType(types[k])
  BY <1>3 DEF SingleIntegerFunction
<1> HIDE DEF types
<1>12. ASSUME NEW k \in DOMAIN i.operands
       PROVE  /\ i.operands[k] \in Operands /\ Sourced(header, i.operands[k])
              /\ ~IsPointerType(TypeIn(header, U, i.operands[k]))
  <2>1. i.operands[k] \in Operands
    BY <1>8
  <2>2. Sourced(header, i.operands[k])
    BY DEF Rule, Reads, IsCall
  <2> QED BY <1>9, <1>10, <1>11, <2>1, <2>2
<1>13. ASSUME i.dst # NoOperand
       PROVE  i.dst.text \in OwnTexts /\ ~IsPointerType(U[i.dst.text])
  <2>1. Result(U, i) /\ i.dst.text \in OwnTexts
    BY <1>13 DEF Rule, Defines, IsCall
  <2>2. U[i.dst.text] = LowerType(header.ret)
    BY <1>2, <1>5, <2>1 DEF Result, IsCall
  <2>3. ~IsPointerType(LowerType(header.ret))
    BY <1>3 DEF SingleIntegerFunction
  <2> QED BY <2>1, <2>2, <2>3
<1> QED BY <1>2, <1>7, <1>9, <1>10, <1>12, <1>13

LEMMA CallEnters ==
    ASSUME SingleIntegerFunction, NEW U, Calling(U), status = "running", Run!StepCall
    PROVE  Enters(U)
<1> DEFINE i == Run!inst
           argv == Run!CallArguments
<1>1. /\ IsCall(i) /\ Run!CallFault = "none" /\ Run!Enter(i.callee, argv)
      /\ UNCHANGED <<module, main, args, status, fault>>
  BY DEF Run!StepCall, Run!IsOp, IsCall
<1>2. i \in GoodInstructions /\ Rule(header, U, i)
  BY Innermost
<1>3. Evaluating(U) /\ Program(header, code, U)
  BY DEF Calling, Evaluating
<1>4. /\ i.callee = Self /\ DOMAIN i.operands = DOMAIN header.params
      /\ \A k \in DOMAIN i.operands :
            /\ i.operands[k] \in Operands /\ Sourced(header, i.operands[k])
            /\ ~IsPointerType(TypeIn(header, U, i.operands[k]))
  <2> HIDE DEF i
  <2> QED BY <1>1, <1>2, <1>3, CallsItself
<1>5. \A k \in DOMAIN i.operands : Run!Resolves(i.operands[k])
  BY <1>1 DEF Run!CallFault
<1>6. PICK C : ValuesTyped(header, U, Run!frame.values, C)
  BY Innermost DEF FrameTyped
<1>7. ASSUME NEW k \in DOMAIN header.params PROVE argv[k].kind = "i32"
  <2> DEFINE o == i.operands[k]
  <2>1. argv[k] = Run!ValueOf(o)
    BY <1>4 DEF Run!CallArguments
  <2>2. /\ o \in Operands /\ Sourced(header, o) /\ ~IsPointerType(TypeIn(header, U, o))
        /\ Run!Resolves(o)
    BY <1>4, <1>5
  <2> HIDE DEF o
  <2>3. HasType(Run!ValueOf(o), TypeIn(header, U, o), C)
    BY <1>6, <2>2, FrameOperand
  <2> QED BY <2>1, <2>2, <2>3 DEF HasType
<1>8. Run!Enter(Self, argv)
  BY <1>1, <1>4
<1> HIDE DEF argv
<1>9. \E g : /\ FrameTyped(g, header, code, U) /\ g.pc = 1
             /\ callStack' = Append(callStack, g)
  BY <1>3, <1>7, <1>8, EnteredTyped
<1> QED BY <1>1, <1>9 DEF Enters

\* What a function returns is an integer.
LEMMA ReturnsInteger ==
    ASSUME SingleIntegerFunction, NEW U, Calling(U), Run!Returns
    PROVE  Run!ReturnValue.kind = "i32"
<1> DEFINE i == Run!inst
           o == i.value
<1>1. /\ i.kind = "ret"
      /\ o = NoOperand \/ Run!Resolves(o)
      /\ Run!ReturnValue = IF o = NoOperand THEN Run!Number(0) ELSE Run!ValueOf(o)
  BY SameNames DEF Run!Returns, Run!ReturnValue
<1>2. CASE o = NoOperand
  BY <1>1, <1>2 DEF Run!Number
<1>3. CASE o # NoOperand
  <2>1. i \in GoodInstructions /\ Rule(header, U, i) /\ header \in Headers
    BY Innermost DEF Calling, Evaluating, Program
  <2>2. o \in Operands
    BY <1>1, <2>1 DEF GoodInstructions, Instructions
  <2>3. Sourced(header, o) /\ TypeIn(header, U, o) = LowerType(header.ret)
    BY <1>1, <1>3, <2>1 DEF Rule, Demands, Reads
  <2>4. ~IsPointerType(LowerType(header.ret))
    BY <2>1 DEF SingleIntegerFunction
  <2>5. PICK C : ValuesTyped(header, U, Run!frame.values, C)
    BY Innermost DEF FrameTyped
  <2>6. HasType(Run!ValueOf(o), TypeIn(header, U, o), C)
    <3> HIDE DEF i
    <3> QED BY <1>1, <1>3, <2>2, <2>3, <2>5, FrameOperand
  <2> QED BY <1>1, <1>3, <2>3, <2>4, <2>6 DEF HasType
<1> QED BY <1>2, <1>3

LEMMA ReturnAdvances ==
    ASSUME SingleIntegerFunction, NEW U, Calling(U), Run!ReturnToCaller
    PROVE  Advances(U)
<1> DEFINE n == Len(callStack) - 1
           f == callStack[n]
           i == code[f.pc]
           v == Run!ReturnValue
           values == IF i.dst = NoOperand THEN f.values ELSE Run!Put(f.values, i.dst.text, v)
           g == [f EXCEPT !.pc = @ + 1, !.values = values]
<1>1. Run!Returns /\ Len(callStack) > 1 /\ UNCHANGED Run!unchangedByStep
  BY DEF Run!ReturnToCaller
<1>2. Len(callStack) \in Nat /\ n \in 1..Len(callStack) /\ n < Len(callStack)
      /\ n - 1 = Len(callStack) - 2
  BY <1>1, Innermost
<1>3. v.kind = "i32"
  BY <1>1, ReturnsInteger
<1>4. FrameTyped(f, header, code, U) /\ IsCall(i)
  BY <1>2 DEF Calling, Evaluating, StackTyped
<1>5. IsRunFrame(f) /\ ParamTexts(header) \subseteq DOMAIN f.values /\ f.nextAddr \in Nat
      /\ f.pc \in 1..Len(code) /\ f.fn = Self
  <2>1. IsRunFrame(f) /\ f.pc \in 1..Len(code)
    BY <1>4 DEF FrameTyped
  <2>2. f.fn = Self
    BY <2>1, RunFrameFields DEF IsRunFrame
  <2> QED BY <1>4, <2>1, <2>2 DEF FrameTyped
<1>6. callStack' = Append(SubSeq(callStack, 1, n - 1), g)
  <2>1. module[f.fn].code = code
    BY <1>5, ModuleFields DEF Calling, Evaluating
  <2>2. Len(callStack) - 2 = n - 1
    BY <1>2
  <2> QED BY <2>1, <2>2, SameNames DEF Run!ReturnToCaller
<1>7. Program(header, code, U)
  BY DEF Calling, Evaluating
<1>8. i \in GoodInstructions /\ Rule(header, U, i) /\ NextPCs(code, f.pc) \subseteq 1..Len(code)
  <2>1. code \in Seq(GoodInstructions)
    BY <1>7 DEF Program
  <2>2. i \in GoodInstructions
    BY <1>5, <2>1
  <2> QED BY <1>5, <1>7, <2>2 DEF Program
<1>9. f.pc + 1 \in NextPCs(code, f.pc) /\ f.pc + 1 \in 1..Len(code)
  BY <1>4, <1>8 DEF NextPCs, IsCall
<1>10. i.dst # NoOperand => i.dst.text \in OwnTexts /\ ~IsPointerType(U[i.dst.text])
  <2> HIDE DEF i
  <2> QED BY <1>4, <1>7, <1>8, CallsItself
<1>11. g \in RunFrames(f.pc + 1, values, f.memory, f.nextAddr, f.id)
  <2> HIDE DEF values, f
  <2> QED BY <1>5, ChangedFrames
<1>12. PICK C \in CellTypes(f.nextAddr) :
         ValuesTyped(header, U, f.values, C) /\ MemoryTyped(f.memory, C)
  BY <1>4 DEF FrameTyped
<1> DEFINE vs == f.values
           text == i.dst.text
<1>13. ValuesTyped(header, U, vs, C)
  BY <1>12
<1>14. i.dst # NoOperand => ValuesTyped(header, U, Run!Put(vs, text, v), C)
  <2> SUFFICES ASSUME i.dst # NoOperand PROVE ValuesTyped(header, U, Run!Put(vs, text, v), C)
    OBVIOUS
  <2>1. text \in OwnTexts /\ ~IsPointerType(U[text])
    BY <1>10
  <2> HIDE DEF vs, text, v
  <2>2. HasType(v, U[text], C)
    BY <1>3, <2>1 DEF HasType, v
  <2> QED BY <1>13, <2>1, <2>2, ValuePut
<1>15. ValuesTyped(header, U, values, C)
  BY <1>13, <1>14
<1>16. /\ DOMAIN vs \subseteq DOMAIN values
       /\ i.dst # NoOperand => DOMAIN values = DOMAIN vs \cup {text}
  BY DEF Run!Put
<1>17. text \in OwnTexts => text \in DOMAIN values
  <2>1. NoOperand.text \notin OwnTexts
    BY DEF NoOperand, Operand, OwnTexts
  <2> QED BY <1>16, <2>1
<1> HIDE DEF g, f, values
<1>18. FrameTyped(g, header, code, U)
  BY <1>5, <1>9, <1>11, <1>12, <1>15, <1>16, FrameIsTyped
<1>19. g.pc = f.pc + 1 /\ g.values = values
  BY <1>11, RunFrameFields
<1>20. Advance(f, g, code)
  BY <1>9, <1>16, <1>17, <1>19 DEF Advance
<1>21. UNCHANGED <<module, main, args, status, fault>>
  BY <1>1 DEF Run!unchangedByStep
<1> QED BY <1>2, <1>6, <1>18, <1>20, <1>21 DEF Advances, f

(***************************************************************************)
(* The invariant of an evaluation.                                         *)
(***************************************************************************)

Statuses == {"compiling", "start", "running", "returned", "failed"}

\* Nothing runs before the compiler is done; then the stack is typed.
RunInv ==
    /\ main = Self /\ status \in Statuses
    /\ status = "running" => 1 <= Len(callStack)
    /\ status # "running" => callStack = <<>>
    /\ status # "compiling" =>
          mode = "lowered" /\ Evaluating(Explanation(header, code))

\* Every step of the evaluator is one of four.
LEMMA RunSteps ==
    ASSUME SingleIntegerFunction, NEW U, Evaluating(U),
           status = "running" => 1 <= Len(callStack),
           status # "running" => callStack = <<>>, Run!Next
    PROVE  Advances(U) \/ Enters(U) \/ Unwinds \/ UNCHANGED runVars
<1>0. status = "running" => Calling(U)
  BY DEF Calling
<1>1. CASE Run!Start
  <2>1. callStack = <<>>
    BY <1>1 DEF Run!Start
  <2> QED BY <1>1, <2>1, StartEnters
<1>2. CASE \/ Run!StartFails \/ Run!StepLimitExceeded \/ Run!EndedWithoutRet
           \/ Run!StepOpFails \/ Run!StepCallFails \/ Run!StepRetFails
  BY <1>2, FailUnwinds
     DEF Run!StartFails, Run!StepLimitExceeded, Run!EndedWithoutRet, Run!StepOpFails,
         Run!StepCallFails, Run!StepRetFails
<1>3. CASE Run!StepLabel \/ Run!StepJmp \/ Run!StepBr
  <2>1. status = "running"
    BY <1>3 DEF Run!StepLabel, Run!StepJmp, Run!StepBr, Run!Step, Run!Running
  <2> QED BY <1>0, <1>3, <2>1, ControlAdvances
<1>4. CASE \/ Run!StepConst \/ Run!StepCopy \/ Run!StepAlloca \/ Run!StepLoad
           \/ Run!StepStore \/ Run!StepUnary \/ Run!StepBinary
  <2>1. status = "running"
    BY <1>4 DEF Run!StepConst, Run!StepCopy, Run!StepAlloca, Run!StepLoad, Run!StepStore,
                Run!StepUnary, Run!StepBinary, Run!IsOp, Run!Step, Run!Running
  <2> QED BY <1>0, <1>4, <2>1, ConstAdvances, CopyAdvances, AllocaAdvances, LoadAdvances,
             StoreAdvances, UnaryAdvances, BinaryAdvances
<1>5. CASE Run!StepCall
  <2>1. status = "running"
    BY <1>5 DEF Run!StepCall, Run!IsOp, Run!Step, Run!Running
  <2> QED BY <1>0, <1>5, <2>1, CallEnters
<1>6. CASE Run!ReturnToCaller
  <2>1. status = "running"
    BY <1>6 DEF Run!ReturnToCaller, Run!Returns, Run!Step, Run!Running
  <2> QED BY <1>0, <1>6, <2>1, ReturnAdvances
<1>7. CASE Run!ReturnFromMain
  <2>1. \/ Run!Fail("non-i32 result")
        \/ status' = "returned" /\ callStack' = <<>> /\ UNCHANGED <<module, main, args>>
    BY <1>7 DEF Run!ReturnFromMain
  <2> QED BY <2>1, FailUnwinds DEF Unwinds
<1>8. CASE Run!Terminated
  BY <1>8 DEF Run!Terminated, Run!vars, runVars
<1> QED BY <1>1, <1>2, <1>3, <1>4, <1>5, <1>6, <1>7, <1>8 DEF Run!Next

LEMMA NoStack ==
    ASSUME NEW h, NEW c, NEW U
    PROVE  StackTyped(<<>>, h, c, U)
<1> DEFINE s == <<>>
<1>1. IsList(s) /\ Len(s) = 0 /\ \A k \in 1..0 : FALSE
  BY EmptyList
<1> HIDE DEF s
<1>2. StackTyped(s, h, c, U)
  BY <1>1 DEF StackTyped
<1> QED BY <1>2 DEF s

LEMMA StackAdvances ==
    ASSUME NEW h, NEW c, NEW U, NEW s, StackTyped(s, h, c, U), NEW n \in 1..Len(s),
           NEW g, FrameTyped(g, h, c, U)
    PROVE  LET t == Append(SubSeq(s, 1, n - 1), g) IN StackTyped(t, h, c, U) /\ 1 <= Len(t)
<1> DEFINE t == Append(SubSeq(s, 1, n - 1), g)
<1>1. IsList(s) /\ Len(s) \in Nat
  BY ListLength DEF StackTyped
<1>2. n - 1 \in 0..Len(s) /\ (n - 1) + 1 = n /\ n \in Nat /\ n >= 1
  BY <1>1
<1>3. IsList(t) /\ Len(t) = n /\ t[n] = g /\ \A k \in 1..(n - 1) : t[k] = s[k]
  BY <1>1, <1>2, StackReplaced
<1> HIDE DEF t
<1>4. \A k \in 1..n : k < n => k \in 1..(n - 1)
  BY <1>2
<1>5. \A k \in 1..(n - 1) : k \in 1..Len(s) /\ k < Len(s)
  BY <1>1, <1>2
<1>6. \A k \in 1..n : k = n \/ k < n
  BY <1>2
<1>7. StackTyped(t, h, c, U)
  BY <1>3, <1>4, <1>5, <1>6 DEF StackTyped
<1> QED BY <1>2, <1>3, <1>7 DEF t

LEMMA StackEnters ==
    ASSUME NEW h, NEW c, NEW U, NEW s, StackTyped(s, h, c, U),
           s = <<>> \/ IsCall(c[s[Len(s)].pc]), NEW g, FrameTyped(g, h, c, U)
    PROVE  LET t == Append(s, g) IN StackTyped(t, h, c, U) /\ 1 <= Len(t)
<1> DEFINE t == Append(s, g)
           n == Len(s)
<1>1. IsList(s) /\ n \in Nat
  BY ListLength DEF StackTyped
<1>2. IsList(t) /\ Len(t) = n + 1 /\ t[n + 1] = g /\ \A k \in 1..n : t[k] = s[k]
  BY <1>1, ListAppend
<1>3. s = <<>> => n = 0
  BY EmptyList
<1>4. n # 0 => IsCall(c[s[n].pc])
  BY <1>3
<1>5. \A k \in 1..n : FrameTyped(s[k], h, c, U) /\ (k < n => IsCall(c[s[k].pc]))
  BY DEF StackTyped
<1> HIDE DEF t, n
<1>6. \A k \in 1..(n + 1) : k = n + 1 \/ k \in 1..n
  BY <1>1
<1>7. \A k \in 1..(n + 1) : k < n + 1 => k \in 1..n /\ (k < n \/ (k = n /\ n # 0))
  BY <1>1
<1>8. StackTyped(t, h, c, U)
  BY <1>2, <1>4, <1>5, <1>6, <1>7 DEF StackTyped
<1> QED BY <1>1, <1>2, <1>8 DEF t

\* What a step of the evaluator makes of the stack.
LEMMA EvaluatingStays ==
    ASSUME SingleIntegerFunction, NEW U, Evaluating(U), UNCHANGED vars,
           status = "running" => 1 <= Len(callStack),
           status # "running" => callStack = <<>>, status # "compiling",
           status \in Statuses, Run!Next
    PROVE  /\ Evaluating(U)' /\ status' \in Statuses /\ status' # "compiling"
           /\ status' = "running" => 1 <= Len(callStack')
           /\ status' # "running" => callStack' = <<>>
<1>1. /\ header' = header /\ code' = code /\ Lowered' = Lowered
      /\ Program(header, code, U) /\ StackTyped(callStack, header, code, U)
  BY DEF vars, Evaluating, Lowered
<1>2. ASSUME UNCHANGED <<module, main, args>>, StackTyped(callStack', header, code, U)
      PROVE  Evaluating(U)'
  BY <1>1, <1>2 DEF Evaluating
<1>3. CASE Advances(U)
  <2>1. PICK n \in 1..Len(callStack) :
          \E g : /\ FrameTyped(g, header, code, U)
                 /\ callStack' = Append(SubSeq(callStack, 1, n - 1), g)
                 /\ UNCHANGED <<module, main, args, status, fault>>
    BY <1>3 DEF Advances
  <2>2. PICK g : /\ FrameTyped(g, header, code, U)
                 /\ callStack' = Append(SubSeq(callStack, 1, n - 1), g)
                 /\ UNCHANGED <<module, main, args, status, fault>>
    BY <2>1
  <2>3. StackTyped(callStack', header, code, U) /\ 1 <= Len(callStack')
    BY <1>1, <2>2, StackAdvances
  <2>4. status = "running"
    <3> SUFFICES ASSUME status # "running" PROVE FALSE
      OBVIOUS
    <3>1. Len(callStack) = 0
      BY EmptyList
    <3>2. 1..0 = {}
      OBVIOUS
    <3> QED BY <3>1, <3>2
  <2> QED BY <1>2, <2>2, <2>3, <2>4
<1>4. CASE Enters(U)
  <2>1. PICK g : FrameTyped(g, header, code, U) /\ callStack' = Append(callStack, g)
    BY <1>4 DEF Enters
  <2>2. callStack = <<>> \/ IsCall(code[callStack[Len(callStack)].pc])
    <3>1. CASE callStack = <<>>
      BY <3>1
    <3>2. CASE callStack # <<>>
      <4>1. Calling(U)
        BY <3>2 DEF Calling
      <4>2. Run!inst = code[Run!frame.pc] /\ Run!frame = callStack[Len(callStack)]
        BY <4>1, Innermost
      <4>3. IsCall(Run!inst)
        BY <1>4, <3>2 DEF Enters
      <4> QED BY <4>2, <4>3
    <3> QED BY <3>1, <3>2
  <2>3. StackTyped(callStack', header, code, U) /\ 1 <= Len(callStack')
    BY <1>1, <2>1, <2>2, StackEnters
  <2>4. status' = "running" /\ UNCHANGED <<module, main, args>>
    BY <1>4 DEF Enters
  <2> QED BY <1>2, <2>3, <2>4 DEF Statuses
<1>5. CASE Unwinds
  <2>1. StackTyped(callStack', header, code, U)
    BY <1>5, NoStack DEF Unwinds
  <2> QED BY <1>2, <1>5, <2>1 DEF Unwinds, Statuses
<1>6. CASE UNCHANGED runVars
  <2>1. /\ UNCHANGED <<module, main, args>> /\ status' = status /\ callStack' = callStack
    BY <1>6 DEF runVars
  <2> QED BY <1>1, <1>2, <2>1
<1> QED BY <1>3, <1>4, <1>5, <1>6, RunSteps

LEMMA RunInvInductive ==
    ASSUME SingleIntegerFunction, CompiledInv, RunInv, [CompileRunNext]_allVars
    PROVE  RunInv'
<1> DEFINE U == Explanation(header, code)
<1>1. CASE UNCHANGED allVars
  <2>1. /\ main' = main /\ status' = status /\ callStack' = callStack /\ mode' = mode
        /\ header' = header /\ code' = code /\ module' = module /\ args' = args
    BY <1>1 DEF allVars, runVars, vars
  <2>2. Evaluating(U)' <=> Evaluating(U)
    BY <2>1 DEF Evaluating, Lowered
  <2> QED BY <2>1, <2>2 DEF RunInv
<1>2. CASE Compile
  BY <1>2 DEF Compile, runVars, RunInv
<1>3. ASSUME NEW argv \in ArgumentLists, EvaluateFunction(argv) PROVE RunInv'
  <2>1. /\ status = "compiling" /\ mode = "lowered" /\ module' = [f \in {Self} |-> Lowered]
        /\ args' = argv /\ status' = "start" /\ main' = main /\ callStack' = callStack
        /\ header' = header /\ code' = code /\ mode' = mode
    BY <1>3 DEF EvaluateFunction, vars
  <2>2. callStack = <<>> /\ main = Self
    BY <2>1 DEF RunInv
  <2>3. Program(header, code, U)
    BY <2>1, LoweredProgram
  <2>4. Lowered' = Lowered
    BY <2>1 DEF Lowered
  <2> HIDE DEF U
  <2>5. Evaluating(U)'
    BY <2>1, <2>2, <2>3, <2>4, NoStack DEF Evaluating, U
  <2> QED BY <2>1, <2>2, <2>5 DEF RunInv, Statuses, U
<1>4. CASE Evaluate
  <2>1. status # "compiling" /\ Run!Next /\ UNCHANGED vars
    BY <1>4 DEF Evaluate
  <2>2. PICK V : V = Explanation(header, code)
    OBVIOUS
  <2>3. Evaluating(V) /\ mode = "lowered"
    BY <2>1, <2>2 DEF RunInv
  <2>4. header' = header /\ code' = code /\ mode' = mode
    BY <2>1 DEF vars
  <2>5. /\ status \in Statuses
        /\ status = "running" => 1 <= Len(callStack)
        /\ status # "running" => callStack = <<>>
    BY DEF RunInv
  <2>6. /\ Evaluating(V)' /\ status' \in Statuses /\ status' # "compiling"
        /\ status' = "running" => 1 <= Len(callStack')
        /\ status' # "running" => callStack' = <<>>
    BY <2>1, <2>3, <2>5, EvaluatingStays
  <2>7. main' = Self
    BY <2>6 DEF Evaluating
  <2>8. Evaluating(Explanation(header, code))'
    BY <2>2, <2>4, <2>6 DEF Evaluating
  <2> QED BY <2>3, <2>4, <2>6, <2>7, <2>8 DEF RunInv
<1> QED BY <1>1, <1>2, <1>3, <1>4 DEF CompileRunNext

LEMMA RunInvHolds ==
    ASSUME SingleIntegerFunction
    PROVE  CompileRunSpec => [](CompiledInv /\ RunInv)
<1>1. CompileRunInit => RunInv
  BY DEF CompileRunInit, RunInv, Statuses
<1>2. CompiledInv /\ RunInv /\ [CompileRunNext]_allVars => RunInv'
  BY RunInvInductive
<1> QED BY <1>1, <1>2, CompilesBySpec, CompiledHolds, PTL DEF CompileRunSpec

LEMMA CellsTyped ==
    ASSUME RunInv
    PROVE  CellsHoldTheirType
<1> DEFINE U == Explanation(header, code)
<1> SUFFICES ASSUME NEW i \in DOMAIN callStack,
                    NEW k \in {j \in DOMAIN code : code[j].kind = "op" /\ code[j].opcode = "alloca"},
                    code[k].dst.text \in DOMAIN callStack[i].values,
                    callStack[i].values[code[k].dst.text].n \in DOMAIN callStack[i].memory
             PROVE  (callStack[i].memory[callStack[i].values[code[k].dst.text].n].kind = "ptr")
                      <=> IsPointerType(code[k].operands[1].text[2])
  BY DEF CellsHoldTheirType
<1> DEFINE f == callStack[i]
           ins == code[k]
           v == f.values[ins.dst.text]
<1>1. status = "running"
  <2> DEFINE none == <<>>
  <2>1. DOMAIN none = {}
    OBVIOUS
  <2> HIDE DEF none
  <2>2. callStack # none
    BY <2>1
  <2> QED BY <2>2 DEF RunInv, none
<1>2. Evaluating(U)
  BY <1>1 DEF RunInv
<1> HIDE DEF U
<1>3. FrameTyped(f, header, code, U)
  BY <1>2, ListLength DEF Evaluating, StackTyped
<1>4. ins.kind = "op" /\ ins.opcode = "alloca" /\ Rule(header, U, ins)
  BY <1>2 DEF Evaluating, Program, IsCode
<1> HIDE DEF f, ins
<1>5. PICK t \in Types : ins.operands[1].text = <<"type", t>>
  BY <1>4 DEF Rule, Reads
<1>6. ins.operands[1].text[2] = t
  BY <1>5
<1>7. ins.dst.text \in OwnTexts /\ U[ins.dst.text] = PointerTo(t)
  <2>1. ins.dst # NoOperand
    BY <1>4 DEF Rule, Reads, Stores
  <2> QED BY <1>4, <1>6, <2>1 DEF Rule, Defines, Result
<1>8. PICK C \in CellTypes(f.nextAddr) :
        ValuesTyped(header, U, f.values, C) /\ MemoryTyped(f.memory, C)
  BY <1>3 DEF FrameTyped
<1>9. HasType(v, PointerTo(t), C)
  <2>1. ins.dst.text \in DOMAIN f.values
    BY DEF f, ins
  <2> QED BY <1>7, <1>8, <2>1 DEF ValuesTyped, NameType
<1> HIDE DEF v
<1>10. C[v.n] = t
  BY <1>9, PointerTypes DEF HasType
<1>11. v.n \in DOMAIN f.memory
  BY DEF f, ins, v
<1>12. HasType(f.memory[v.n], t, C)
  BY <1>8, <1>10, <1>11 DEF MemoryTyped
<1>13. f.memory[v.n].kind = "ptr" <=> IsPointerType(t)
  BY <1>12 DEF HasType
<1> QED BY <1>6, <1>13 DEF f, ins, v

\* The types sema works out are those of the evaluation: in a call in progress
\* every cell that has a value has one of the type it was allocated for, however
\* deep the recursion and whatever pointers the function takes of its variables.
THEOREM CellsKeepTheirType ==
    ASSUME SingleIntegerFunction
    PROVE  CompileRunSpec => []CellsHoldTheirType
<1>1. CompiledInv /\ RunInv => CellsHoldTheirType
  BY CellsTyped
<1> QED BY <1>1, RunInvHolds, PTL

(***************************************************************************)
(* What has a value.  A call that has come to the region of a name has     *)
(* been through its definition.                                            *)
(***************************************************************************)

Available(f, c) ==
    \A text \in OwnTexts : \A R :
        Region(c, text, R, {}, {}) /\ f.pc \in R => text \in DOMAIN f.values

LEMMA NewAvailable ==
    ASSUME NEW c, NEW g, g.pc = 1
    PROVE  Available(g, c)
BY DEF Available, Region

LEMMA AdvanceAvailable ==
    ASSUME NEW c \in Seq(GoodInstructions), TargetsDefined(c), NEW f, f.pc \in 1..Len(c),
           Available(f, c), NEW g, Advance(f, g, c)
    PROVE  Available(g, c)
<1> SUFFICES ASSUME NEW text \in OwnTexts, NEW R, Region(c, text, R, {}, {}), g.pc \in R
             PROVE  text \in DOMAIN g.values
  BY DEF Available
<1> DEFINE p == f.pc
           q == g.pc
<1>1. DOMAIN c = 1..Len(c) /\ Len(c) \in Nat /\ p \in Nat
  OBVIOUS
<1>2. SUFFICES ASSUME p \in Known(c, text, R) PROVE text \in DOMAIN g.values
  <2>1. q \in NextPCs(c, p)
    BY DEF Advance
  <2>2. q \in R /\ q \in 1..Len(c)
    BY DEF Region
  <2>3. CASE c[p].kind \in {"jmp", "br"}
    <3>1. PICK l \in Targets(c[p]) : q = LabelIndex(c, l)
      BY <2>1, <2>3 DEF NextPCs
    <3>2. q \in LabelAt(c, l)
      <4>1. LabelAt(c, l) # {}
        <5>1. l \in Defined(c)
          BY <1>1, <3>1 DEF TargetsDefined
        <5> QED BY <5>1 DEF Defined, LabelAt
      <4> QED BY <3>1, <4>1 DEF LabelIndex
    <3>3. c[q].kind = "label" /\ c[q].label \in Targets(c[p])
      BY <3>1, <3>2 DEF LabelAt
    <3>4. p \in Known(c, text, R)
      BY <2>2, <3>3 DEF Region
    <3> QED BY <1>2, <3>4
  <2>4. CASE c[p].kind \notin {"jmp", "br"}
    <3>1. q = p + 1
      BY <2>1, <2>4 DEF NextPCs
    <3>2. q - 1 = p
      BY <1>1, <3>1
    <3>3. p \in Known(c, text, R)
      BY <2>2, <3>2 DEF Region
    <3> QED BY <1>2, <3>3
  <2> QED BY <2>3, <2>4
<1>3. CASE p \in R
  <2>1. text \in DOMAIN f.values
    BY <1>3 DEF Available
  <2> QED BY <2>1 DEF Advance
<1>4. CASE p \in DefinitionsOf(c, text)
  <2>1. c[p].kind = "op" /\ c[p].dst.text = text
    BY <1>4 DEF DefinitionsOf
  <2> QED BY <2>1 DEF Advance
<1> QED BY <1>2, <1>3, <1>4 DEF Known

\* The calls in progress have all the values they have been through the
\* definitions of.
AvailableInv ==
    status # "compiling" => \A k \in 1..Len(callStack) : Available(callStack[k], code)

LEMMA AvailableStays ==
    ASSUME SingleIntegerFunction, NEW U, Evaluating(U), UNCHANGED vars,
           status = "running" => 1 <= Len(callStack),
           status # "running" => callStack = <<>>,
           \A k \in 1..Len(callStack) : Available(callStack[k], code), Run!Next
    PROVE  \A k \in 1..Len(callStack') : Available(callStack'[k], code')
<1> DEFINE s == callStack
<1>1. /\ code' = code /\ code \in Seq(GoodInstructions) /\ TargetsDefined(code)
      /\ IsList(s) /\ Len(s) \in Nat
      /\ \A k \in 1..Len(s) : s[k].pc \in 1..Len(code)
  BY ListLength DEF vars, Evaluating, Program, StackTyped, FrameTyped
<1>2. CASE Advances(U)
  <2>1. PICK n \in 1..Len(s) : \E g : /\ Advance(s[n], g, code)
                                      /\ callStack' = Append(SubSeq(s, 1, n - 1), g)
    BY <1>2 DEF Advances
  <2>2. PICK g : /\ Advance(s[n], g, code)
                 /\ callStack' = Append(SubSeq(s, 1, n - 1), g)
    BY <2>1
  <2>3. Available(g, code)
    <3> DEFINE f == s[n]
    <3>1. Available(f, code) /\ f.pc \in 1..Len(code) /\ Advance(f, g, code)
      BY <1>1, <2>2
    <3> HIDE DEF f
    <3> QED BY <1>1, <3>1, AdvanceAvailable
  <2> DEFINE t == Append(SubSeq(s, 1, n - 1), g)
  <2>4. n - 1 \in 0..Len(s) /\ (n - 1) + 1 = n /\ n \in Nat
        /\ \A k \in 1..n : k = n \/ k \in 1..(n - 1)
    BY <1>1
  <2>5. Len(t) = n /\ t[n] = g /\ \A k \in 1..(n - 1) : t[k] = s[k]
    BY <1>1, <2>4, StackReplaced
  <2> HIDE DEF t
  <2>6. \A k \in 1..(n - 1) : k \in 1..Len(s)
    BY <1>1
  <2>7. \A k \in 1..Len(t) : Available(t[k], code)
    BY <2>3, <2>4, <2>5, <2>6
  <2> QED BY <1>1, <2>2, <2>7 DEF t
<1>3. CASE Enters(U)
  <2>1. PICK g : g.pc = 1 /\ callStack' = Append(s, g)
    BY <1>3 DEF Enters
  <2>2. Available(g, code)
    BY <2>1, NewAvailable
  <2> DEFINE t == Append(s, g)
             n == Len(s)
  <2>3. Len(t) = n + 1 /\ t[n + 1] = g /\ \A k \in 1..n : t[k] = s[k]
    BY <1>1, ListAppend
  <2>4. \A k \in 1..(n + 1) : k = n + 1 \/ k \in 1..n
    BY <1>1
  <2> HIDE DEF t
  <2>5. \A k \in 1..Len(t) : Available(t[k], code)
    BY <2>2, <2>3, <2>4
  <2> QED BY <1>1, <2>1, <2>5 DEF t
<1>4. CASE Unwinds
  <2>1. callStack' = <<>> /\ 1..0 = {}
    BY <1>4 DEF Unwinds
  <2>2. Len(callStack') = 0
    BY <2>1, EmptyList
  <2> QED BY <2>1, <2>2
<1>5. CASE UNCHANGED runVars
  <2>1. callStack' = callStack
    BY <1>5 DEF runVars
  <2> QED BY <1>1, <2>1
<1> QED BY <1>2, <1>3, <1>4, <1>5, RunSteps

LEMMA AvailableInductive ==
    ASSUME SingleIntegerFunction, RunInv, AvailableInv, [CompileRunNext]_allVars
    PROVE  AvailableInv'
<1>1. CASE UNCHANGED allVars
  BY <1>1 DEF allVars, runVars, vars, AvailableInv
<1>2. CASE Compile
  BY <1>2 DEF Compile, runVars, AvailableInv
<1>3. ASSUME NEW argv \in ArgumentLists, EvaluateFunction(argv) PROVE AvailableInv'
  <2>1. callStack' = <<>> /\ 1..0 = {}
    BY <1>3 DEF EvaluateFunction, RunInv
  <2>2. Len(callStack') = 0
    BY <2>1, EmptyList
  <2> QED BY <2>1, <2>2 DEF AvailableInv
<1>4. CASE Evaluate
  <2>1. status # "compiling" /\ Run!Next /\ UNCHANGED vars
    BY <1>4 DEF Evaluate
  <2>2. PICK U : Evaluating(U)
    BY <2>1 DEF RunInv
  <2>3. /\ status = "running" => 1 <= Len(callStack)
        /\ status # "running" => callStack = <<>>
        /\ \A k \in 1..Len(callStack) : Available(callStack[k], code)
    BY <2>1 DEF RunInv, AvailableInv
  <2>4. \A k \in 1..Len(callStack') : Available(callStack'[k], code')
    BY <2>1, <2>2, <2>3, AvailableStays
  <2> QED BY <2>4 DEF AvailableInv
<1> QED BY <1>1, <1>2, <1>3, <1>4 DEF CompileRunNext

(***************************************************************************)
(* What an accepted program may fail with.                                 *)
(***************************************************************************)

DefinedInv == CompiledInv /\ NamesBelowCounter /\ DominanceInv

LEMMA DefinedHolds ==
    ASSUME SubstatementDecls = FALSE
    PROVE  Spec => []DefinedInv
<1>1. Init => NamesBelowCounter /\ DominanceInv
  BY DominanceInitially, EmptyList DEF Init, NamesBelowCounter, Fresh
<1>2. CodeInv /\ NamesBelowCounter /\ DominanceInv /\ [Next]_vars
      => NamesBelowCounter' /\ DominanceInv'
  BY EveryStepBuilds, BuildsKeepsNames, DominanceInductive DEF CodeInv
<1> QED BY <1>1, <1>2, CodeInvHolds, CompiledHolds, PTL DEF Spec, DefinedInv

\* Every name of a lowered function has a region.
LEMMA Regions ==
    ASSUME CodeInv, DominanceInv, mode = "lowered", NEW text
    PROVE  \E R : Region(code, text, R, {}, {})
<1>1. frames = <<>>
  BY DEF CodeInv, EndInv, Ended
<1>2. PICK home : /\ Homes(home, Len(scopes), frames)
                  /\ \A t : \E R : Held(t, R, home, code, frames, scopes, ActiveTexts)
  BY DEF DominanceInv, Dominated
<1>3. IsList(code)
  BY DEF DominanceInv, Dominated
<1>4. PICK R : Held(text, R, home, code, frames, scopes, ActiveTexts)
  BY <1>2
<1>5. text \notin VariableTexts(scopes)
  <2>1. Len(frames) = 0 /\ \A m \in 1..0 : FALSE
    BY <1>1, EmptyList
  <2>2. \A k \in 1..Len(scopes) : FALSE
    BY <1>2, <2>1 DEF Homes
  <2> QED BY <2>2 DEF VariableTexts
<1>6. Region(code, text, R, {}, AllHeads(frames))
  BY <1>4, <1>5 DEF Held
<1> DEFINE none == {}
           heads == AllHeads(frames)
<1>7. \A l : l \notin none
  OBVIOUS
<1>8. Region(code, text, R, none, heads)
  BY <1>6
<1> HIDE DEF none, heads
<1>9. Region(code, text, R, none, none)
  BY <1>3, <1>7, <1>8, RegionLabels
<1> QED BY <1>9 DEF none

\* The operators of the code take integers.
IntegersOnly(h, c, U) ==
    \A i \in 1..Len(c) :
        /\ c[i].kind = "br" => TypeIn(h, U, c[i].cond) = I32
        /\ c[i].kind = "op" /\ c[i].opcode \in UnaryOpcodes \cup BinaryOpcodes =>
              \A k \in DOMAIN c[i].operands : TypeIn(h, U, c[i].operands[k]) = I32

LEMMA OperatorsAreOnIntegers ==
    ASSUME CodeInv, NamesBelowCounter, mode = "lowered", OperatorsTakeIntegers,
           NEW U, Typed(header, code, U)
    PROVE  IntegersOnly(header, code, U)
<1>1. code \in Seq(GoodInstructions) /\ SingleNames(code)
  BY NamesAreSingle DEF CodeInv, TypeInv
<1> SUFFICES ASSUME NEW i \in 1..Len(code)
             PROVE  /\ code[i].kind = "br" => TypeIn(header, U, code[i].cond) = I32
                    /\ code[i].kind = "op" /\ code[i].opcode \in UnaryOpcodes \cup BinaryOpcodes
                          => \A k \in DOMAIN code[i].operands :
                                TypeIn(header, U, code[i].operands[k]) = I32
  BY DEF IntegersOnly
<1>2. i \in DOMAIN code /\ code[i] \in GoodInstructions
  BY <1>1
<1> DEFINE ins == code[i]
<1>3. CASE ins.kind = "br"
  <2> DEFINE o == ins.cond
  <2>1. OperandType(code, o) = I32
    BY <1>2, <1>3 DEF OperatorsTakeIntegers
  <2>2. o \in Operands /\ o.kind # "none"
    BY <1>2, <1>3 DEF GoodInstructions, Instructions, VerifyInstruction
  <2>3. o.kind \in ValueKinds
    BY <2>2 DEF Operands, Slots, ValueKinds, NoOperand, Operand
  <2>4. o.kind \in OwnKinds => o.text \in UsedBy(ins)
    BY <1>3 DEF UsedBy, TextsOf, OwnKinds
  <2>5. TypeIn(header, U, o) = I32
    <3> HIDE DEF o
    <3> QED BY <1>1, <2>1, <2>3, <2>4, OperandTypeIs
  <2> QED BY <1>3, <2>5
<1>4. ASSUME ins.kind = "op", ins.opcode \in UnaryOpcodes \cup BinaryOpcodes,
             NEW k \in DOMAIN ins.operands
      PROVE  TypeIn(header, U, ins.operands[k]) = I32
  <2> DEFINE o == ins.operands[k]
  <2>1. OperandType(code, o) = I32
    BY <1>2, <1>4 DEF OperatorsTakeIntegers
  <2>2. o.kind \in ValueKinds /\ (o.kind \in OwnKinds => o.text \in UsedBy(ins))
    BY <1>2, <1>4, OperandsThere, NamesRead
  <2>3. TypeIn(header, U, o) = I32
    <3> HIDE DEF o
    <3> QED BY <1>1, <2>1, <2>2, OperandTypeIs
  <2> QED BY <2>3
<1> QED BY <1>3, <1>4

\* The innermost call has all the values its instruction reads, and operators
\* are applied to integers.
Secure(U) ==
    /\ Calling(U) /\ IntegersOnly(header, code, U)
    /\ \A text \in UsedBy(Run!inst) : text \in DOMAIN Run!frame.values

LEMMA StackIsSecure ==
    ASSUME NEW U, Calling(U), IntegersOnly(header, code, U),
           \A text : \E R : Region(code, text, R, {}, {}),
           \A k \in 1..Len(callStack) : Available(callStack[k], code)
    PROVE  Secure(U)
<1> DEFINE f == Run!frame
<1>1. /\ f.pc \in 1..Len(code) /\ Run!inst = code[f.pc] /\ Run!inst \in GoodInstructions
      /\ Available(f, code)
  BY Innermost
<1> HIDE DEF f
<1>2. ASSUME NEW text \in UsedBy(Run!inst) PROVE text \in DOMAIN f.values
  <2>1. text \in OwnTexts
    BY <1>1, UsedAreOwn
  <2>2. PICK R : Region(code, text, R, {}, {})
    OBVIOUS
  <2>3. f.pc \in R
    BY <1>1, <1>2, <2>2 DEF Region
  <2> QED BY <1>1, <2>1, <2>2, <2>3 DEF Available
<1> QED BY <1>2 DEF Secure, f

\* What an operand the instruction reads is good for.
LEMMA SecureOperand ==
    ASSUME SingleIntegerFunction, NEW U, Secure(U), NEW o \in Operands, Sourced(header, o),
           o.kind \in OwnKinds => o.text \in UsedBy(Run!inst)
    PROVE  /\ Run!Resolves(o) /\ Run!ResolveFault(o) = "none"
           /\ TypeIn(header, U, o) = I32 =>
                 Run!KindFault(o, "i32") = "none" /\ Run!ResolvesTo(o, "i32")
           /\ IsPointerType(TypeIn(header, U, o)) => Run!KindFault(o, "ptr") = "none"
<1>1. Calling(U)
  BY DEF Secure
<1>2. /\ ParamTexts(header) \subseteq DOMAIN Run!frame.values
      /\ \E C : ValuesTyped(header, U, Run!frame.values, C)
  BY <1>1, Innermost DEF FrameTyped
<1>3. Run!Resolves(o)
  <2>1. o.kind \in OwnKinds => o.text \in DOMAIN Run!frame.values
    BY DEF Secure
  <2> DEFINE values == Run!frame.values
             h == header
  <2>2. /\ values = Run!frame.values /\ ParamTexts(h) \subseteq DOMAIN values
        /\ Sourced(h, o) /\ (o.kind \in OwnKinds => o.text \in DOMAIN values)
    BY <1>2, <2>1
  <2> HIDE DEF values, h
  <2> QED BY <2>2, SourcedResolves
<1>4. PICK C : ValuesTyped(header, U, Run!frame.values, C)
  BY <1>2
<1>5. HasType(Run!ValueOf(o), TypeIn(header, U, o), C)
  BY <1>1, <1>3, <1>4, FrameOperand
<1>6. ASSUME NEW kind \in {"i32", "ptr"}, Run!ValueOf(o).kind = kind
      PROVE  Run!KindFault(o, kind) = "none" /\ Run!ResolvesTo(o, kind)
  <2> DEFINE there == Run!Resolves(o)
             same  == Run!ValueOf(o).kind = kind
  <2>1. Run!KindFault(o, kind) =
          CASE ~there -> "unknown value"
            [] there /\ ~same -> IF kind = "i32" THEN "expected i32 value"
                                 ELSE "expected pointer value"
            [] OTHER -> "none"
    BY DEF Run!KindFault
  <2>2. there /\ same
    BY <1>3, <1>6
  <2>3. Run!ResolvesTo(o, kind)
    BY <2>2 DEF Run!ResolvesTo
  <2> HIDE DEF there, same
  <2> QED BY <2>1, <2>2, <2>3
<1>7. TypeIn(header, U, o) = I32 => Run!ValueOf(o).kind = "i32"
  BY <1>5, PointerTypes DEF HasType
<1>8. IsPointerType(TypeIn(header, U, o)) => Run!ValueOf(o).kind = "ptr"
  BY <1>5 DEF HasType
<1>9. Run!ResolveFault(o) = "none"
  BY <1>3 DEF Run!ResolveFault
<1> QED BY <1>3, <1>6, <1>7, <1>8, <1>9

\* The operands of an operation that is not an allocation.
LEMMA OperationOperands ==
    ASSUME NEW U, Calling(U), Run!inst.kind = "op", Run!inst.opcode # "alloca",
           NEW k \in DOMAIN Run!inst.operands
    PROVE  LET o == Run!operand(k) IN
           /\ o = Run!inst.operands[k] /\ o \in Operands /\ Sourced(header, o)
           /\ o.kind \in OwnKinds => o.text \in UsedBy(Run!inst)
<1> DEFINE i == Run!inst
<1>1. i \in GoodInstructions /\ Rule(header, U, i)
  BY Innermost
<1>2. Run!operand(k) = i.operands[k]
  BY DEF Run!operand
<1>3. i.kind = "op" /\ i.opcode # "alloca" /\ k \in DOMAIN i.operands
  OBVIOUS
<1> HIDE DEF i
<1>4. i.operands \in Seq(Operands) /\ DOMAIN i.operands = 1..Len(i.operands)
  BY <1>1, <1>3, OperandsThere
<1>5. i.operands[k] \in Operands
  BY <1>3, <1>4
<1>6. Sourced(header, i.operands[k])
  BY <1>1, <1>3 DEF Rule, Reads
<1>7. i.operands[k].kind \in OwnKinds => i.operands[k].text \in UsedBy(i)
  BY <1>1, <1>3, NamesRead
<1> QED BY <1>2, <1>5, <1>6, <1>7 DEF i

LEMMA SecureOperations ==
    ASSUME SingleIntegerFunction, NEW U, Secure(U), Run!inst.kind = "op",
           Run!inst.opcode \in Opcodes \ {"call"}
    PROVE  Run!OpFault \in SourceFaults
<1> DEFINE i == Run!inst
           d == Run!NoDestinationFault
           S == {"none", "uninitialized load", "division by zero"}
<1>0. Calling(U) /\ IntegersOnly(header, code, U)
  BY DEF Secure
<1>1. /\ i \in GoodInstructions /\ Rule(header, U, i)
      /\ i.opcode \in UnaryOpcodes \cup BinaryOpcodes =>
            \A k \in DOMAIN i.operands : TypeIn(header, U, i.operands[k]) = I32
  <2>1. Run!frame.pc \in 1..Len(code) /\ i = code[Run!frame.pc]
    BY <1>0, Innermost
  <2> QED BY <1>0, <2>1, Innermost DEF IntegersOnly
<1>2. /\ 1 \in DOMAIN i.operands
      /\ i.opcode \in {"store", "storeInd"} => 2 \in DOMAIN i.operands
  <2> HIDE DEF i
  <2>1. i.kind = "op" /\ i.opcode # "call"
    BY DEF i
  <2> QED BY <1>1, <2>1, OperandsThere
<1>3. i.opcode \notin Stores => d = "none"
  <2>1. i.opcode \notin Stores => i.dst # NoOperand
    BY <1>1 DEF Rule, Reads
  <2> QED BY <2>1, SameNames DEF Run!NoDestinationFault
<1>4. S \subseteq SourceFaults
  BY DEF SourceFaults
<1>5. \A a : /\ a = "none" => Run!FirstFault(<<a, d>>) \in {"none", d}
             /\ Run!FirstFault(<<a, d>>) \in {"none", a, d}
  BY TwoFaults
<1>6. ASSUME NEW k \in DOMAIN i.operands, i.opcode # "alloca"
      PROVE  /\ Run!ResolveFault(Run!operand(k)) = "none"
             /\ TypeIn(header, U, i.operands[k]) = I32 =>
                   Run!KindFault(Run!operand(k), "i32") = "none"
             /\ IsPointerType(TypeIn(header, U, i.operands[k])) =>
                   Run!KindFault(Run!operand(k), "ptr") = "none"
  <2> DEFINE o == Run!operand(k)
  <2>1. /\ o = i.operands[k] /\ o \in Operands /\ Sourced(header, o)
        /\ o.kind \in OwnKinds => o.text \in UsedBy(i)
    BY <1>0, <1>6, OperationOperands
  <2> HIDE DEF o
  <2>2. /\ Run!ResolveFault(o) = "none"
        /\ TypeIn(header, U, o) = I32 => Run!KindFault(o, "i32") = "none"
        /\ IsPointerType(TypeIn(header, U, o)) => Run!KindFault(o, "ptr") = "none"
    BY <2>1, SecureOperand
  <2> QED BY <2>1, <2>2 DEF o
<1> HIDE DEF d
<1>7. CASE i.opcode = "const"
  <2> DEFINE o == i.operands[1]
             a == IF o.text[2] \in Run!Words THEN "none" ELSE "invalid constant"
  <2>1. o.kind = "imm"
    <3>1. VerifyOpcodeOperands(i)
      BY <1>1 DEF GoodInstructions, VerifyInstruction
    <3>2. OperandKinds(i.opcode) = <<{"imm"}>>
      BY <1>7 DEF OperandKinds, UnaryOpcodes, BinaryOpcodes, ArithOpcodes, CompareOpcodes
    <3>3. o.kind \in OperandKinds(i.opcode)[1]
      BY <1>2, <1>7, <3>1 DEF VerifyOpcodeOperands
    <3> QED BY <3>2, <3>3
  <2>2. Sourced(header, o)
    BY <1>1, <1>2, <1>7 DEF Rule, Reads
  <2>3. PICK c \in 0..MaxInt : o.text = <<"n", c>>
    BY <2>1, <2>2 DEF Sourced, OwnKinds
  <2>4. o.text[2] = c /\ c \in Run!Words
    BY <2>3 DEF SingleIntegerFunction
  <2>5. a = "none"
    BY <2>4
  <2>6. Run!OpFault = Run!FirstFault(<<a, d>>)
    BY <1>7, RunFaults DEF d, Run!operand
  <2> HIDE DEF a
  <2>7. d = "none"
    BY <1>3, <1>7 DEF Stores
  <2> QED BY <1>4, <1>5, <2>5, <2>6, <2>7
<1>8. CASE i.opcode = "const8"
  <2>1. Result(U, i)
    BY <1>1, <1>8 DEF Rule, Reads, Stores, Defines
  <2>2. i.operands[1].kind \in OwnKinds
    BY <1>8, <2>1 DEF Result, Derived, Opcodes, CompareOpcodes
  <2>3. VerifyOpcodeOperands(i)
    BY <1>1 DEF GoodInstructions, VerifyInstruction
  <2>4. OperandKinds(i.opcode) = <<{"imm"}>>
    BY <1>8 DEF OperandKinds, UnaryOpcodes, BinaryOpcodes, ArithOpcodes, CompareOpcodes
  <2>5. i.operands[1].kind \in OperandKinds(i.opcode)[1]
    BY <1>2, <1>8, <2>3 DEF VerifyOpcodeOperands
  <2> QED BY <2>2, <2>4, <2>5 DEF OwnKinds
<1>9. CASE i.opcode = "copy"
  <2> DEFINE a == Run!ResolveFault(Run!operand(1))
  <2>1. a = "none" /\ d = "none"
    BY <1>2, <1>3, <1>6, <1>9 DEF Stores
  <2>2. Run!OpFault = Run!FirstFault(<<a, d>>)
    BY <1>9, RunFaults DEF d
  <2> HIDE DEF a
  <2> QED BY <1>4, <1>5, <2>1, <2>2
<1>10. CASE i.opcode = "alloca"
  <2>1. Run!OpFault = d
    BY <1>10, RunFaults DEF d
  <2> QED BY <1>3, <1>4, <1>10, <2>1 DEF Stores
<1>11. CASE i.opcode \in {"load", "loadInd"}
  <2> DEFINE o == Run!operand(1)
             a == Run!LoadFault(o)
  <2>1. IsPointerType(TypeIn(header, U, i.operands[1]))
    BY <1>1, <1>11 DEF Rule, Demands
  <2>2. Run!KindFault(o, "ptr") = "none"
    BY <1>2, <1>6, <1>11, <2>1
  <2>3. a \in {"none", "uninitialized load"}
    <3> HIDE DEF o
    <3> QED BY <2>2 DEF Run!LoadFault
  <2>4. d = "none"
    BY <1>3, <1>11 DEF Stores
  <2>5. Run!OpFault = Run!FirstFault(<<a, d>>)
    BY <1>11, RunFaults DEF d
  <2> HIDE DEF a
  <2> QED BY <1>4, <1>5, <2>3, <2>4, <2>5
<1>12. CASE i.opcode \in {"store", "storeInd"}
  <2> DEFINE a == Run!KindFault(Run!operand(1), "ptr")
             b == Run!ResolveFault(Run!operand(2))
             t == TypeIn(header, U, i.operands[2])
  <2>1. TypeIn(header, U, i.operands[1]) = PointerTo(t)
    BY <1>1, <1>12 DEF Rule, Demands
  <2>2. t \in Types
    <3>1. Run!operand(2) = i.operands[2] /\ i.operands[2] \in Operands
          /\ Sourced(header, i.operands[2])
      BY <1>0, <1>2, <1>12, OperationOperands
    <3>2. header \in Headers /\ U \in Typings
      BY <1>0 DEF Calling, Evaluating, Program
    <3> HIDE DEF i
    <3> QED BY <3>1, <3>2, TypesIn
  <2>3. IsPointerType(PointerTo(t))
    <3> HIDE DEF t
    <3> QED BY <2>2, PointerTypes
  <2>4. a = "none" /\ b = "none"
    <3> HIDE DEF t
    <3> QED BY <1>2, <1>6, <1>12, <2>1, <2>3
  <2>5. Run!OpFault = Run!FirstFault(<<a, b>>)
    BY <1>12, RunFaults
  <2> HIDE DEF a, b
  <2>6. Run!OpFault \in {"none", a, b}
    BY <2>5, TwoFaults
  <2> QED BY <1>4, <2>4, <2>6
<1>13. CASE i.opcode \in UnaryOpcodes
  <2> DEFINE a == Run!KindFault(Run!operand(1), "i32")
  <2>0. i.opcode \notin Stores \cup {"alloca"}
    BY <1>13 DEF UnaryOpcodes, Stores
  <2>1. a = "none" /\ d = "none"
    BY <1>1, <1>2, <1>3, <1>6, <1>13, <2>0
  <2>2. Run!OpFault = Run!FirstFault(<<a, d>>)
    BY <1>13, RunFaults DEF d
  <2> HIDE DEF a
  <2> QED BY <1>4, <1>5, <2>1, <2>2
<1>14. CASE i.opcode \in BinaryOpcodes
  <2> DEFINE a == Run!KindFault(Run!operand(1), "i32")
             b == Run!KindFault(Run!operand(2), "i32")
             e == Run!DivisionFault
             kinds == Run!FirstFault(<<a, b>>)
  <2>0. i.opcode \notin Stores \cup {"alloca", "call"}
    BY <1>14 DEF BinaryOpcodes, ArithOpcodes, CompareOpcodes, Stores
  <2>1. 2 \in DOMAIN i.operands
    <3>1. VerifyOpcodeOperands(i)
      BY <1>1 DEF GoodInstructions, VerifyInstruction
    <3> DEFINE k2 == <<ValueKinds, ValueKinds>>
    <3>2. OperandKinds(i.opcode) = k2
      BY <1>14 DEF OperandKinds, UnaryOpcodes, BinaryOpcodes, ArithOpcodes, CompareOpcodes
    <3>3. Len(k2) = 2
      OBVIOUS
    <3> HIDE DEF k2
    <3>4. Len(i.operands) = 2
      BY <2>0, <3>1, <3>2, <3>3 DEF VerifyOpcodeOperands
    <3>5. DOMAIN i.operands = 1..Len(i.operands)
      BY <1>1, OperandsThere
    <3> QED BY <3>4, <3>5
  <2>2. a = "none" /\ b = "none" /\ d = "none"
    BY <1>1, <1>2, <1>3, <1>6, <1>14, <2>0, <2>1
  <2>3. e \in {"none", "division by zero"}
    BY DEF Run!DivisionFault
  <2>4. Run!OpFault = IF kinds # "none" THEN kinds ELSE Run!FirstFault(<<e, d>>)
    BY <1>14, RunFaults DEF d
  <2>5. kinds \in {"none", a, b}
    <3> HIDE DEF a, b
    <3> QED BY TwoFaults
  <2> HIDE DEF a, b, e, kinds
  <2>6. Run!FirstFault(<<e, d>>) \in {"none", e, d}
    BY TwoFaults
  <2> QED BY <1>4, <2>2, <2>3, <2>4, <2>5, <2>6
<1> QED BY <1>7, <1>8, <1>9, <1>10, <1>11, <1>12, <1>13, <1>14 DEF Opcodes

\* A call of the function with as many arguments as it has parameters is refused
\* at the depth limit only.
LEMMA EntryFaults ==
    ASSUME NEW U, Evaluating(U), NEW argv, NEW depth, Len(argv) = Len(header.params)
    PROVE  Run!EnterFault(Self, argv, depth) \in {"none", "maximum call depth"}
<1> DEFINE named == [k \in DOMAIN header.params |-> header.params[k].name]
<1>1. DOMAIN module = {Self} /\ module[Self].params = named
  BY ModuleFields DEF Evaluating
<1>2. Len(named) = Len(header.params)
  <2>1. header.params \in Seq(Parameters)
    BY HeadersAssumption DEF Evaluating, Program
  <2> QED BY <2>1
<1>3. Self \in DOMAIN module /\ Len(argv) = Len(module[Self].params)
  BY <1>1, <1>2
<1> DEFINE deep == depth >= MaxCallDepth
           free == depth < MaxCallDepth
<1>4. Run!EnterFault(Self, argv, depth) =
        CASE deep -> "maximum call depth"
          [] free /\ Self \notin DOMAIN module -> "missing function"
          [] free /\ Self \in DOMAIN module
                /\ Len(argv) # Len(module[Self].params) -> "argument count"
          [] OTHER -> "none"
  BY DEF Run!EnterFault
<1> HIDE DEF deep, free
<1>5. CASE deep
  <2>1. Run!EnterFault(Self, argv, depth) = CASE deep -> "maximum call depth" [] OTHER -> "none"
    BY <1>3, <1>4
  <2> QED BY <1>5, <2>1
<1>6. CASE ~deep
  BY <1>3, <1>4, <1>6
<1> QED BY <1>5, <1>6

\* EvaluateFunction starts the function.
LEMMA StartSecure ==
    ASSUME SingleIntegerFunction, NEW U, Evaluating(U), Run!ValidateFunctionIR(code)
    PROVE  Run!StartFault \in SourceFaults
<1>1. Run!ModuleValid
  <2>1. DOMAIN module = {Self} /\ module[Self].code = code
    BY ModuleFields DEF Evaluating
  <2> QED BY <2>1 DEF Run!ModuleValid
<1>2. main = Self /\ args \in ArgumentLists /\ header \in Headers
  BY DEF Evaluating, Program
<1>3. args \in Seq(Run!Words) /\ Len(args) = Len(header.params)
  BY <1>2 DEF SingleIntegerFunction
<1> DEFINE argv == Run!StartArguments
<1>4. Len(argv) = Len(header.params)
  BY <1>3 DEF Run!StartArguments
<1> HIDE DEF argv
<1>5. Run!EnterFault(Self, argv, 0) \in {"none", "maximum call depth"}
  BY <1>4, EntryFaults
<1>6. Run!StartFault = Run!EnterFault(Self, argv, 0)
  BY <1>1, <1>2 DEF Run!StartFault, argv
<1> QED BY <1>5, <1>6 DEF SourceFaults

LEMMA CallsSecure ==
    ASSUME SingleIntegerFunction, NEW U, Secure(U), IsCall(Run!inst)
    PROVE  Run!CallFault \in SourceFaults
<1> DEFINE i == Run!inst
           argv == Run!CallArguments
           depth == Len(callStack)
<1>1. Calling(U) /\ Evaluating(U) /\ Program(header, code, U)
  BY DEF Secure, Calling, Evaluating
<1>2. i \in GoodInstructions /\ Rule(header, U, i)
  BY <1>1, Innermost
<1>3. i.callee = Self /\ Len(i.operands) = Len(header.params)
  <2> HIDE DEF i
  <2>1. IsCall(i)
    BY DEF i
  <2> QED BY <1>1, <1>2, <2>1, CallsItself
<1>4. ASSUME NEW k \in DOMAIN i.operands PROVE Run!Resolves(i.operands[k])
  <2> DEFINE o == Run!operand(k)
  <2>1. /\ o = i.operands[k] /\ o \in Operands /\ Sourced(header, o)
        /\ o.kind \in OwnKinds => o.text \in UsedBy(i)
    BY <1>1, OperationOperands DEF IsCall
  <2> HIDE DEF o
  <2>2. Run!Resolves(o)
    BY <2>1, SecureOperand
  <2> QED BY <2>1, <2>2
<1>5. Len(argv) = Len(header.params)
  <2>1. i.kind = "op"
    BY DEF IsCall
  <2> HIDE DEF i
  <2>2. i.operands \in Seq(Operands)
    BY <1>2, <2>1, OperandsThere
  <2>3. argv = [k \in DOMAIN i.operands |-> Run!ValueOf(i.operands[k])]
    BY DEF Run!CallArguments, i
  <2> HIDE DEF argv
  <2>4. DOMAIN argv = 1..Len(i.operands) /\ Len(i.operands) \in Nat
    BY <2>2, <2>3
  <2>5. Len(argv) = Len(i.operands)
    BY <2>2, <2>3
  <2> QED BY <1>3, <2>5
<1> HIDE DEF argv, depth
<1>6. Run!EnterFault(Self, argv, depth) \in {"none", "maximum call depth"}
  BY <1>1, <1>5, EntryFaults
<1>7. Run!CallFault = Run!EnterFault(Self, argv, depth)
  BY <1>3, <1>4 DEF Run!CallFault, argv, depth
<1> QED BY <1>6, <1>7 DEF SourceFaults

\* A branch is on an integer that is there, and what is returned is there.
LEMMA BranchSecure ==
    ASSUME SingleIntegerFunction, NEW U, Secure(U), Run!inst.kind = "br"
    PROVE  Run!ResolvesTo(Run!inst.cond, "i32")
<1> DEFINE i == Run!inst
           o == i.cond
<1>1. /\ i \in GoodInstructions /\ Rule(header, U, i)
      /\ Run!frame.pc \in 1..Len(code) /\ i = code[Run!frame.pc]
  BY Innermost DEF Secure
<1>2. TypeIn(header, U, o) = I32
  BY <1>1 DEF Secure, IntegersOnly
<1>3. Sourced(header, o)
  BY <1>1 DEF Rule, Reads
<1> HIDE DEF i
<1>4. i.kind = "br"
  BY DEF i
<1>5. o \in Operands
  BY <1>1, <1>4 DEF GoodInstructions, Instructions
<1>6. o.kind \in OwnKinds => o.text \in UsedBy(i)
  BY <1>4 DEF UsedBy, TextsOf, OwnKinds
<1> HIDE DEF o
<1>7. Run!ResolvesTo(o, "i32")
  BY <1>2, <1>3, <1>5, <1>6, SecureOperand DEF i
<1> QED BY <1>7 DEF o, i

LEMMA ReturnSecure ==
    ASSUME SingleIntegerFunction, NEW U, Secure(U), Run!inst.kind = "ret",
           Run!inst.value # Run!NoOperand
    PROVE  Run!Resolves(Run!inst.value)
<1> DEFINE i == Run!inst
           o == i.value
<1>1. i \in GoodInstructions /\ Rule(header, U, i) /\ o # NoOperand
  BY Innermost, SameNames DEF Secure
<1>2. Sourced(header, o)
  BY <1>1 DEF Rule, Reads
<1> HIDE DEF i
<1>3. i.kind = "ret"
  BY DEF i
<1>4. o \in Operands
  BY <1>1, <1>3 DEF GoodInstructions, Instructions
<1>5. o.kind \in OwnKinds => o.text \in UsedBy(i)
  BY <1>1, <1>3, NamesRead
<1> HIDE DEF o
<1>6. Run!Resolves(o)
  BY <1>2, <1>4, <1>5, SecureOperand DEF i
<1> QED BY <1>6 DEF o, i

\* No step of the evaluator leads to a fault of the intermediate code.
LEMMA StepsSecure ==
    ASSUME SingleIntegerFunction, NEW U, Evaluating(U), Run!ValidateFunctionIR(code),
           status = "running" => Secure(U), fault \in SourceFaults, Run!Next
    PROVE  fault' \in SourceFaults
<1>1. CASE Run!Start
  BY <1>1 DEF Run!Start
<1>2. CASE Run!StartFails
  BY <1>2, StartSecure DEF Run!StartFails, Run!Fail
<1>3. CASE Run!StepLimitExceeded
  BY <1>3 DEF Run!StepLimitExceeded, Run!Fail, SourceFaults
<1>4. CASE Run!EndedWithoutRet
  <2>1. Calling(U)
    BY <1>4 DEF Run!EndedWithoutRet, Secure
  <2>2. Run!body = code /\ Run!frame.pc \in 1..Len(code) /\ Run!frame.pc > Len(code)
    BY <1>4, <2>1, Innermost DEF Run!EndedWithoutRet
  <2> HIDE DEF Run!frame
  <2>3. code \in Seq(GoodInstructions)
    BY DEF Evaluating, Program
  <2> QED BY <2>2, <2>3
<1>5. CASE Run!StepLabel \/ Run!StepJmp
  BY <1>5 DEF Run!StepLabel, Run!StepJmp, Run!StepTo, Run!unchangedByStep
<1>6. CASE Run!StepBr
  <2>1. Secure(U) /\ Run!inst.kind = "br"
    BY <1>6 DEF Run!StepBr, Run!Step, Run!Running
  <2>2. Run!ResolvesTo(Run!inst.cond, "i32")
    BY <2>1, BranchSecure
  <2>3. \E l : Run!StepTo(l)
    BY <1>6, <2>2 DEF Run!StepBr
  <2> QED BY <2>3 DEF Run!StepTo, Run!unchangedByStep
<1>7. CASE \/ Run!StepConst \/ Run!StepCopy \/ Run!StepAlloca \/ Run!StepLoad
           \/ Run!StepStore \/ Run!StepUnary \/ Run!StepBinary
  BY <1>7 DEF Run!StepConst, Run!StepCopy, Run!StepAlloca, Run!StepLoad, Run!StepStore,
              Run!StepUnary, Run!StepBinary, Run!Yield, Run!unchangedByStep
<1>8. CASE Run!StepOpFails
  <2>1. /\ status = "running" /\ Run!inst.kind = "op"
        /\ Run!inst.opcode \in Run!Opcodes \ {"call"} /\ fault' = Run!OpFault
    BY <1>8 DEF Run!StepOpFails, Run!IsOp, Run!Step, Run!Running, Run!Fail
  <2>2. Run!inst.opcode \in Opcodes \ {"call"}
    BY <2>1, SameNames
  <2> QED BY <2>1, <2>2, SecureOperations
<1>9. CASE Run!StepCall
  BY <1>9 DEF Run!StepCall
<1>10. CASE Run!StepCallFails
  <2>1. status = "running" /\ IsCall(Run!inst) /\ fault' = Run!CallFault
    BY <1>10 DEF Run!StepCallFails, Run!IsOp, Run!Step, Run!Running, Run!Fail, IsCall
  <2> QED BY <2>1, CallsSecure
<1>11. CASE Run!ReturnToCaller
  BY <1>11 DEF Run!ReturnToCaller, Run!unchangedByStep
<1>12. CASE Run!ReturnFromMain
  <2>1. status = "running" /\ Run!Returns
    BY <1>12 DEF Run!ReturnFromMain, Run!Returns, Run!Step, Run!Running
  <2>2. Run!ReturnValue.kind = "i32"
    BY <2>1, ReturnsInteger DEF Secure
  <2> QED BY <1>12, <2>2 DEF Run!ReturnFromMain
<1>13. CASE Run!StepRetFails
  <2>1. /\ status = "running" /\ Run!inst.kind = "ret"
        /\ Run!inst.value # Run!NoOperand /\ ~Run!Resolves(Run!inst.value)
    BY <1>13 DEF Run!StepRetFails, Run!Step, Run!Running
  <2> QED BY <2>1, ReturnSecure
<1>14. CASE Run!Terminated
  BY <1>14 DEF Run!Terminated, Run!vars
<1> QED BY <1>1, <1>2, <1>3, <1>4, <1>5, <1>6, <1>7, <1>8, <1>9, <1>10, <1>11, <1>12, <1>13, <1>14
        DEF Run!Next

AcceptedInv == (status = "compiling" => fault = "none") /\ AcceptedProgramsRun

LEMMA AcceptedInductive ==
    ASSUME SingleIntegerFunction, DefinedInv, RunInv, AvailableInv, AcceptedInv,
           [CompileRunNext]_allVars
    PROVE  AcceptedInv'
<1>1. CASE UNCHANGED allVars
  <2>1. UNCHANGED vars /\ status' = status /\ fault' = fault
    BY <1>1 DEF allVars, runVars
  <2>2. OperatorsTakeIntegers' = OperatorsTakeIntegers
    BY <2>1 DEF vars, OperatorsTakeIntegers, OperandType
  <2> QED BY <2>1, <2>2 DEF AcceptedInv, AcceptedProgramsRun
<1>2. CASE Compile
  <2>1. status' = "compiling" /\ fault' = "none"
    BY <1>2 DEF Compile, runVars, AcceptedInv
  <2> QED BY <2>1 DEF AcceptedInv, AcceptedProgramsRun, SourceFaults
<1>3. ASSUME NEW argv \in ArgumentLists, EvaluateFunction(argv) PROVE AcceptedInv'
  <2>1. status' = "start" /\ fault' = "none"
    BY <1>3 DEF EvaluateFunction, AcceptedInv
  <2> QED BY <2>1 DEF AcceptedInv, AcceptedProgramsRun, SourceFaults
<1>4. CASE Evaluate
  <2>1. status # "compiling" /\ Run!Next /\ UNCHANGED vars
    BY <1>4 DEF Evaluate
  <2>2. PICK U : U = Explanation(header, code)
    OBVIOUS
  <2>3. Evaluating(U) /\ mode = "lowered" /\ status \in Statuses
        /\ (status = "running" => 1 <= Len(callStack))
        /\ (status # "running" => callStack = <<>>)
    BY <2>1, <2>2 DEF RunInv
  <2>4. CompiledInv /\ CodeInv /\ NamesBelowCounter /\ DominanceInv
    BY DEF DefinedInv, CompiledInv
  <2>5. status' # "compiling"
    BY <2>1, <2>3, EvaluatingStays
  <2>6. OperatorsTakeIntegers' = OperatorsTakeIntegers
    BY <2>1 DEF vars, OperatorsTakeIntegers, OperandType
  <2>7. ASSUME OperatorsTakeIntegers PROVE fault' \in SourceFaults
    <3>1. fault \in SourceFaults
      BY <2>7 DEF AcceptedInv, AcceptedProgramsRun
    <3>2. Typed(header, code, U)
      BY <2>2, <2>3, <2>4, LoweredProgram
    <3>3. IntegersOnly(header, code, U)
      BY <2>3, <2>4, <2>7, <3>2, OperatorsAreOnIntegers
    <3>4. Run!ValidateFunctionIR(code)
      BY <2>3, <2>4, LoweredCode, ValidatorExactness, SameNames
    <3>5. \A text : \E R : Region(code, text, R, {}, {})
      BY <2>3, <2>4, Regions
    <3>6. \A k \in 1..Len(callStack) : Available(callStack[k], code)
      BY <2>1 DEF AvailableInv
    <3>7. status = "running" => Secure(U)
      BY <2>3, <3>3, <3>5, <3>6, StackIsSecure DEF Calling
    <3> QED BY <2>1, <2>3, <3>1, <3>4, <3>7, StepsSecure
  <2> QED BY <2>5, <2>6, <2>7 DEF AcceptedInv, AcceptedProgramsRun
<1> QED BY <1>1, <1>2, <1>3, <1>4 DEF CompileRunNext

\* A function sema accepts, if its operators are on integers, runs to its return
\* or to a limit of the evaluator, an uninitialised variable or a division by
\* zero: every value is there when it is read and of the kind the instruction
\* takes, every label and callee exists, and the arguments are as many as the
\* parameters.  A declaration that is the whole body of an if or a loop is left
\* out: what it declares is then visible where it need not have been run.
THEOREM AcceptedProgramsKeepRunning ==
    ASSUME SingleIntegerFunction, SubstatementDecls = FALSE
    PROVE  CompileRunSpec => []AcceptedProgramsRun
<1>1. CompileRunInit => AvailableInv /\ AcceptedInv
  BY DEF CompileRunInit, AvailableInv, AcceptedInv, AcceptedProgramsRun, SourceFaults
<1>2. RunInv /\ AvailableInv /\ [CompileRunNext]_allVars => AvailableInv'
  BY AvailableInductive
<1>3. DefinedInv /\ RunInv /\ AvailableInv /\ AcceptedInv /\ [CompileRunNext]_allVars
      => AcceptedInv'
  BY AcceptedInductive
<1>4. AcceptedInv => AcceptedProgramsRun
  BY DEF AcceptedInv
<1> QED BY <1>1, <1>2, <1>3, <1>4, DefinedHolds, RunInvHolds, CompilesBySpec, PTL
        DEF CompileRunSpec
=============================================================================
