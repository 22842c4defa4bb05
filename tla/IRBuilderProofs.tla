-------------------------- MODULE IRBuilderProofs --------------------------
(***************************************************************************)
(* Theorems about every client of the builder: any labels, operands and    *)
(* callees, functions and modules of any size within the bounds.           *)
(***************************************************************************)
EXTENDS IRBuilder, TacIRProofs

AllInstructions == Instructions(Operands, Labels, Callees)

(***************************************************************************)
(* Instructions of the builder, and code made of them.                     *)
(***************************************************************************)

\* A sequence of instructions is code the validator's theorems apply to.
LEMMA InstructionsAreCode ==
    ASSUME NEW c \in Seq(AllInstructions)
    PROVE  IsCode(c)
<1>1. \A i \in AllInstructions : i.kind \in InstructionKinds
  BY DEF AllInstructions, Instructions, InstructionKinds, TerminatorKinds
<1> QED BY <1>1 DEF IsCode

\* The names the counter hands out are operands.
LEMMA FreshNames ==
    ASSUME NEW n \in Nat
    PROVE  Temp(n) \in Operands /\ StackSlot(n) \in Operands /\ NoOperand \in Operands
BY DEF Temp, StackSlot, Operand, Operands

\* What the client passes is a list of operands.
LEMMA OperandListsTyped == OperandLists \subseteq Seq(Operands)
<1>1. Values \subseteq Operands
  BY DEF Operands
<1> SUFFICES ASSUME NEW ops \in OperandLists PROVE ops \in Seq(Operands)
  OBVIOUS
<1>2. CASE ops = <<>>
  BY <1>2
<1>3. ASSUME NEW v \in Values, ops = <<v>> PROVE ops \in Seq(Operands)
  BY <1>1, <1>3
<1>4. ASSUME NEW v \in Values, NEW w \in Values, ops = <<v, w>> PROVE ops \in Seq(Operands)
  <2>1. v \in Operands /\ w \in Operands
    BY <1>1
  <2> QED BY <1>4, <2>1
<1> QED BY <1>2, <1>3, <1>4 DEF OperandLists

\* Every instruction the builder appends is one.
LEMMA BuiltInstructions ==
    /\ \A l \in Labels : Label(l) \in AllInstructions /\ Jmp(l) \in AllInstructions
    /\ \A c \in Operands, t, f \in Labels : Br(c, t, f) \in AllInstructions
    /\ \A v \in Operands : Ret(v) \in AllInstructions
    /\ \A o \in Opcodes, d \in Operands, ops \in Seq(Operands) :
          Op(o, d, ops) \in AllInstructions
    /\ \A f \in Callees, d \in Operands, args \in Seq(Operands) :
          Call(f, d, args) \in AllInstructions
BY DEF AllInstructions, Instructions, Label, Jmp, Br, Ret, Op, Call, Opcodes

(***************************************************************************)
(* Types.                                                                  *)
(***************************************************************************)

\* The state has its types in every state of every client.
THEOREM TypeCorrect == Spec => []TypeOK
<1>1. Init => TypeOK
  BY DEF Init, TypeOK, NoCall
<1>2. TypeOK /\ [Next]_vars => TypeOK'
  <2> SUFFICES ASSUME TypeOK, [Next]_vars PROVE TypeOK'
    OBVIOUS
  <2> USE DEF AllInstructions
  <2>0. \A i \in AllInstructions, d \in Nat :
            AppendInstruction(i) /\ nextTempID' = nextTempID + d => TypeOK'
    BY DEF AppendInstruction, TypeOK, NoCall
  <2>n. \A i \in AllInstructions :
            AppendInstruction(i) /\ UNCHANGED nextTempID => TypeOK'
    BY DEF AppendInstruction, TypeOK, NoCall
  <2> HIDE DEF AllInstructions
  <2>v. Values \subseteq Operands /\ nextTempID \in Nat /\ \A v \in Values : <<v>> \in Seq(Operands)
    BY DEF Operands, TypeOK
  <2>1. ASSUME NEW o \in ClientOpcodes, NEW ops \in OperandLists, AddInstruction(o, ops)
        PROVE  TypeOK'
    <3> DEFINE d == IF o = "alloca" THEN StackSlot(nextTempID + 1) ELSE Temp(nextTempID)
               k == IF o = "alloca" THEN 2 ELSE 1
    <3>1. d \in Operands /\ k \in Nat
      BY <2>v, FreshNames
    <3>2. Op(o, d, ops) \in AllInstructions
      BY <3>1, OpcodesAssumption, OperandListsTyped, BuiltInstructions
    <3>3. AppendInstruction(Op(o, d, ops)) /\ nextTempID' = nextTempID + k
      BY <2>1 DEF AddInstruction
    <3> HIDE DEF d, k
    <3> QED BY <2>0, <3>1, <3>2, <3>3
  <2>2. ASSUME NEW o \in ClientOpcodes, NEW ops \in OperandLists, AddVoidInstruction(o, ops)
        PROVE  TypeOK'
    <3>1. Op(o, NoOperand, ops) \in AllInstructions
      BY <2>v, FreshNames, OpcodesAssumption, OperandListsTyped, BuiltInstructions
    <3> QED BY <2>2, <2>n, <3>1 DEF AddVoidInstruction
  <2>3. ASSUME NEW f \in Callees, NEW v \in Values, AddCall(f, <<v>>)
        PROVE  TypeOK'
    <3>1. Call(f, Temp(nextTempID), <<v>>) \in AllInstructions
      BY <2>v, FreshNames, BuiltInstructions
    <3> QED BY <2>3, <2>0, <3>1 DEF AddCall
  <2>4. ASSUME NEW f \in Callees, NEW v \in Values, AddCallVoid(f, <<v>>)
        PROVE  TypeOK'
    <3>1. Call(f, NoOperand, <<v>>) \in AllInstructions
      BY <2>v, FreshNames, BuiltInstructions
    <3> QED BY <2>4, <2>n, <3>1 DEF AddCallVoid
  <2>5. ASSUME NEW l \in Labels, AddLabel(l) PROVE TypeOK'
    BY <2>5, <2>n, BuiltInstructions DEF AddLabel
  <2>6. ASSUME NEW l \in Labels, AddJmp(l) PROVE TypeOK'
    BY <2>6, <2>n, BuiltInstructions DEF AddJmp
  <2>7. ASSUME NEW c \in Values, NEW t \in Labels, NEW f \in Labels, AddBr(c, t, f)
        PROVE  TypeOK'
    BY <2>7, <2>n, <2>v, BuiltInstructions DEF AddBr
  <2>8. ASSUME NEW v \in Values, AddRet(v) PROVE TypeOK'
    BY <2>8, <2>n, <2>v, BuiltInstructions DEF AddRet
  <2>9. ASSUME NEW l \in Labels, SetBlock(l) PROVE TypeOK'
    <3>1. Label(l) \in AllInstructions
      BY BuiltInstructions
    <3>2. ValidateFunctionIR(code') \in BOOLEAN
      BY DEF ValidateFunctionIR
    <3> QED BY <2>9, <3>1, <3>2 DEF SetBlock, TypeOK, AllInstructions
  <2>10. CASE AddFunction
    <3>1. ValidateFunctionIR(code) \in BOOLEAN
      BY DEF ValidateFunctionIR
    <3> QED BY <2>10, <3>1 DEF AddFunction, TypeOK
  <2>11. CASE UNCHANGED vars
    BY <2>11 DEF vars, TypeOK
  <2> QED
    BY <2>1, <2>2, <2>3, <2>4, <2>5, <2>6, <2>7, <2>8, <2>9, <2>10, <2>11 DEF Next
<1> QED BY <1>1, <1>2, PTL DEF Spec

(***************************************************************************)
(* The validator.                                                          *)
(***************************************************************************)

\* In every function a client can build, the block analysis accepts exactly
\* the well formed ones.
THEOREM ValidatorCorrect == Spec => []ValidatorIsExact
<1>1. TypeOK => ValidatorIsExact
  BY InstructionsAreCode, ValidatorExactness DEF TypeOK, ValidatorIsExact, AllInstructions
<1> QED BY <1>1, TypeCorrect, PTL

\* Every graph cfg.Build returns, of whatever function a client builds, is the
\* control flow the evaluator follows.
THEOREM GraphCorrect == Spec => []GraphIsControlFlow
<1>1. TypeOK => GraphIsControlFlow
  <2> SUFFICES ASSUME TypeOK, code # <<>>, BuildAccepts(code) PROVE GraphIsControlFlow
    BY DEF GraphIsControlFlow
  <2>1. IsCode(code)
    BY InstructionsAreCode DEF TypeOK, AllInstructions
  <2> QED BY <2>1, GraphExactness DEF GraphIsControlFlow
<1> QED BY <1>1, TypeCorrect, PTL

\* Validated code can be left without a ret exactly if it is empty.
LEMMA ValidatedCodeIsLeftByRet ==
    ASSUME NEW c \in Seq(AllInstructions), ValidateFunctionIR(c)
    PROVE  CanBeLeftWithoutRet(c) <=> c = <<>>
<1>1. CASE c = <<>>
  BY <1>1 DEF CanBeLeftWithoutRet, ProgramCounters
<1>2. CASE c # <<>>
  <2>1. 1 \in DOMAIN c
    BY <1>2
  <2>2. IsClosed(c)
    BY <1>2, InstructionsAreCode, ValidatedCodeIsClosed
  <2>3. ProgramCounters(c) \subseteq DOMAIN c
    BY <2>1, <2>2 DEF ProgramCounters, IsClosed
  <2> QED BY <1>2, <2>3 DEF CanBeLeftWithoutRet
<1> QED BY <1>1, <1>2

\* Of the functions in a module the empty one and no other can be left without
\* a ret, whatever its client builds and whichever of its additions fail.
THEOREM EmptyFunctionsAloneLackRet == Spec => []OnlyEmptyFunctionsLackRet
<1>1. Init => OnlyEmptyFunctionsLackRet
  BY DEF Init, OnlyEmptyFunctionsLackRet
<1>2. TypeOK /\ OnlyEmptyFunctionsLackRet /\ [Next]_vars => OnlyEmptyFunctionsLackRet'
  <2> SUFFICES ASSUME TypeOK, OnlyEmptyFunctionsLackRet, [Next]_vars
               PROVE  OnlyEmptyFunctionsLackRet'
    OBVIOUS
  <2>1. CASE UNCHANGED functions
    BY <2>1 DEF OnlyEmptyFunctionsLackRet
  <2>2. CASE AddFunction /\ ValidateFunctionIR(code)
    <3>1. functions' = Append(functions, code)
      BY <2>2 DEF AddFunction
    <3>2. CanBeLeftWithoutRet(code) <=> code = <<>>
      BY <2>2, ValidatedCodeIsLeftByRet DEF TypeOK, AllInstructions
    <3>3. functions \in Seq(Seq(AllInstructions))
      BY DEF TypeOK, AllInstructions
    <3>4. DOMAIN functions' = DOMAIN functions \cup {Len(functions) + 1}
          /\ \A n \in DOMAIN functions : functions'[n] = functions[n]
      BY <3>1, <3>3
    <3>6. functions'[Len(functions) + 1] = code
      BY <3>1, <3>3
    <3>5. ASSUME NEW n \in DOMAIN functions'
          PROVE  CanBeLeftWithoutRet(functions'[n]) <=> functions'[n] = <<>>
      <4>1. CASE n \in DOMAIN functions
        <5>1. functions'[n] = functions[n]
          BY <3>4, <4>1
        <5>2. CanBeLeftWithoutRet(functions[n]) <=> functions[n] = <<>>
          BY <4>1 DEF OnlyEmptyFunctionsLackRet
        <5> QED BY <5>1, <5>2
      <4>2. CASE n = Len(functions) + 1
        <5>1. functions'[n] = code
          BY <3>6, <4>2, Zenon
        <5> QED BY <3>2, <5>1
      <4> QED BY <3>4, <4>1, <4>2
    <3> QED BY <3>5 DEF OnlyEmptyFunctionsLackRet
  <2>3. UNCHANGED functions \/ (AddFunction /\ ValidateFunctionIR(code))
    BY DEF Next, vars, AppendInstruction, AddInstruction, AddVoidInstruction, AddCall,
           AddCallVoid, AddLabel, AddJmp, AddBr, AddRet, SetBlock, AddFunction
  <2> QED BY <2>1, <2>2, <2>3
<1> QED BY <1>1, <1>2, TypeCorrect, PTL DEF Spec

\* SetBlock and AddBlock report an error on every call.
THEOREM SetBlockFails == Spec => []SetBlockNeverSucceeds
<1>1. Init => SetBlockNeverSucceeds
  BY DEF Init, SetBlockNeverSucceeds, NoCall
<1>2. TypeOK /\ TypeOK' /\ SetBlockNeverSucceeds /\ [Next]_vars => SetBlockNeverSucceeds'
  <2> SUFFICES ASSUME TypeOK, TypeOK', SetBlockNeverSucceeds, [Next]_vars
               PROVE  SetBlockNeverSucceeds'
    OBVIOUS
  <2>1. ASSUME NEW l \in Labels, SetBlock(l) PROVE SetBlockNeverSucceeds'
    <3>1. code' = Append(code, Label(l)) /\ code \in Seq(AllInstructions)
      BY <2>1 DEF SetBlock, TypeOK, AllInstructions
    <3>2. code' # <<>> /\ code'[Len(code')].kind = "label"
      BY <3>1 DEF Label
    <3>3. ~ WellFormed(code')
      BY <3>2 DEF WellFormed, IsTerminator, TerminatorKinds
    <3>4. IsCode(code')
      BY InstructionsAreCode DEF TypeOK, AllInstructions
    <3>5. ~ ValidateFunctionIR(code')
      BY <3>2, <3>3, <3>4, ValidatorExactness
    <3> QED BY <2>1, <3>5 DEF SetBlock, SetBlockNeverSucceeds
  <2>2. CASE lastCall'.name # "SetBlock"
    BY <2>2 DEF SetBlockNeverSucceeds
  <2>3. CASE UNCHANGED vars
    BY <2>3 DEF SetBlockNeverSucceeds, vars
  <2>4. \A i : AppendInstruction(i) => lastCall'.name # "SetBlock"
    BY DEF AppendInstruction, NoCall
  <2>5. AddFunction => lastCall'.name # "SetBlock"
    BY DEF AddFunction
  <2>6. \/ \E l \in Labels : SetBlock(l)
        \/ \E i : AppendInstruction(i)
        \/ AddFunction
        \/ UNCHANGED vars
    BY DEF Next, AddInstruction, AddVoidInstruction, AddCall, AddCallVoid, AddLabel,
           AddJmp, AddBr, AddRet
  <2> QED BY <2>1, <2>2, <2>3, <2>4, <2>5, <2>6
<1> QED BY <1>1, <1>2, TypeCorrect, PTL DEF Spec

(***************************************************************************)
(* Destinations.  The strengthening says where a name comes from: the      *)
(* counter was below it when it was handed out.                            *)
(***************************************************************************)

Names == {"t", "s"}

NamesBelowCounter ==
    \A i \in DOMAIN code : code[i].kind = "op" /\ code[i].dst # NoOperand =>
        \E x \in Names, m \in 0..(nextTempID - 1) : code[i].dst.text = <<x, m>>

DestinationsInv == TypeOK /\ NamesBelowCounter /\ DestinationsUnique

\* A number drawn from the counter lies below the counter's next value.
LEMMA DrawnNumberIsBelow ==
    ASSUME NEW a \in Nat, NEW b \in Nat, NEW m \in a..(b - 1)
    PROVE  m \in 0..(b - 1)
BY SMT

\* An instruction without a destination, or with a name from the counter, that
\* the counter is then moved past, keeps the names of the function distinct.
LEMMA AppendKeepsDestinations ==
    ASSUME DestinationsInv, NEW i, AppendInstruction(i), nextTempID' \in Nat,
           nextTempID' >= nextTempID,
           \/ i.kind # "op"
           \/ i.dst = NoOperand
           \/ \E x \in Names, m \in nextTempID..(nextTempID' - 1) : i.dst.text = <<x, m>>
    PROVE  (NamesBelowCounter /\ DestinationsUnique)'
<1>1. code \in Seq(AllInstructions) /\ nextTempID \in Nat
  BY DEF DestinationsInv, TypeOK, AllInstructions
<1>2. code' = Append(code, i)
  BY DEF AppendInstruction
<1>3. /\ DOMAIN code' = 1..(Len(code) + 1) /\ DOMAIN code = 1..Len(code) /\ Len(code) \in Nat
      /\ code'[Len(code) + 1] = i
      /\ \A k \in DOMAIN code : code'[k] = code[k]
  BY <1>1, <1>2
<1>4. NamesBelowCounter'
  <2> SUFFICES ASSUME NEW k \in DOMAIN code', code'[k].kind = "op", code'[k].dst # NoOperand
               PROVE  \E x \in Names, m \in 0..(nextTempID' - 1) : code'[k].dst.text = <<x, m>>
    BY DEF NamesBelowCounter
  <2>1. CASE k \in DOMAIN code
    <3>1. PICK x \in Names, m \in 0..(nextTempID - 1) : code[k].dst.text = <<x, m>>
      BY <1>3, <2>1 DEF DestinationsInv, NamesBelowCounter
    <3>2. m \in 0..(nextTempID' - 1)
      BY <1>1, nextTempID' \in Nat
    <3> QED BY <1>3, <2>1, <3>1, <3>2
  <2>2. CASE k = Len(code) + 1
    <3>0. i.kind = "op" /\ i.dst # NoOperand
      BY <1>3, <2>2
    <3>1. PICK x \in Names, m \in nextTempID..(nextTempID' - 1) : i.dst.text = <<x, m>>
      BY <3>0
    <3>2. m \in 0..(nextTempID' - 1)
      <4>1. nextTempID \in Nat
        BY <1>1
      <4> QED BY <4>1, nextTempID' \in Nat, DrawnNumberIsBelow
    <3> QED BY <1>3, <2>2, <3>1, <3>2
  <2>3. k \in DOMAIN code \/ k = Len(code) + 1
    BY <1>3
  <2> QED BY <2>1, <2>2, <2>3
<1>5. ASSUME NEW k \in DOMAIN code, code[k].kind = "op",
             i.kind = "op", i.dst # NoOperand, code[k].dst.text = i.dst.text
      PROVE  FALSE
  <2>1. PICK x \in Names, m \in nextTempID..(nextTempID' - 1) : i.dst.text = <<x, m>>
    BY <1>5
  <2>2. code[k].dst # NoOperand
    BY <1>5, <2>1 DEF NoOperand, Operand, Names
  <2>3. PICK y \in Names, q \in 0..(nextTempID - 1) : code[k].dst.text = <<y, q>>
    BY <1>5, <2>2 DEF DestinationsInv, NamesBelowCounter
  <2>4. q = m
    BY <1>5, <2>1, <2>3
  <2> QED BY <1>1, <2>4
<1>6. DestinationsUnique'
  <2> SUFFICES ASSUME NEW k \in DOMAIN code', NEW j \in DOMAIN code',
                      code'[k].kind = "op", code'[j].kind = "op",
                      code'[k].dst # NoOperand, code'[k].dst.text = code'[j].dst.text
               PROVE  k = j
    BY DEF DestinationsUnique
  <2>1. CASE k \in DOMAIN code /\ j \in DOMAIN code
    BY <1>3, <2>1 DEF DestinationsInv, DestinationsUnique
  <2>2. CASE k \in DOMAIN code /\ j = Len(code) + 1
    <3>1. PICK y \in Names, q \in 0..(nextTempID - 1) : code[k].dst.text = <<y, q>>
      BY <1>3, <2>2 DEF DestinationsInv, NamesBelowCounter
    <3>2. i.dst # NoOperand
      BY <1>3, <2>2, <3>1 DEF NoOperand, Operand, Names
    <3> QED BY <1>3, <1>5, <2>2, <3>2
  <2>3. CASE k = Len(code) + 1 /\ j \in DOMAIN code
    BY <1>3, <1>5, <2>3
  <2> QED BY <1>3, <2>1, <2>2, <2>3
<1> QED BY <1>4, <1>6

\* No two value-producing instructions of a function share a destination,
\* however many the client adds.
THEOREM DestinationsDistinct == Spec => []DestinationsUnique
<1>1. Init => DestinationsInv
  BY DEF Init, DestinationsInv, TypeOK, NamesBelowCounter, DestinationsUnique, NoCall
<1>2. TypeOK' /\ DestinationsInv /\ [Next]_vars => DestinationsInv'
  <2> SUFFICES ASSUME TypeOK', DestinationsInv, [Next]_vars
               PROVE  (NamesBelowCounter /\ DestinationsUnique)'
    BY DEF DestinationsInv
  <2>0. nextTempID \in Nat /\ nextTempID' \in Nat
    BY DEF DestinationsInv, TypeOK
  <2>1. ASSUME NEW o \in ClientOpcodes, NEW ops \in OperandLists, AddInstruction(o, ops)
        PROVE  (NamesBelowCounter /\ DestinationsUnique)'
    <3>1. CASE o = "alloca"
      <4> DEFINE i == Op(o, StackSlot(nextTempID + 1), ops)
      <4>1. AppendInstruction(i) /\ nextTempID' = nextTempID + 2
        BY <2>1, <3>1 DEF AddInstruction
      <4>2. i.dst.text = <<"s", nextTempID + 1>>
        BY DEF Op, StackSlot, Operand
      <4>3. nextTempID + 1 \in nextTempID..(nextTempID' - 1) /\ "s" \in Names
        BY <2>0, <4>1 DEF Names
      <4> HIDE DEF i
      <4> QED BY <2>0, <4>1, <4>2, <4>3, AppendKeepsDestinations
    <3>2. CASE o # "alloca"
      <4> DEFINE i == Op(o, Temp(nextTempID), ops)
      <4>1. AppendInstruction(i) /\ nextTempID' = nextTempID + 1
        BY <2>1, <3>2 DEF AddInstruction
      <4>2. i.dst.text = <<"t", nextTempID>>
        BY DEF Op, Temp, Operand
      <4>3. nextTempID \in nextTempID..(nextTempID' - 1) /\ "t" \in Names
        BY <2>0, <4>1 DEF Names
      <4> HIDE DEF i
      <4> QED BY <2>0, <4>1, <4>2, <4>3, AppendKeepsDestinations
    <3> QED BY <3>1, <3>2
  <2>2. ASSUME NEW f, NEW args, AddCall(f, args)
        PROVE  (NamesBelowCounter /\ DestinationsUnique)'
    <3> DEFINE i == Call(f, Temp(nextTempID), args)
    <3>1. AppendInstruction(i) /\ nextTempID' = nextTempID + 1
      BY <2>2 DEF AddCall
    <3>2. i.dst.text = <<"t", nextTempID>>
      BY DEF Call, Temp, Operand
    <3>3. nextTempID \in nextTempID..(nextTempID' - 1) /\ "t" \in Names
      BY <2>0, <3>1 DEF Names
    <3> HIDE DEF i
    <3> QED BY <2>0, <3>1, <3>2, <3>3, AppendKeepsDestinations
  <2>3. ASSUME NEW i, AppendInstruction(i), UNCHANGED nextTempID,
               i.kind # "op" \/ i.dst = NoOperand
        PROVE  (NamesBelowCounter /\ DestinationsUnique)'
    BY <2>0, <2>3, AppendKeepsDestinations
  <2>4. ASSUME NEW f, NEW args, AddVoidInstruction(f, args) \/ AddCallVoid(f, args)
        PROVE  (NamesBelowCounter /\ DestinationsUnique)'
    <3>1. Op(f, NoOperand, args).dst = NoOperand /\ Call(f, NoOperand, args).dst = NoOperand
      BY DEF Op, Call
    <3> QED BY <2>3, <2>4, <3>1 DEF AddVoidInstruction, AddCallVoid
  <2>5. ASSUME NEW l, AddLabel(l) \/ AddJmp(l) PROVE (NamesBelowCounter /\ DestinationsUnique)'
    <3>1. Label(l).kind # "op" /\ Jmp(l).kind # "op"
      BY DEF Label, Jmp
    <3> QED BY <2>3, <2>5, <3>1 DEF AddLabel, AddJmp
  <2>6. ASSUME NEW c, NEW t, NEW f, AddBr(c, t, f)
        PROVE  (NamesBelowCounter /\ DestinationsUnique)'
    <3>1. Br(c, t, f).kind # "op"
      BY DEF Br
    <3> QED BY <2>3, <2>6, <3>1 DEF AddBr
  <2>7. ASSUME NEW v, AddRet(v) PROVE (NamesBelowCounter /\ DestinationsUnique)'
    <3>1. Ret(v).kind # "op"
      BY DEF Ret
    <3> QED BY <2>3, <2>7, <3>1 DEF AddRet
  <2>8. ASSUME NEW l \in Labels, SetBlock(l)
        PROVE  (NamesBelowCounter /\ DestinationsUnique)'
    <3>1. code \in Seq(AllInstructions) /\ code' = Append(code, Label(l))
             /\ nextTempID' = nextTempID
      BY <2>8 DEF SetBlock, DestinationsInv, TypeOK, AllInstructions
    <3>2. /\ DOMAIN code' = DOMAIN code \cup {Len(code) + 1}
          /\ \A k \in DOMAIN code : code'[k] = code[k]
          /\ code'[Len(code) + 1].kind # "op"
      BY <3>1 DEF Label
    <3> QED BY <3>1, <3>2 DEF DestinationsInv, NamesBelowCounter, DestinationsUnique
  <2>9. CASE UNCHANGED <<code, nextTempID>>
    BY <2>9 DEF DestinationsInv, NamesBelowCounter, DestinationsUnique
  <2> QED
    BY <2>1, <2>2, <2>4, <2>5, <2>6, <2>7, <2>8, <2>9 DEF Next, vars, AddFunction
<1> QED BY <1>1, <1>2, TypeCorrect, PTL DEF Spec, DestinationsInv

=============================================================================
