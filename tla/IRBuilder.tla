----------------------------- MODULE IRBuilder -----------------------------
(***************************************************************************)
(* The construction interface of internal/tac/builder.go: a client of      *)
(* Function and Module calls the builder operations in any order, with any *)
(* operands, and hands finished functions to a module.  The properties     *)
(* compare what the validator and the graph builder make of every function *)
(* such a client can put together with how the evaluator would run it.     *)
(***************************************************************************)
EXTENDS TacIR

CONSTANTS
    Labels,         \* the labels a client uses (NoLabel is the empty string)
    Values,         \* the operands a client passes, NoOperand for an unset one
    ClientOpcodes,  \* the opcodes a client passes to AddInstruction
    Callees,        \* the function symbols a client calls
    MaxInstructions,\* bound: instructions put in one function
    MaxFunctions    \* bound: functions handed to the module

ASSUME BoundsAssumption == MaxInstructions \in Nat /\ MaxFunctions \in Nat
ASSUME LabelsAssumption == Labels \subseteq Int
ASSUME OpcodesAssumption == ClientOpcodes \subseteq Opcodes /\ NoCallee \notin Callees

VARIABLES
    code,           \* fn.Instructions
    nextTempID,     \* fn.nextTempID
    functions,      \* the bodies of m.Functions
    lastCall        \* the last call that can fail, and whether it returned nil

vars == <<code, nextTempID, functions, lastCall>>

NoCall == [name |-> "none", ok |-> TRUE]

Operands == Values \cup [kind : {"temp"}, text : {"t"} \X Nat]
                   \cup [kind : {"slot"}, text : {"s"} \X Nat] \cup {NoOperand}

\* Types of the state.
TypeOK ==
    /\ code \in Seq(Instructions(Operands, Labels, Callees))
    /\ nextTempID \in Nat
    /\ functions \in Seq(Seq(Instructions(Operands, Labels, Callees)))
    /\ lastCall \in [name : {"none", "SetBlock", "AddFunction"}, ok : BOOLEAN]

Init ==
    /\ code = <<>>
    /\ nextTempID = 0
    /\ functions = <<>>
    /\ lastCall = NoCall

(***************************************************************************)
(* The operations.                                                         *)
(***************************************************************************)

Room == Len(code) < MaxInstructions

AppendInstruction(i) ==
    /\ Room
    /\ code' = Append(code, i)
    /\ lastCall' = NoCall
    /\ UNCHANGED functions

\* NewTemp takes one id; an alloca takes a second one for its slot.
AddInstruction(o, ops) ==
    LET isAlloca == o = "alloca" IN
    /\ AppendInstruction(Op(o, IF isAlloca THEN StackSlot(nextTempID + 1)
                                           ELSE Temp(nextTempID), ops))
    /\ nextTempID' = nextTempID + IF isAlloca THEN 2 ELSE 1

AddVoidInstruction(o, ops) ==
    /\ AppendInstruction(Op(o, NoOperand, ops))
    /\ UNCHANGED nextTempID

\* Seeded bug: the temporary of a call is handed out again.
AddCallReusingTemp(f, args) ==
    /\ AppendInstruction(Call(f, Temp(nextTempID), args))
    /\ UNCHANGED nextTempID

AddCall(f, args) ==
    /\ AppendInstruction(Call(f, Temp(nextTempID), args))
    /\ nextTempID' = nextTempID + 1

AddCallVoid(f, args) ==
    /\ AppendInstruction(Call(f, NoOperand, args))
    /\ UNCHANGED nextTempID

AddLabel(l)    == AppendInstruction(Label(l)) /\ UNCHANGED nextTempID
AddJmp(l)      == AppendInstruction(Jmp(l)) /\ UNCHANGED nextTempID
AddBr(c, t, f) == AppendInstruction(Br(c, t, f)) /\ UNCHANGED nextTempID
AddRet(v)      == AppendInstruction(Ret(v)) /\ UNCHANGED nextTempID

\* Seeded bug: validates before the label is appended.
SetBlockValidatingFirst(l) ==
    /\ Room
    /\ code' = Append(code, Label(l))
    /\ lastCall' = [name |-> "SetBlock", ok |-> ValidateFunctionIR(code)]
    /\ UNCHANGED <<nextTempID, functions>>

\* SetBlock, and AddBlock which only calls it: the label stays appended
\* whatever the validation of the function says.
SetBlock(l) ==
    /\ Room
    /\ code' = Append(code, Label(l))
    /\ lastCall' = [name |-> "SetBlock", ok |-> ValidateFunctionIR(code')]
    /\ UNCHANGED <<nextTempID, functions>>

\* Seeded bug: appended before it is validated.
AddFunctionFirst ==
    /\ Len(functions) < MaxFunctions
    /\ lastCall' = [name |-> "AddFunction", ok |-> ValidateFunctionIR(code)]
    /\ functions' = Append(functions, code)
    /\ UNCHANGED <<code, nextTempID>>

\* Module.AddFunction: the function is appended only if it validates.
AddFunction ==
    /\ Len(functions) < MaxFunctions
    /\ lastCall' = [name |-> "AddFunction", ok |-> ValidateFunctionIR(code)]
    /\ functions' = IF ValidateFunctionIR(code) THEN Append(functions, code) ELSE functions
    /\ UNCHANGED <<code, nextTempID>>

OperandLists == {<<>>} \cup {<<v>> : v \in Values} \cup {<<v, w>> : v, w \in Values}

Next ==
    \/ \E o \in ClientOpcodes, ops \in OperandLists : AddInstruction(o, ops)
    \/ \E o \in ClientOpcodes, ops \in OperandLists : AddVoidInstruction(o, ops)
    \/ \E f \in Callees, v \in Values : AddCall(f, <<v>>)
    \/ \E f \in Callees, v \in Values : AddCallVoid(f, <<v>>)
    \/ \E l \in Labels : AddLabel(l)
    \/ \E l \in Labels : AddJmp(l)
    \/ \E c \in Values, t, f \in Labels : AddBr(c, t, f)
    \/ \E v \in Values : AddRet(v)
    \/ \E l \in Labels : SetBlock(l)
    \/ AddFunction

Spec == Init /\ [][Next]_vars

(***************************************************************************)
(* Properties.                                                             *)
(***************************************************************************)

\* The block analysis of ValidateFunctionIR (sorting block starts, slicing,
\* looking for terminators inside blocks and at block ends) accepts exactly
\* the well formed functions.
ValidatorIsExact == code # <<>> => (ValidateFunctionIR(code) <=> WellFormed(code))

\* A graph that cfg.Build returns is the control flow of the function: only
\* the last instruction of a block leaves it, and to the first instructions of
\* exactly its successor blocks.
GraphIsControlFlow ==
    code # <<>> /\ BuildAccepts(code) =>
        \A s \in Leaders(code) :
            LET e == BlockEnd(code, Leaders(code), s) IN
            /\ NextPCs(code, e) = Successors(code, s)
            /\ \A i \in s..(e - 1) : NextPCs(code, i) = {i + 1}

\* The program counters evalCall may reach, the first one included; f can be
\* left without a ret if one of them lies outside of it.
ProgramCounters(f) == {1} \cup UNION {NextPCs(f, i) : i \in DOMAIN f}
CanBeLeftWithoutRet(f) == ~(ProgramCounters(f) \subseteq DOMAIN f)

\* Of the functions in a module, the empty one and no other can be left without
\* a ret: AddFunction accepts it, since ValidateFunctionIR returns before any
\* check, and evalCall then ends behind its loop.
OnlyEmptyFunctionsLackRet ==
    \A n \in DOMAIN functions : CanBeLeftWithoutRet(functions[n]) <=> functions[n] = <<>>

\* Temporaries and stack slots draw on one counter, so no two value-producing
\* instructions of a function share a destination.
DestinationsUnique ==
    \A i, j \in DOMAIN code :
        /\ code[i].kind = "op" /\ code[j].kind = "op"
        /\ code[i].dst # NoOperand
        /\ code[i].dst.text = code[j].dst.text
        => i = j

\* docs/ir-cfg-invariants.md names the block setters as validation points, but
\* SetBlock validates with its own label as the last instruction: it reports an
\* error on every call, for every function and every label.
SetBlockNeverSucceeds == lastCall.name = "SetBlock" => ~lastCall.ok

=============================================================================
