------------------------------- MODULE TacIR -------------------------------
(***************************************************************************)
(* The three-address code of package internal/tac: instructions, the       *)
(* per-instruction verifier, the function validator of validate.go and the *)
(* control-flow graph of package tac/cfg.                                  *)
(*                                                                         *)
(* A function body is a sequence of instructions.  A value is named by a   *)
(* text, which is what the Go code keys its maps with; a text is a tagged  *)
(* tuple, <<"t", 3>> for %t3, <<"s", 1>> for %s1, <<"v", "a">> for %a,     *)
(* <<"n", 5>> for the numeral 5.  Labels are integers.                     *)
(***************************************************************************)
EXTENDS Integers, Sequences, FiniteSets

(***************************************************************************)
(* Operands.                                                               *)
(***************************************************************************)

Operand(kind, text) == [kind |-> kind, text |-> text]

Temp(n)          == Operand("temp", <<"t", n>>)
\* Seeded bug: slots named like temporaries.
StackSlotLikeTemp(n) == Operand("slot", <<"t", n>>)
StackSlot(n)     == Operand("slot", <<"s", n>>)
SlotPointer(txt) == Operand("slot", txt)
Param(txt)       == Operand("param", txt)
Immediate(txt)   == Operand("imm", txt)
NoOperand        == Operand("none", <<"none", 0>>)

\* The kinds a value operand may have.
ValueKinds == {"temp", "param", "imm", "slot"}

\* The opcodes.
UnaryOpcodes   == {"neg", "not", "lnot"}
ArithOpcodes   == {"add", "sub", "mul", "div", "mod", "and", "or", "xor", "shl", "shr"}
CompareOpcodes == {"eq", "ne", "lt", "le", "gt", "ge"}
BinaryOpcodes  == ArithOpcodes \cup CompareOpcodes

Opcodes == UnaryOpcodes \cup BinaryOpcodes
             \cup {"const", "const8", "copy", "alloca", "load", "store", "loadInd",
                   "storeInd", "call"}

(***************************************************************************)
(* Instructions.  An operation without a destination has dst = NoOperand,  *)
(* a bare return has value = NoOperand.                                    *)
(***************************************************************************)

NoLabel   == -1
NoCallee  == "none"

Label(l)        == [kind |-> "label", label |-> l]
Jmp(l)          == [kind |-> "jmp", target |-> l]
Br(c, t, f)     == [kind |-> "br", cond |-> c, trueLabel |-> t, falseLabel |-> f]
Ret(v)          == [kind |-> "ret", value |-> v]
Op(o, dst, ops) == [kind |-> "op", opcode |-> o, dst |-> dst, operands |-> ops,
                    callee |-> NoCallee]
Call(f, dst, args) == [kind |-> "op", opcode |-> "call", dst |-> dst,
                       operands |-> args, callee |-> f]

\* The instructions over given operands, labels and function symbols.
Instructions(Operands, Labels, Callees) ==
    [kind : {"label"}, label : Labels]
      \cup [kind : {"jmp"}, target : Labels]
      \cup [kind : {"br"}, cond : Operands, trueLabel : Labels, falseLabel : Labels]
      \cup [kind : {"ret"}, value : Operands]
      \cup [kind : {"op"}, opcode : Opcodes, dst : Operands, operands : Seq(Operands),
            callee : Callees \cup {NoCallee}]

TerminatorKinds  == {"jmp", "br", "ret"}
InstructionKinds == TerminatorKinds \cup {"label", "op"}
IsTerminator(i) == i.kind \in TerminatorKinds

\* Code: a sequence of instructions of the five kinds.
IsCode(code) ==
    /\ Len(code) \in Nat
    /\ DOMAIN code = 1..Len(code)
    /\ \A i \in DOMAIN code : code[i].kind \in InstructionKinds

\* The labels an instruction may transfer control to.
Targets(i) == CASE i.kind = "jmp" -> {i.target}
                [] i.kind = "br"  -> {i.trueLabel, i.falseLabel}
                [] OTHER          -> {}

(***************************************************************************)
(* VerifyInstruction, with the operands verifyOpcodeOperands asks for.     *)
(***************************************************************************)

\* The kinds each operand position accepts, for every opcode but call.
OperandKinds(o) ==
    CASE o \in {"const", "const8", "alloca"}             -> <<{"imm"}>>
      [] o \in UnaryOpcodes \cup {"copy", "loadInd"}     -> <<ValueKinds>>
      [] o \in BinaryOpcodes \cup {"storeInd"}           -> <<ValueKinds, ValueKinds>>
      [] o = "load"                                      -> <<{"slot"}>>
      [] o = "store"                                     -> <<{"slot"}, ValueKinds>>

\* The checks of an immediate operand return before the destination is looked at.
DestinationUnchecked == {"const", "const8", "alloca"}

VerifyOpcodeOperands(i) ==
    /\ i.opcode \in Opcodes
    /\ IF i.opcode = "call"
       THEN /\ i.callee # NoCallee
            /\ \A k \in DOMAIN i.operands : i.operands[k].kind \in ValueKinds
       ELSE /\ Len(i.operands) = Len(OperandKinds(i.opcode))
            /\ \A k \in DOMAIN i.operands :
                   i.operands[k].kind \in OperandKinds(i.opcode)[k]
    /\ i.opcode \in DestinationUnchecked \/ i.dst.kind \in {"temp", "slot", "none"}

VerifyInstruction(i) ==
    CASE i.kind = "label" -> i.label # NoLabel
      [] i.kind = "br"    -> i.cond.kind # "none"
      [] i.kind = "op"    -> VerifyOpcodeOperands(i)
      [] OTHER            -> TRUE

(***************************************************************************)
(* Labels and basic blocks.                                                *)
(***************************************************************************)

LabelAt(code, l) == {i \in DOMAIN code : code[i].kind = "label" /\ code[i].label = l}

\* labelDefs: the labels defined, and where.
Defined(code)    == {code[i].label : i \in {j \in DOMAIN code : code[j].kind = "label"}}
LabelIndex(code, l) == CHOOSE i \in LabelAt(code, l) : TRUE

LabelsUnique(code)    == \A i, j \in DOMAIN code :
                            /\ code[i].kind = "label"
                            /\ code[j].kind = "label"
                            /\ code[i].label = code[j].label
                            => i = j

TargetsDefined(code) == \A i \in DOMAIN code : Targets(code[i]) \subseteq Defined(code)

JumpTargets(code) ==
    {LabelIndex(code, l) : l \in UNION {Targets(code[i]) : i \in DOMAIN code}}

\* The instructions that follow one of a kind in kinds.
After(code, kinds) == {i \in 2..Len(code) : code[i - 1].kind \in kinds}

\* Seeded bug: a ret does not end a block.
BlockStartsWithoutRet(code) == {1} \cup JumpTargets(code) \cup After(code, {"jmp", "br"})

\* Block starts of collectIRBlocks: the entry, every target of a jump or
\* branch, and the instruction after every terminator.
BlockStarts(code) == {1} \cup JumpTargets(code) \cup After(code, TerminatorKinds)

\* Seeded bug: jump targets forgotten.
LeadersWithoutTargets(code) == {1} \cup After(code, {"jmp", "br"})

\* Leaders of cfg.Build: the same as BlockStarts, but a ret starts no new block.
Leaders(code) == {1} \cup JumpTargets(code) \cup After(code, {"jmp", "br"})

\* The last instruction of the block that starts at s.
BlockEnd(code, starts, s) ==
    CHOOSE e \in s..Len(code) :
        /\ e = Len(code) \/ e + 1 \in starts
        /\ \A k \in (s + 1)..e : k \notin starts

NoTerminatorInside(code, starts) ==
    \A s \in starts : \A k \in s..(BlockEnd(code, starts, s) - 1) : ~IsTerminator(code[k])

(***************************************************************************)
(* ValidateFunctionIR: TRUE where the Go function returns nil.             *)
(***************************************************************************)

\* Seeded bug: the last block may end without a terminator.
ValidateWithoutEnd(code) ==
    code # <<>> =>
        /\ \A i \in DOMAIN code : VerifyInstruction(code[i])
        /\ LabelsUnique(code)
        /\ TargetsDefined(code)
        /\ NoTerminatorInside(code, BlockStarts(code))

ValidateFunctionIR(code) ==
    code # <<>> =>
        /\ \A i \in DOMAIN code : VerifyInstruction(code[i])
        /\ LabelsUnique(code)
        /\ TargetsDefined(code)
        /\ LET starts == BlockStarts(code) IN
           /\ NoTerminatorInside(code, starts)
           /\ \A s \in starts :
                 LET e == BlockEnd(code, starts, s) IN
                 code[e].kind \in {"op", "label"} => e # Len(code)

(***************************************************************************)
(* cfg.Build.  BuildAccepts is TRUE where it returns a graph; a block is   *)
(* named by the index of its first instruction.                            *)
(***************************************************************************)
BuildAccepts(code) ==
    /\ ValidateFunctionIR(code)
    /\ NoTerminatorInside(code, Leaders(code))

\* startToBlock: an index that starts no block is looked up as block 0.
BlockAt(code, i) == IF i \in Leaders(code) THEN i ELSE 1

Successors(code, s) ==
    LET e == BlockEnd(code, Leaders(code), s) IN
    CASE code[e].kind \in {"jmp", "br"} ->
            {BlockAt(code, LabelIndex(code, l)) : l \in Targets(code[e])}
      [] code[e].kind = "ret" -> {}
      [] OTHER                -> {e + 1} \cap Leaders(code)

(***************************************************************************)
(* Instruction-level control flow, the reference the block structures are  *)
(* compared with: the program counters evalCall may step to from i.        *)
(***************************************************************************)
NextPCs(code, i) ==
    CASE code[i].kind \in {"jmp", "br"} -> {LabelIndex(code, l) : l \in Targets(code[i])}
      [] code[i].kind = "ret"           -> {}
      [] OTHER                          -> {i + 1}

\* What docs/ir-cfg-invariants.md asks of a non-empty function, without any
\* notion of a block: every instruction is well formed, labels are unique,
\* targets exist and control cannot run off the end.
WellFormed(code) ==
    /\ \A i \in DOMAIN code : VerifyInstruction(code[i])
    /\ LabelsUnique(code)
    /\ TargetsDefined(code)
    /\ IsTerminator(code[Len(code)])

\* No instruction leads out of the code.
IsClosed(code) == \A i \in DOMAIN code : NextPCs(code, i) \subseteq DOMAIN code

=============================================================================
