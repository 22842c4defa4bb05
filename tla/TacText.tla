------------------------------ MODULE TacText -------------------------------
(***************************************************************************)
(* The text format of three-address code: WriteModule of tac/writer.go and *)
(* ParseModule of tac/parser.go.                                           *)
(*                                                                         *)
(* A text is a sequence of lines.  A line of an instruction is the         *)
(* instruction with the texts of its operands where the operands were: the *)
(* kind of an operand is not written, the reader infers it from the text   *)
(* and the opcode.  Comments, blanks and malformed lines are left out: the *)
(* texts are those the writer produces.                                    *)
(***************************************************************************)
EXTENDS TacIR, SequencesExt

Version   == [kind |-> "version"]
BlankLine == [kind |-> "blank"]
Brace     == [kind |-> "brace"]
Header(f) == [kind |-> "func", name |-> f.name, params |-> f.params, ret |-> f.ret]

Texts(operands) == [k \in DOMAIN operands |-> operands[k].text]

(***************************************************************************)
(* Writing.  A function is [name, params, ret, code].                      *)
(***************************************************************************)

FormatInstruction(i) ==
    CASE i.kind = "br"  -> [i EXCEPT !.cond = @.text]
      [] i.kind = "ret" -> [i EXCEPT !.value = @.text]
      [] i.kind = "op"  -> [i EXCEPT !.dst = @.text, !.operands = Texts(@)]
      [] OTHER          -> i

WriteFunction(f) ==
    <<Header(f)>> \o [k \in DOMAIN f.code |-> FormatInstruction(f.code[k])] \o <<Brace>>

\* Every instruction is verified on its own; the validator is not asked.
Writable(functions) ==
    \A n \in DOMAIN functions : \A k \in DOMAIN functions[n].code :
        VerifyInstruction(functions[n].code[k])

WriteModule(functions) ==
    <<Version>> \o FlattenSeq([n \in DOMAIN functions |->
                       <<BlankLine>> \o WriteFunction(functions[n])])

(***************************************************************************)
(* Reading.                                                                *)
(***************************************************************************)

\* The prefix of a text decides: %t, %s, or any other %.
ClassifyPercentOperand(text) ==
    CASE text[1] = "t" -> Operand("temp", text)
      [] text[1] = "s" -> SlotPointer(text)
      [] OTHER         -> Param(text)

ParseValueOperand(text) ==
    CASE text = NoOperand.text       -> NoOperand
      [] text[1] \in {"t", "s", "v"} -> ClassifyPercentOperand(text)
      [] OTHER                       -> Immediate(text)

\* Seeded bug: the operand of an alloca is read as an address, too.
ParseOpcodeOperandsAsSlots(opcode, texts) ==
    [k \in DOMAIN texts |->
        IF k = 1 /\ opcode \in {"load", "store", "alloca"} THEN SlotPointer(texts[k])
        ELSE ParseValueOperand(texts[k])]

\* The opcode decides the kind of the address of a load or a store and of the
\* type an alloca names.
ParseOpcodeOperands(opcode, texts) ==
    [k \in DOMAIN texts |->
        CASE k = 1 /\ opcode \in {"load", "store"} -> SlotPointer(texts[k])
          [] opcode = "alloca"                     -> Immediate(texts[k])
          [] OTHER                                 -> ParseValueOperand(texts[k])]

ParseInstruction(line) ==
    CASE line.kind = "br"  -> [line EXCEPT !.cond = ParseValueOperand(@)]
      [] line.kind = "ret" -> [line EXCEPT !.value = ParseValueOperand(@)]
      [] line.kind = "op"  -> [line EXCEPT !.dst = ParseValueOperand(@),
                                           !.operands = ParseOpcodeOperands(line.opcode, @)]
      [] OTHER             -> line

DestinationsDefinedOnce(code) ==
    \A i, j \in DOMAIN code :
        /\ code[i].kind = "op" /\ code[j].kind = "op"
        /\ code[i].dst # NoOperand
        /\ code[i].dst.text = code[j].dst.text
        => i = j

\* Seeded bug: a function is taken as it is read.
ParseFunctionUnvalidated(f) ==
    /\ \A i \in DOMAIN f.code : VerifyInstruction(f.code[i])
    /\ LabelsUnique(f.code)
    /\ DestinationsDefinedOnce(f.code)
    /\ TargetsDefined(f.code)

\* parseFunction accepts the instructions between a header and the brace.
ParseFunction(f) ==
    /\ \A i \in DOMAIN f.code : VerifyInstruction(f.code[i])
    /\ LabelsUnique(f.code)
    /\ DestinationsDefinedOnce(f.code)
    /\ TargetsDefined(f.code)
    /\ ValidateFunctionIR(f.code)

(***************************************************************************)
(* The reader between two lines: where it is, and the functions it has     *)
(* read, the last of which is still open inside a function.                *)
(***************************************************************************)

AtStart   == [where |-> "start", functions |-> <<>>]
Refuse(r) == [r EXCEPT !.where = "error"]

OpenFunction(r, line) ==
    [where |-> "function",
     functions |-> Append(r.functions, [name |-> line.name, params |-> line.params,
                                        ret |-> line.ret, code |-> <<>>])]

CloseFunction(r) ==
    LET f == Last(r.functions)
        defined == {r.functions[n].name : n \in 1..(Len(r.functions) - 1)}
    IN  IF ParseFunction(f) /\ f.name \notin defined
        THEN [r EXCEPT !.where = "module"]
        ELSE Refuse(r)

AppendLine(r, line) ==
    [r EXCEPT !.functions[Len(r.functions)].code = Append(@, ParseInstruction(line))]

ReadLine(r, line) ==
    CASE r.where = "error" \/ line = BlankLine          -> r
      [] r.where = "start" /\ line = Version            -> [r EXCEPT !.where = "module"]
      [] r.where = "module" /\ line.kind = "func"       -> OpenFunction(r, line)
      [] r.where = "function" /\ line = Brace           -> CloseFunction(r)
      [] r.where = "function" /\ line.kind \in InstructionKinds -> AppendLine(r, line)
      [] OTHER                                          -> Refuse(r)

ReadModule(lines) == FoldLeft(ReadLine, AtStart, lines)
Accepted(lines)   == ReadModule(lines).where = "module"

=============================================================================
