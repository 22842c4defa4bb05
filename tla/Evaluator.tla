------------------------------ MODULE Evaluator ------------------------------
(***************************************************************************)
(* The TAC evaluator of internal/tac/evaluator.go: EvaluateFunction,       *)
(* evalCall and evalOp.  The recursion of evalCall is the stack frames;    *)
(* one step runs one instruction of the innermost call.                    *)
(*                                                                         *)
(* An i32 has Width bits.  A pointer is a cell number, which is an index   *)
(* into the memory of whichever call uses it; owner remembers the call     *)
(* that allocated the cell, is never read by the evaluator, and exists     *)
(* only for the properties.                                                *)
(***************************************************************************)
EXTENDS TacIR, FiniteSetsExt

CONSTANTS
    Modules,        \* the modules evaluated: functions of names to [params, code]
    Mains,          \* the functions asked for
    ArgumentLists,  \* the arguments they are called with
    StepLimit,      \* opts.StepLimit
    MaxCallDepth,   \* opts.MaxCallDepth
    Width,          \* bits of an i32
    ByteWidth       \* bits of an i8

ASSUME LimitsAssumption == StepLimit \in Nat \ {0} /\ MaxCallDepth \in Nat \ {0}
ASSUME WidthAssumption  == Width \in Nat \ {0, 1} /\ ByteWidth \in 1..Width
ASSUME ModulesAssumption == \A m \in Modules : \A f \in DOMAIN m : IsCode(m[f].code)

\* Parameters and operands are lists.
ASSUME ListsAssumption ==
    \A m \in Modules : \A f \in DOMAIN m :
        /\ m[f].params \in Seq({m[f].params[k] : k \in DOMAIN m[f].params})
        /\ \A i \in DOMAIN m[f].code :
              LET o == m[f].code[i].operands IN
              m[f].code[i].kind = "op" => o \in Seq({o[k] : k \in DOMAIN o})

VARIABLES
    module,   \* st.funcs
    main,     \* the function EvaluateFunction was asked for
    args,     \* and its arguments
    frames,   \* the calls in progress, innermost last
    steps,    \* st.steps
    calls,    \* calls entered so far; identifies them
    status,   \* "start", "running", "returned" or "failed"
    result,   \* the value returned
    fault     \* the error returned

vars == <<module, main, args, frames, steps, calls, status, result, fault>>

(***************************************************************************)
(* Machine words.                                                          *)
(***************************************************************************)

Unsigned(x) == x % 2^Width
Wrap(x)     == ((x + 2^(Width - 1)) % 2^Width) - 2^(Width - 1)
Words       == -(2^(Width - 1)) .. 2^(Width - 1) - 1
Bytes       == -(2^(ByteWidth - 1)) .. 2^(ByteWidth - 1) - 1

ASSUME ArgumentsAssumption == ArgumentLists \subseteq Seq(Words)

Magnitude(x) == IF x < 0 THEN -x ELSE x

\* Go's / and % truncate toward zero.
Quotient(a, b) ==
    LET q == Magnitude(a) \div Magnitude(b) IN IF (a < 0) = (b < 0) THEN q ELSE -q
Remainder(a, b) == a - b * Quotient(a, b)

\* A word as the set of its one bits, and the word with given bits.
BitsOf(x)      == {k \in 0..(Width - 1) : (Unsigned(x) \div 2^k) % 2 = 1}
FromBits(bits) == CHOOSE w \in Words : BitsOf(w) = bits

\* Seeded bugs: a left shift beyond a word, a shift amount taken modulo the width.
ShiftLeftUnwrapped(a, b) == IF Unsigned(b) >= Width THEN 0 ELSE a * 2^Unsigned(b)
ShiftRightMasked(a, b)   == a \div 2^(Unsigned(b) % Width)

\* The shift amount is converted to an unsigned word; a shift by Width or more
\* leaves the sign of a right shift and nothing of a left one.
ShiftLeft(a, b)  == IF Unsigned(b) >= Width THEN 0 ELSE Wrap(a * 2^Unsigned(b))
ShiftRight(a, b) == IF Unsigned(b) >= Width THEN (IF a < 0 THEN -1 ELSE 0)
                    ELSE a \div 2^Unsigned(b)

BoolI32(p) == IF p THEN 1 ELSE 0

ApplyUnary(op, a) ==
    CASE op = "neg"  -> Wrap(-a)
      [] op = "not"  -> FromBits((0..(Width - 1)) \ BitsOf(a))
      [] op = "lnot" -> BoolI32(a = 0)

ApplyBinary(op, a, b) ==
    CASE op = "add" -> Wrap(a + b)
      [] op = "sub" -> Wrap(a - b)
      [] op = "mul" -> Wrap(a * b)
      [] op = "div" -> Wrap(Quotient(a, b))
      [] op = "mod" -> Remainder(a, b)
      [] op = "and" -> FromBits(BitsOf(a) \cap BitsOf(b))
      [] op = "or"  -> FromBits(BitsOf(a) \cup BitsOf(b))
      [] op = "xor" -> FromBits((BitsOf(a) \cup BitsOf(b)) \ (BitsOf(a) \cap BitsOf(b)))
      [] op = "shl" -> ShiftLeft(a, b)
      [] op = "shr" -> ShiftRight(a, b)
      [] op = "eq"  -> BoolI32(a = b)
      [] op = "ne"  -> BoolI32(a # b)
      [] op = "lt"  -> BoolI32(a < b)
      [] op = "le"  -> BoolI32(a <= b)
      [] op = "gt"  -> BoolI32(a > b)
      [] op = "ge"  -> BoolI32(a >= b)

(***************************************************************************)
(* Values, frames and the resolution of operands.                          *)
(***************************************************************************)

Number(n)        == [kind |-> "i32", n |-> n, owner |-> 0]
Pointer(n, call) == [kind |-> "ptr", n |-> n, owner |-> call]
NoValue          == [kind |-> "none", n |-> 0, owner |-> 0]

\* The function f with x mapped to y, added to its domain if need be.
Put(f, x, y) == [z \in DOMAIN f \cup {x} |-> IF z = x THEN y ELSE f[z]]
Without(f, x) == [z \in DOMAIN f \ {x} |-> f[z]]

\* memory has the initialised cells only: an allocated cell without a value and
\* a cell never allocated fail a load alike.
NewFrame(f, values, id) ==
    [fn |-> f, pc |-> 1, values |-> values, memory |-> <<>>, nextAddr |-> 0, id |-> id]

frame == frames[Len(frames)]
body  == module[frame.fn].code
inst  == body[frame.pc]
Callers == SubSeq(frames, 1, Len(frames) - 1)

IsNumeral(text) == text[1] = "n"

\* resolveValue: a value of the frame, else a numeral in range, else an error.
Resolves(o)     == o.text \in DOMAIN frame.values \/ (IsNumeral(o.text) /\ o.text[2] \in Words)
ValueOf(o)      == IF o.text \in DOMAIN frame.values THEN frame.values[o.text]
                   ELSE Number(o.text[2])
ResolvesTo(o, kind) == Resolves(o) /\ ValueOf(o).kind = kind

operand(k) == inst.operands[k]

(***************************************************************************)
(* Errors.                                                                 *)
(***************************************************************************)

KindFault(o, kind) ==
    CASE ~Resolves(o) -> "unknown value"
      [] Resolves(o) /\ ValueOf(o).kind # kind ->
            IF kind = "i32" THEN "expected i32 value" ELSE "expected pointer value"
      [] OTHER -> "none"

FirstFault(faults) ==
    LET real == {k \in DOMAIN faults : faults[k] # "none"}
    IN IF real = {} THEN "none" ELSE faults[Min(real)]

ResolveFault(o) == IF Resolves(o) THEN "none" ELSE "unknown value"

NoDestinationFault ==
    IF inst.dst = NoOperand THEN "value without destination" ELSE "none"

LoadFault(o) ==
    LET f == KindFault(o, "ptr") IN
    IF f # "none" THEN f
    ELSE IF ValueOf(o).n \in DOMAIN frame.memory THEN "none" ELSE "uninitialized load"

DivisionFault ==
    IF inst.opcode \in {"div", "mod"} /\ ValueOf(operand(2)).n = 0
    THEN "division by zero" ELSE "none"

\* The error evalOp returns for the instruction, calls excepted.
OpFault ==
    CASE inst.opcode = "const" ->
            FirstFault(<<IF operand(1).text[2] \in Words THEN "none" ELSE "invalid constant",
                         NoDestinationFault>>)
      [] inst.opcode = "const8" ->
            FirstFault(<<IF operand(1).text[2] \in Bytes THEN "none" ELSE "invalid constant",
                         NoDestinationFault>>)
      [] inst.opcode = "copy"   -> FirstFault(<<ResolveFault(operand(1)), NoDestinationFault>>)
      [] inst.opcode = "alloca" -> NoDestinationFault
      [] inst.opcode \in {"load", "loadInd"} ->
            FirstFault(<<LoadFault(operand(1)), NoDestinationFault>>)
      [] inst.opcode \in {"store", "storeInd"} ->
            FirstFault(<<KindFault(operand(1), "ptr"), ResolveFault(operand(2))>>)
      [] inst.opcode \in UnaryOpcodes ->
            FirstFault(<<KindFault(operand(1), "i32"), NoDestinationFault>>)
      [] inst.opcode \in BinaryOpcodes ->
            LET kinds == FirstFault(<<KindFault(operand(1), "i32"),
                                      KindFault(operand(2), "i32")>>)
            IN IF kinds # "none" THEN kinds
               ELSE FirstFault(<<DivisionFault, NoDestinationFault>>)

\* Seeded bug: one call too many.
EnterFaultLate(f, argv, depth) ==
    CASE depth > MaxCallDepth -> "maximum call depth"
      [] depth <= MaxCallDepth /\ f \notin DOMAIN module -> "missing function"
      [] depth <= MaxCallDepth /\ f \in DOMAIN module
            /\ Len(argv) # Len(module[f].params) -> "argument count"
      [] OTHER -> "none"

\* The checks evalCall makes before it runs a function, at a given depth.
EnterFault(f, argv, depth) ==
    CASE depth >= MaxCallDepth -> "maximum call depth"
      [] depth < MaxCallDepth /\ f \notin DOMAIN module -> "missing function"
      [] depth < MaxCallDepth /\ f \in DOMAIN module
            /\ Len(argv) # Len(module[f].params) -> "argument count"
      [] OTHER -> "none"

(***************************************************************************)
(* EvaluateFunction.                                                       *)
(***************************************************************************)

Init ==
    /\ module \in Modules /\ main \in Mains /\ args \in ArgumentLists
    /\ frames = <<>>
    /\ steps = 0
    /\ calls = 0
    /\ status = "start"
    /\ result = NoValue
    /\ fault = "none"

\* An error unwinds every call in progress.
Fail(f) ==
    /\ status' = "failed"
    /\ fault' = f
    /\ frames' = <<>>
    /\ UNCHANGED <<module, main, args, calls, result>>

\* The frame of a call: its parameters, no memory.
Enter(f, argv) ==
    LET params == module[f].params
        last(text) == Max({k \in DOMAIN params : params[k] = text})
        values == [text \in {params[k] : k \in DOMAIN params} |-> argv[last(text)]]
    IN /\ frames' = Append(frames, NewFrame(f, values, calls + 1))
       /\ calls' = calls + 1

StartArguments == [k \in DOMAIN args |-> Number(args[k])]

ModuleValid == \A f \in DOMAIN module : ValidateFunctionIR(module[f].code)

StartFault ==
    IF ModuleValid THEN EnterFault(main, StartArguments, 0) ELSE "invalid function"

Start ==
    /\ status = "start"
    /\ StartFault = "none"
    /\ Enter(main, StartArguments)
    /\ status' = "running"
    /\ UNCHANGED <<module, main, args, steps, result, fault>>

StartFails ==
    /\ status = "start"
    /\ StartFault # "none"
    /\ Fail(StartFault)
    /\ UNCHANGED steps

(***************************************************************************)
(* The loop of evalCall.                                                   *)
(***************************************************************************)

Running == status = "running" /\ frame.pc <= Len(body)

\* Seeded bug: a step is not counted.
StepUncounted == Running /\ steps < StepLimit /\ steps' = steps

\* The step is counted before it is compared with the limit.
Step == Running /\ steps < StepLimit /\ steps' = steps + 1

StepLimitExceeded ==
    /\ Running
    /\ steps >= StepLimit
    /\ steps' = steps + 1
    /\ Fail("step limit")

EndedWithoutRet ==
    /\ status = "running"
    /\ frame.pc > Len(body)
    /\ Fail("ended without ret")
    /\ UNCHANGED steps

unchangedByStep == <<module, main, args, calls, status, result, fault>>

StepTo(pc) ==
    /\ frames' = Append(Callers, [frame EXCEPT !.pc = pc])
    /\ UNCHANGED unchangedByStep

\* The instruction yields a value and the next one follows.
Yield(value) ==
    /\ frames' = Append(Callers, [frame EXCEPT !.pc = @ + 1,
                                    !.values = Put(@, inst.dst.text, value)])
    /\ UNCHANGED unchangedByStep

StepLabel == Step /\ inst.kind = "label" /\ StepTo(frame.pc + 1)

StepJmp == Step /\ inst.kind = "jmp" /\ StepTo(LabelIndex(body, inst.target))

\* Seeded bug: the labels are swapped.
StepBrSwapped ==
    /\ Step /\ inst.kind = "br"
    /\ LET taken == IF ValueOf(inst.cond).n # 0 THEN inst.falseLabel ELSE inst.trueLabel IN
       IF ResolvesTo(inst.cond, "i32") THEN StepTo(LabelIndex(body, taken))
                                       ELSE Fail(KindFault(inst.cond, "i32"))

StepBr ==
    /\ Step /\ inst.kind = "br"
    /\ LET taken == IF ValueOf(inst.cond).n # 0 THEN inst.trueLabel ELSE inst.falseLabel IN
       IF ResolvesTo(inst.cond, "i32") THEN StepTo(LabelIndex(body, taken))
                                       ELSE Fail(KindFault(inst.cond, "i32"))

IsOp(opcodes) == Step /\ inst.kind = "op" /\ inst.opcode \in opcodes

StepOpFails ==
    /\ IsOp(Opcodes \ {"call"})
    /\ OpFault # "none"
    /\ Fail(OpFault)

StepConst ==
    /\ IsOp({"const", "const8"}) /\ OpFault = "none"
    /\ Yield(Number(operand(1).text[2]))

StepCopy ==
    /\ IsOp({"copy"}) /\ OpFault = "none"
    /\ Yield(ValueOf(operand(1)))

\* The new cell has no value, whatever a pointer of another call left there.
StepAlloca ==
    /\ IsOp({"alloca"}) /\ OpFault = "none"
    /\ frames' = Append(Callers, [frame EXCEPT !.pc = @ + 1, !.nextAddr = @ + 1,
                          !.memory = Without(@, frame.nextAddr),
                          !.values = Put(@, inst.dst.text, Pointer(frame.nextAddr, frame.id))])
    /\ UNCHANGED unchangedByStep

StepLoad ==
    /\ IsOp({"load", "loadInd"}) /\ OpFault = "none"
    /\ Yield(frame.memory[ValueOf(operand(1)).n])

StepStore ==
    /\ IsOp({"store", "storeInd"}) /\ OpFault = "none"
    /\ frames' = Append(Callers, [frame EXCEPT !.pc = @ + 1,
                          !.memory = Put(@, ValueOf(operand(1)).n, ValueOf(operand(2)))])
    /\ UNCHANGED unchangedByStep

StepUnary ==
    /\ IsOp(UnaryOpcodes) /\ OpFault = "none"
    /\ Yield(Number(ApplyUnary(inst.opcode, ValueOf(operand(1)).n)))

StepBinary ==
    /\ IsOp(BinaryOpcodes) /\ OpFault = "none"
    /\ Yield(Number(ApplyBinary(inst.opcode, ValueOf(operand(1)).n, ValueOf(operand(2)).n)))

CallArguments == [k \in DOMAIN inst.operands |-> ValueOf(inst.operands[k])]

CallFault ==
    IF \E k \in DOMAIN inst.operands : ~Resolves(inst.operands[k]) THEN "unknown value"
    ELSE EnterFault(inst.callee, CallArguments, Len(frames))

\* Seeded bug: the caller moves on before its call returns.
StepCallEarly ==
    /\ IsOp({"call"}) /\ CallFault = "none"
    /\ frames' = Callers \o <<[frame EXCEPT !.pc = @ + 1],
                              NewFrame(inst.callee, [t \in {} |-> NoValue], calls + 1)>>
    /\ calls' = calls + 1
    /\ UNCHANGED <<module, main, args, status, result, fault>>

StepCall ==
    /\ IsOp({"call"}) /\ CallFault = "none"
    /\ Enter(inst.callee, CallArguments)
    /\ UNCHANGED <<module, main, args, status, result, fault>>

StepCallFails ==
    /\ IsOp({"call"}) /\ CallFault # "none"
    /\ Fail(CallFault)

\* A bare ret yields zero.
ReturnValue == IF inst.value = NoOperand THEN Number(0) ELSE ValueOf(inst.value)
Returns     == Step /\ inst.kind = "ret" /\ (inst.value = NoOperand \/ Resolves(inst.value))

StepRetFails ==
    /\ Step /\ inst.kind = "ret"
    /\ inst.value # NoOperand /\ ~Resolves(inst.value)
    /\ Fail("unknown value")

\* Seeded bug: the memory of the call replaces that of its caller.
ReturnToCallerWithMemory ==
    /\ Returns /\ Len(frames) > 1
    /\ frames' = Append(SubSeq(frames, 1, Len(frames) - 2),
                        [frames[Len(frames) - 1] EXCEPT !.pc = @ + 1, !.memory = frame.memory])
    /\ UNCHANGED unchangedByStep

\* The caller resumes behind its call.
ReturnToCaller ==
    /\ Returns /\ Len(frames) > 1
    /\ LET caller == frames[Len(frames) - 1]
           call   == module[caller.fn].code[caller.pc]
           values == IF call.dst = NoOperand THEN caller.values
                     ELSE Put(caller.values, call.dst.text, ReturnValue)
       IN frames' = Append(SubSeq(frames, 1, Len(frames) - 2),
                           [caller EXCEPT !.pc = @ + 1, !.values = values])
    /\ UNCHANGED unchangedByStep

ReturnFromMain ==
    /\ Returns /\ Len(frames) = 1
    /\ IF ReturnValue.kind = "i32"
       THEN /\ status' = "returned"
            /\ result' = ReturnValue
            /\ frames' = <<>>
            /\ UNCHANGED <<module, main, args, calls, fault>>
       ELSE Fail("non-i32 result")

Terminated == status \in {"returned", "failed"} /\ UNCHANGED vars

Next ==
    \/ Start \/ StartFails
    \/ StepLimitExceeded \/ EndedWithoutRet
    \/ StepLabel \/ StepJmp \/ StepBr
    \/ StepConst \/ StepCopy \/ StepAlloca \/ StepLoad \/ StepStore
    \/ StepUnary \/ StepBinary \/ StepOpFails
    \/ StepCall \/ StepCallFails
    \/ ReturnToCaller \/ ReturnFromMain \/ StepRetFails
    \/ Terminated

Spec     == Init /\ [][Next]_vars
FairSpec == Spec /\ WF_vars(Next)

(***************************************************************************)
(* Properties.                                                             *)
(***************************************************************************)

Faults == {"none", "invalid function", "maximum call depth", "missing function",
           "argument count", "step limit", "ended without ret", "unknown value",
           "expected i32 value", "expected pointer value", "value without destination",
           "invalid constant", "uninitialized load", "division by zero", "non-i32 result"}

Values == [kind : {"i32"}, n : Words, owner : {0}] \cup [kind : {"ptr"}, n : Nat, owner : Nat]

\* Types of the state.
TypeOK ==
    /\ module \in Modules /\ main \in Mains /\ args \in ArgumentLists
    /\ \A i \in DOMAIN frames :
          /\ frames[i].fn \in DOMAIN module
          /\ frames[i].pc \in Nat /\ frames[i].nextAddr \in Nat
          /\ \A text \in DOMAIN frames[i].values : frames[i].values[text] \in Values
          /\ \A a \in DOMAIN frames[i].memory : a \in Nat /\ frames[i].memory[a] \in Values
    /\ steps \in Nat /\ calls \in Nat
    /\ status \in {"start", "running", "returned", "failed"}
    /\ result \in Values \cup {NoValue}
    /\ fault \in Faults

\* The limits of EvalOptions hold whatever the module does: at most one step
\* beyond the limit is counted, at most MaxCallDepth calls are in progress.
LimitsHold == steps <= StepLimit + 1 /\ Len(frames) <= MaxCallDepth

\* A call never leaves the code of its function: validation makes sure of it
\* for every function that has code at all.  An empty function validates and is
\* left at once, with the error "ended without ret".
ControlStaysInside ==
    \A i \in DOMAIN frames :
        LET c == module[frames[i].fn].code IN c # <<>> => frames[i].pc \in DOMAIN c

\* Each call in progress but the innermost is waiting at a call of the next.
CallersWaitAtCalls ==
    \A i \in 1..(Len(frames) - 1) :
        LET c == module[frames[i].fn].code[frames[i].pc] IN
        c.kind = "op" /\ c.opcode = "call" /\ c.callee = frames[i + 1].fn

\* A step of a call leaves the memory and the values of its callers alone; a
\* return changes nothing of the caller but its destination.
CallersUntouched ==
    [][\A i \in 1..(Len(frames) - 1) : i \in DOMAIN frames' =>
        /\ frames'[i].memory = frames[i].memory
        /\ frames'[i].nextAddr = frames[i].nextAddr
        /\ \A text \in DOMAIN frames[i].values :
              frames'[i].values[text] # frames[i].values[text] =>
                  text = module[frames[i].fn].code[frames[i].pc].dst.text]_vars

\* A pointer used by the instruction about to run that another call allocated.
ForeignAccess ==
    /\ Running /\ inst.kind = "op"
    /\ inst.opcode \in {"load", "loadInd", "store", "storeInd"}
    /\ ResolvesTo(operand(1), "ptr")
    /\ ValueOf(operand(1)).owner # frame.id

\* docs/tac-format.md wants the evaluator to fail clearly on runtime faults:
\* a cell of another call, which this call cannot reach, is not accessed.
ForeignAccessFails == [][ForeignAccess => status' = "failed"]_vars

\* Every evaluation ends, in a result or in an error: the limits stop a loop
\* and a recursion alike.
Terminates == <>(status \in {"returned", "failed"})

=============================================================================
