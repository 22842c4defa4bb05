-------------------------- MODULE EvaluatorProofs --------------------------
(***************************************************************************)
(* Theorems about the evaluator: every module of any functions, any main   *)
(* and arguments, any limits and any word width.                           *)
(***************************************************************************)
EXTENDS Evaluator, TacIRProofs, FiniteSetTheorems

(***************************************************************************)
(* The inductive invariant: the stack of calls is a sequence of frames,    *)
(* every frame is inside the code of its function, and all but the last    *)
(* are waiting at their calls.                                             *)
(***************************************************************************)

\* The frames with the given fields: there is one.
FrameWith(fn, pc, values, memory, addr, id) ==
    [fn : {fn}, pc : {pc}, values : {values}, memory : {memory}, nextAddr : {addr}, id : {id}]

IsFrame(f) == f \in FrameWith(f.fn, f.pc, f.values, f.memory, f.nextAddr, f.id)

CodeIn(m, f) == m[f.fn].code

\* A frame of an empty function is at its first instruction, which is none.
FrameInside(m, f) ==
    /\ IsFrame(f)
    /\ f.fn \in DOMAIN m
    /\ IF CodeIn(m, f) = <<>> THEN f.pc = 1 ELSE f.pc \in DOMAIN CodeIn(m, f)

WaitsFor(m, f, callee) ==
    /\ CodeIn(m, f) # <<>>
    /\ CodeIn(m, f)[f.pc].kind = "op"
    /\ CodeIn(m, f)[f.pc].opcode = "call"
    /\ CodeIn(m, f)[f.pc].callee = callee

StackInv ==
    /\ Len(frames) \in Nat
    /\ frames \in Seq({frames[i] : i \in DOMAIN frames})
    /\ \A i \in DOMAIN frames : FrameInside(module, frames[i])
    /\ \A i \in 1..(Len(frames) - 1) : WaitsFor(module, frames[i], frames[i + 1].fn)

StatusInv ==
    /\ module \in Modules
    /\ status \in {"start", "running", "returned", "failed"}
    /\ status = "running" => ModuleValid
    /\ status = "running" <=> frames # <<>>

Inv == StackInv /\ StatusInv

(***************************************************************************)
(* What a step does to the stack of calls.                                 *)
(***************************************************************************)

\* The innermost call moves to another instruction of its function.
MovesOn ==
    \E f : /\ Running /\ UNCHANGED <<module, status>>
           /\ IsFrame(f) /\ f.fn = frame.fn /\ f.pc \in NextPCs(body, frame.pc)
           /\ frames' = Append(Callers, f)

\* It calls a function.
Calls ==
    \E values, id :
        /\ Running /\ UNCHANGED <<module, status>>
        /\ inst.kind = "op" /\ inst.opcode = "call" /\ inst.callee \in DOMAIN module
        /\ Len(frames) < MaxCallDepth
        /\ frames' = Append(frames, NewFrame(inst.callee, values, id))

\* It returns, and its caller moves on with the value, and nothing else changed.
OnlyDestinationChanges(f, caller) ==
    /\ f.memory = caller.memory
    /\ f.nextAddr = caller.nextAddr
    /\ \A text \in DOMAIN caller.values :
          f.values[text] # caller.values[text] =>
              text = CodeIn(module, caller)[caller.pc].dst.text

ReturnsInto ==
    \E f : /\ Running /\ UNCHANGED <<module, status>>
           /\ Len(frames) > 1
           /\ IsFrame(f) /\ f.fn = frames[Len(frames) - 1].fn
           /\ f.pc = frames[Len(frames) - 1].pc + 1
           /\ OnlyDestinationChanges(f, frames[Len(frames) - 1])
           /\ frames' = Append(SubSeq(frames, 1, Len(frames) - 2), f)

\* The first call is made.
EntersMain ==
    \E values, id :
        /\ status = "start" /\ status' = "running" /\ UNCHANGED module
        /\ main \in DOMAIN module /\ ModuleValid
        /\ 0 < MaxCallDepth
        /\ frames' = Append(frames, NewFrame(main, values, id))

\* Evaluation ends.
Unwinds == frames' = <<>> /\ status' \in {"returned", "failed"} /\ UNCHANGED module

\* A frame of a running call, and its instruction.
LEMMA RunningFrame ==
    ASSUME Inv, status = "running"
    PROVE  /\ frames # <<>> /\ Len(frames) \in Nat \ {0}
           /\ FrameInside(module, frame)
           /\ Running => body # <<>> /\ frame.pc \in DOMAIN body
<1>1. frames # <<>> /\ Len(frames) \in Nat \ {0} /\ Len(frames) \in DOMAIN frames
  BY DEF Inv, StackInv, StatusInv
<1>2. FrameInside(module, frame)
  BY <1>1 DEF Inv, StackInv, frame
<1>3. ASSUME Running PROVE body # <<>> /\ frame.pc \in DOMAIN body
  <2>1. CASE body = <<>>
    <3>1. frame.pc = 1 /\ Len(body) = 0
      BY <1>2, <2>1 DEF FrameInside, CodeIn, body
    <3> QED BY <1>3, <3>1 DEF Running
  <2> QED BY <1>2, <2>1 DEF FrameInside, CodeIn, body
<1> QED BY <1>1, <1>2, <1>3

\* The fields of a frame are those it was made with.
LEMMA FrameFields ==
    ASSUME NEW g, NEW fn, NEW pc, NEW values, NEW memory, NEW addr, NEW id,
           g \in FrameWith(fn, pc, values, memory, addr, id)
    PROVE  /\ IsFrame(g) /\ g.fn = fn /\ g.pc = pc /\ g.values = values
           /\ g.memory = memory /\ g.nextAddr = addr /\ g.id = id
BY DEF FrameWith, IsFrame

\* An instruction that neither jumps nor returns leads to the next one.
LEMMA NextOfPlain ==
    ASSUME body[frame.pc].kind \in {"label", "op"}
    PROVE  frame.pc + 1 \in NextPCs(body, frame.pc)
BY DEF NextPCs

\* The actions that move the innermost call on are such steps.
LEMMA MovingActions ==
    ASSUME Inv, \/ StepLabel \/ StepJmp \/ StepBr \/ StepConst \/ StepCopy \/ StepAlloca
                \/ StepLoad \/ StepStore \/ StepUnary \/ StepBinary
    PROVE  MovesOn \/ Unwinds
<1>1. Running /\ status = "running"
  BY DEF Step, Running, IsOp, StepLabel, StepJmp, StepBr, StepConst, StepCopy, StepAlloca,
         StepLoad, StepStore, StepUnary, StepBinary
<1>2. IsFrame(frame)
  BY <1>1, RunningFrame DEF FrameInside
<1>3. ASSUME NEW pc \in NextPCs(body, frame.pc), StepTo(pc) PROVE MovesOn
  <2> DEFINE g == [frame EXCEPT !.pc = pc]
  <2>1. g \in FrameWith(frame.fn, pc, frame.values, frame.memory, frame.nextAddr, frame.id)
    BY <1>2 DEF IsFrame, FrameWith
  <2>2. frames' = Append(Callers, g) /\ UNCHANGED <<module, status>>
    BY <1>3 DEF StepTo, unchangedByStep
  <2> HIDE DEF g
  <2>3. IsFrame(g) /\ g.fn = frame.fn /\ g.pc = pc
    BY <2>1, FrameFields
  <2> QED BY <1>1, <2>2, <2>3 DEF MovesOn
<1>4. ASSUME inst.kind \in {"label", "op"}, NEW v, Yield(v) PROVE MovesOn
  <2> DEFINE g == [frame EXCEPT !.pc = @ + 1, !.values = Put(@, inst.dst.text, v)]
  <2>0. g \in FrameWith(frame.fn, frame.pc + 1, Put(frame.values, inst.dst.text, v),
                      frame.memory, frame.nextAddr, frame.id)
    BY <1>2 DEF IsFrame, FrameWith
  <2>2. frames' = Append(Callers, g) /\ UNCHANGED <<module, status>>
    BY <1>4 DEF Yield, unchangedByStep
  <2> HIDE DEF g
  <2>1. IsFrame(g) /\ g.fn = frame.fn /\ g.pc = frame.pc + 1
    BY <2>0, FrameFields
  <2> QED BY <1>1, <1>4, <2>1, <2>2, NextOfPlain DEF MovesOn, inst
<1>5. CASE StepLabel
  BY <1>3, <1>5, NextOfPlain DEF StepLabel, inst
<1>6. CASE StepJmp
  <2>1. LabelIndex(body, inst.target) \in NextPCs(body, frame.pc)
    BY <1>6 DEF StepJmp, NextPCs, inst, Targets
  <2> QED BY <1>3, <1>6, <2>1 DEF StepJmp
<1>7. CASE StepBr
  <2>1. /\ LabelIndex(body, inst.trueLabel) \in NextPCs(body, frame.pc)
        /\ LabelIndex(body, inst.falseLabel) \in NextPCs(body, frame.pc)
    BY <1>7 DEF StepBr, NextPCs, inst, Targets
  <2>2. \/ StepTo(LabelIndex(body, inst.trueLabel))
        \/ StepTo(LabelIndex(body, inst.falseLabel))
        \/ Fail(KindFault(inst.cond, "i32"))
    BY <1>7 DEF StepBr
  <2> QED BY <1>3, <2>1, <2>2 DEF Fail, Unwinds
<1>8. CASE StepConst \/ StepCopy \/ StepLoad \/ StepUnary \/ StepBinary
  <2>1. inst.kind = "op" /\ \E v : Yield(v)
    BY <1>8 DEF StepConst, StepCopy, StepLoad, StepUnary, StepBinary, IsOp
  <2> QED BY <1>4, <2>1
<1>9. CASE StepAlloca
  <2> DEFINE g == [frame EXCEPT !.pc = @ + 1, !.nextAddr = @ + 1,
                     !.memory = Without(@, frame.nextAddr),
                     !.values = Put(@, inst.dst.text, Pointer(frame.nextAddr, frame.id))]
  <2>0. g \in FrameWith(frame.fn, frame.pc + 1,
                      Put(frame.values, inst.dst.text, Pointer(frame.nextAddr, frame.id)),
                      Without(frame.memory, frame.nextAddr), frame.nextAddr + 1, frame.id)
    BY <1>2 DEF IsFrame, FrameWith
  <2>2. inst.kind = "op" /\ frames' = Append(Callers, g) /\ UNCHANGED <<module, status>>
    BY <1>9 DEF StepAlloca, IsOp, unchangedByStep
  <2> HIDE DEF g
  <2>1. IsFrame(g) /\ g.fn = frame.fn /\ g.pc = frame.pc + 1
    BY <2>0, FrameFields
  <2> QED BY <1>1, <2>1, <2>2, NextOfPlain DEF MovesOn, inst
<1>10. CASE StepStore
  <2> DEFINE g == [frame EXCEPT !.pc = @ + 1,
                     !.memory = Put(@, ValueOf(operand(1)).n, ValueOf(operand(2)))]
  <2>0. g \in FrameWith(frame.fn, frame.pc + 1, frame.values,
                      Put(frame.memory, ValueOf(operand(1)).n, ValueOf(operand(2))),
                      frame.nextAddr, frame.id)
    BY <1>2 DEF IsFrame, FrameWith
  <2>2. inst.kind = "op" /\ frames' = Append(Callers, g) /\ UNCHANGED <<module, status>>
    BY <1>10 DEF StepStore, IsOp, unchangedByStep
  <2> HIDE DEF g
  <2>1. IsFrame(g) /\ g.fn = frame.fn /\ g.pc = frame.pc + 1
    BY <2>0, FrameFields
  <2> QED BY <1>1, <2>1, <2>2, NextOfPlain DEF MovesOn, inst
<1> QED BY <1>5, <1>6, <1>7, <1>8, <1>9, <1>10

\* A call that enters a function found it, with room on the stack.
LEMMA EnteredFunctions ==
    ASSUME NEW f, NEW argv, NEW depth \in Nat, EnterFault(f, argv, depth) = "none"
    PROVE  f \in DOMAIN module /\ depth < MaxCallDepth
<1>1. ~ (depth >= MaxCallDepth)
  BY DEF EnterFault
<1>2. depth < MaxCallDepth
  BY <1>1, LimitsAssumption
<1>3. f \in DOMAIN module
  BY <1>2 DEF EnterFault
<1> QED BY <1>2, <1>3

\* Every step is one of the five.
LEMMA StepCases ==
    ASSUME Inv, Next
    PROVE  \/ MovesOn \/ Calls \/ ReturnsInto \/ EntersMain \/ Unwinds
           \/ UNCHANGED <<frames, module, status>>
<1>1. CASE Start
  <2>1. ModuleValid /\ EnterFault(main, StartArguments, 0) = "none"
    BY <1>1 DEF Start, StartFault
  <2>2. main \in DOMAIN module /\ 0 < MaxCallDepth
    BY <2>1, EnteredFunctions, LimitsAssumption
  <2> QED BY <1>1, <2>1, <2>2 DEF Start, Enter, EntersMain
<1>2. CASE \/ StartFails \/ StepLimitExceeded \/ EndedWithoutRet \/ StepOpFails
           \/ StepCallFails \/ StepRetFails
  BY <1>2 DEF StartFails, StepLimitExceeded, EndedWithoutRet, StepOpFails, StepCallFails,
              StepRetFails, Fail, Unwinds
<1>3. CASE StepCall
  <2>1. Running /\ inst.kind = "op" /\ inst.opcode = "call"
    BY <1>3 DEF StepCall, IsOp, Step
  <2>2. EnterFault(inst.callee, CallArguments, Len(frames)) = "none"
    BY <1>3 DEF StepCall, CallFault
  <2>3. inst.callee \in DOMAIN module /\ Len(frames) < MaxCallDepth
    BY <2>2, EnteredFunctions, LimitsAssumption DEF Inv, StackInv
  <2> QED BY <1>3, <2>1, <2>3 DEF StepCall, Enter, Calls
<1>4. CASE ReturnToCaller
  <2> DEFINE caller == frames[Len(frames) - 1]
             call   == module[caller.fn].code[caller.pc]
             values == IF call.dst = NoOperand THEN caller.values
                       ELSE Put(caller.values, call.dst.text, ReturnValue)
             g      == [caller EXCEPT !.pc = @ + 1, !.values = values]
  <2>1. /\ Running /\ Len(frames) > 1 /\ UNCHANGED <<module, status>>
        /\ frames' = Append(SubSeq(frames, 1, Len(frames) - 2), g)
    BY <1>4 DEF ReturnToCaller, Returns, Step, unchangedByStep
  <2>2. IsFrame(caller)
    <3>1. Len(frames) - 1 \in DOMAIN frames
      BY <2>1 DEF Inv, StackInv
    <3> QED BY <3>1 DEF Inv, StackInv, FrameInside
  <2> HIDE DEF values, call
  <2>3. g \in FrameWith(caller.fn, caller.pc + 1, values, caller.memory,
                      caller.nextAddr, caller.id)
    <3> HIDE DEF caller
    <3> QED BY <2>2 DEF IsFrame, FrameWith
  <2> HIDE DEF g
  <2>4. /\ IsFrame(g) /\ g.fn = caller.fn /\ g.pc = caller.pc + 1
        /\ g.memory = caller.memory /\ g.nextAddr = caller.nextAddr /\ g.values = values
    BY <2>3, FrameFields
  <2>5. \A text \in DOMAIN caller.values :
            values[text] # caller.values[text] => text = call.dst.text
    <3> HIDE DEF caller
    <3> QED BY DEF values, Put
  <2>6. OnlyDestinationChanges(g, caller)
    BY <2>4, <2>5 DEF OnlyDestinationChanges, call, CodeIn
  <2> QED BY <2>1, <2>4, <2>6 DEF ReturnsInto
<1>5. CASE ReturnFromMain
  BY <1>5 DEF ReturnFromMain, Fail, Unwinds
<1>6. CASE \/ StepLabel \/ StepJmp \/ StepBr \/ StepConst \/ StepCopy \/ StepAlloca
           \/ StepLoad \/ StepStore \/ StepUnary \/ StepBinary
  BY <1>6, MovingActions
<1>7. CASE Terminated
  BY <1>7 DEF Terminated, vars
<1> QED BY <1>1, <1>2, <1>3, <1>4, <1>5, <1>6, <1>7 DEF Next

(***************************************************************************)
(* The invariant is inductive.                                             *)
(***************************************************************************)

\* Control stays in a function that validated.
LEMMA SuccessorsInside ==
    ASSUME Inv, status = "running", NEW f, FrameInside(module, f), CodeIn(module, f) # <<>>,
           NEW pc \in NextPCs(CodeIn(module, f), f.pc)
    PROVE  pc \in DOMAIN CodeIn(module, f)
<1>1. IsCode(CodeIn(module, f))
  BY ModulesAssumption DEF Inv, StatusInv, FrameInside, CodeIn
<1>2. ValidateFunctionIR(CodeIn(module, f))
  BY DEF Inv, StatusInv, ModuleValid, FrameInside, CodeIn
<1>3. IsClosed(CodeIn(module, f))
  BY <1>1, <1>2, ValidatedCodeIsClosed
<1> QED BY <1>3 DEF IsClosed, FrameInside

\* A fresh frame is inside its function.
LEMMA NewFrameInside ==
    ASSUME Inv, NEW fn \in DOMAIN module, NEW values, NEW id
    PROVE  FrameInside(module, NewFrame(fn, values, id)) /\ NewFrame(fn, values, id).fn = fn
<1> DEFINE g == NewFrame(fn, values, id)
<1>1. g \in FrameWith(fn, 1, values, <<>>, 0, id)
  BY DEF NewFrame, FrameWith
<1> HIDE DEF g
<1>2. IsFrame(g) /\ g.fn = fn /\ g.pc = 1
  BY <1>1, FrameFields
<1>3. IsCode(module[fn].code)
  BY ModulesAssumption DEF Inv, StatusInv
<1>4. CodeIn(module, g) # <<>> => 1 \in DOMAIN CodeIn(module, g)
  BY <1>2, <1>3 DEF CodeIn, IsCode
<1>5. FrameInside(module, g)
  BY <1>2, <1>4 DEF FrameInside, CodeIn
<1> QED BY <1>2, <1>5 DEF g

\* The stack of calls with its top n frames replaced by one that is inside its
\* function, which the frame below it waits for.
LEMMA StackWithNewTop ==
    ASSUME Inv, UNCHANGED module, NEW n \in 0..Len(frames), NEW f, FrameInside(module, f),
           \A i \in 1..n : i < n => WaitsFor(module, frames[i], frames[i + 1].fn),
           n > 0 => WaitsFor(module, frames[n], f.fn),
           frames' = Append(SubSeq(frames, 1, n), f)
    PROVE  StackInv' /\ frames' # <<>> /\ Len(frames') = n + 1
<1> DEFINE S == {frames[i] : i \in DOMAIN frames}
<1>1. frames \in Seq(S) /\ DOMAIN frames = 1..Len(frames) /\ n \in Nat
  BY DEF Inv, StackInv
<1>2. SubSeq(frames, 1, n) \in Seq(S) /\ Len(SubSeq(frames, 1, n)) = n
        /\ \A i \in 1..n : SubSeq(frames, 1, n)[i] = frames[i]
  <2> HIDE DEF S
  <2> QED BY <1>1
<1>3. /\ frames' \in Seq(S \cup {f})
      /\ Len(frames') = n + 1
      /\ DOMAIN frames' = 1..(n + 1)
      /\ frames'[n + 1] = f
      /\ \A i \in 1..n : frames'[i] = frames[i]
  <2> HIDE DEF S
  <2>1. SubSeq(frames, 1, n) \in Seq(S \cup {f}) /\ f \in S \cup {f}
    BY <1>2
  <2> QED BY <1>1, <1>2, <2>1
<1>4. frames' \in Seq({frames'[i] : i \in DOMAIN frames'})
  <2> DEFINE T == S \cup {f}
  <2>1. frames' \in Seq(T)
    BY <1>3
  <2> HIDE DEF T
  <2>2. \A s \in Seq(T) : s \in Seq({s[i] : i \in DOMAIN s})
    BY SequenceOfItsElements
  <2> QED BY <2>1, <2>2
<1>5. \A i \in DOMAIN frames' : FrameInside(module', frames'[i])
  <2>1. \A i \in 1..n : FrameInside(module, frames[i])
    BY <1>1 DEF Inv, StackInv
  <2> QED BY <1>1, <1>3, <2>1
<1>6. ASSUME NEW i \in 1..n PROVE WaitsFor(module', frames'[i], frames'[i + 1].fn)
  <2>1. CASE i < n
    <3>1. i + 1 \in 1..n
      BY <1>1, <2>1
    <3> QED BY <1>3, <2>1, <3>1
  <2>2. CASE i = n
    BY <1>1, <1>3, <2>2
  <2> QED BY <1>1, <2>1, <2>2
<1>7. Len(frames') \in Nat /\ Len(frames') - 1 = n /\ frames' # <<>>
  <2>1. Len(frames') = n + 1 /\ n \in Nat
    BY <1>1, <1>3
  <2> QED BY <2>1
<1> HIDE DEF S
<1> QED BY <1>3, <1>4, <1>5, <1>6, <1>7 DEF StackInv

\* Every step keeps the invariant.
LEMMA InvInductive == Inv /\ [Next]_vars => Inv'
<1> SUFFICES ASSUME Inv, [Next]_vars PROVE Inv'
  OBVIOUS
<1>0. Len(frames) \in Nat /\ frames \in Seq({frames[i] : i \in DOMAIN frames})
  BY DEF Inv, StackInv
<1>w. \A i \in 1..(Len(frames) - 1) : WaitsFor(module, frames[i], frames[i + 1].fn)
  BY DEF Inv, StackInv
<1>1. ASSUME MovesOn PROVE Inv'
  <2>1. PICK f : /\ Running /\ UNCHANGED <<module, status>>
                 /\ IsFrame(f) /\ f.fn = frame.fn /\ f.pc \in NextPCs(body, frame.pc)
                 /\ frames' = Append(Callers, f)
    BY <1>1 DEF MovesOn
  <2>2. status = "running"
    BY <2>1 DEF Running
  <2>3. Len(frames) \in Nat \ {0} /\ FrameInside(module, frame) /\ body # <<>>
    BY <2>1, <2>2, RunningFrame
  <2>4. FrameInside(module, f)
    BY <2>1, <2>2, <2>3, SuccessorsInside DEF FrameInside, CodeIn, body
  <2> DEFINE n == Len(frames) - 1
  <2>5. n \in 0..Len(frames) /\ \A i \in 1..n : i < n => WaitsFor(module, frames[i], frames[i + 1].fn)
    BY <1>0, <1>w, <2>3
  <2>6. n > 0 => WaitsFor(module, frames[n], f.fn)
    BY <1>w, <2>1, <2>3 DEF frame
  <2>7. StackInv' /\ frames' # <<>>
    BY <2>1, <2>4, <2>5, <2>6, StackWithNewTop DEF Callers
  <2> QED BY <2>1, <2>2, <2>7 DEF Inv, StatusInv, ModuleValid
<1>2. ASSUME Calls PROVE Inv'
  <2>1. PICK values, id :
           /\ Running /\ UNCHANGED <<module, status>>
           /\ inst.kind = "op" /\ inst.opcode = "call" /\ inst.callee \in DOMAIN module
           /\ frames' = Append(frames, NewFrame(inst.callee, values, id))
    BY <1>2 DEF Calls
  <2>2. status = "running"
    BY <2>1 DEF Running
  <2>3. Len(frames) \in Nat \ {0} /\ body # <<>>
    BY <2>1, <2>2, RunningFrame
  <2> DEFINE f == NewFrame(inst.callee, values, id)
             n == Len(frames)
  <2>4. FrameInside(module, f) /\ f.fn = inst.callee
    BY <2>1, NewFrameInside
  <2>5. n \in 0..Len(frames) /\ frames = SubSeq(frames, 1, n)
          /\ \A i \in 1..n : i < n => WaitsFor(module, frames[i], frames[i + 1].fn)
    BY <1>0, <1>w
  <2> HIDE DEF f
  <2>6. WaitsFor(module, frames[n], f.fn)
    BY <2>1, <2>3, <2>4 DEF WaitsFor, CodeIn, inst, body, frame
  <2>7. frames' = Append(SubSeq(frames, 1, n), f)
    BY <2>1, <2>5 DEF f
  <2>8. StackInv' /\ frames' # <<>>
    BY <2>1, <2>4, <2>5, <2>6, <2>7, StackWithNewTop
  <2> QED BY <2>1, <2>2, <2>8 DEF Inv, StatusInv, ModuleValid
<1>3. ASSUME ReturnsInto PROVE Inv'
  <2> DEFINE n == Len(frames) - 2
             caller == frames[Len(frames) - 1]
  <2>1. PICK f : /\ Running /\ UNCHANGED <<module, status>>
                 /\ Len(frames) > 1
                 /\ IsFrame(f) /\ f.fn = caller.fn /\ f.pc = caller.pc + 1
                 /\ frames' = Append(SubSeq(frames, 1, n), f)
    BY <1>3 DEF ReturnsInto
  <2>2. status = "running"
    BY <2>1 DEF Running
  <2>3. n \in 0..Len(frames) /\ n + 1 = Len(frames) - 1 /\ Len(frames) - 1 \in DOMAIN frames
          /\ Len(frames) - 1 \in 1..(Len(frames) - 1)
    BY <1>0, <2>1
  <2>4. FrameInside(module, caller) /\ \E c : WaitsFor(module, caller, c)
    BY <1>w, <2>3 DEF Inv, StackInv
  <2>5. \A i \in 1..n : WaitsFor(module, frames[i], frames[i + 1].fn)
    BY <1>0, <1>w, <2>3
  <2>6. n > 0 => WaitsFor(module, frames[n], f.fn)
    BY <2>1, <2>3, <2>5
  <2> HIDE DEF caller
  <2>7. CodeIn(module, caller) # <<>> /\ f.pc \in NextPCs(CodeIn(module, caller), caller.pc)
    BY <2>1, <2>4 DEF WaitsFor, NextPCs
  <2>8. FrameInside(module, f)
    BY <2>1, <2>2, <2>4, <2>7, SuccessorsInside DEF FrameInside, CodeIn
  <2>9. StackInv' /\ frames' # <<>>
    <3> HIDE DEF n
    <3> QED BY <2>1, <2>3, <2>5, <2>6, <2>8, StackWithNewTop
  <2> QED BY <2>1, <2>2, <2>9 DEF Inv, StatusInv, ModuleValid
<1>4. ASSUME EntersMain PROVE Inv'
  <2>1. PICK values, id :
           /\ status = "start" /\ status' = "running" /\ UNCHANGED module
           /\ main \in DOMAIN module /\ ModuleValid
           /\ frames' = Append(frames, NewFrame(main, values, id))
    BY <1>4 DEF EntersMain
  <2> DEFINE f == NewFrame(main, values, id)
  <2>2. FrameInside(module, f)
    BY <2>1, NewFrameInside
  <2>3. frames = <<>> /\ frames = SubSeq(frames, 1, 0)
    BY <2>1 DEF Inv, StatusInv
  <2> HIDE DEF f
  <2>4. frames' = Append(SubSeq(frames, 1, 0), f)
    BY <2>1, <2>3 DEF f
  <2>5. StackInv' /\ frames' # <<>>
    BY <2>1, <2>2, <2>3, <2>4, StackWithNewTop
  <2> QED BY <2>1, <2>5 DEF Inv, StatusInv, ModuleValid
<1>5. ASSUME Unwinds PROVE Inv'
  BY <1>5 DEF Unwinds, Inv, StackInv, StatusInv
<1>6. CASE UNCHANGED <<frames, module, status>>
  BY <1>6 DEF Inv, StackInv, StatusInv, FrameInside, WaitsFor, CodeIn, ModuleValid
<1>7. CASE UNCHANGED vars
  BY <1>6, <1>7 DEF vars
<1> QED BY <1>1, <1>2, <1>3, <1>4, <1>5, <1>6, <1>7, StepCases

\* It holds in every state of every evaluation.
THEOREM StackInvariant == Spec => []Inv
<1>1. Init => Inv
  BY DEF Init, Inv, StackInv, StatusInv
<1> QED BY <1>1, InvInductive, PTL DEF Spec

(***************************************************************************)
(* What follows.                                                           *)
(***************************************************************************)

\* Whatever modules are evaluated, no call ever leaves the code of its
\* function: there is no state with a program counter outside it.
THEOREM ControlInside == Spec => []ControlStaysInside
<1>1. Inv => ControlStaysInside
  BY DEF Inv, StackInv, FrameInside, CodeIn, ControlStaysInside
<1> QED BY <1>1, StackInvariant, PTL

\* Every call but the innermost is waiting at the instruction that called the
\* next, so a return always finds the call it answers.
THEOREM CallersWait == Spec => []CallersWaitAtCalls
<1>1. Inv => CallersWaitAtCalls
  BY DEF Inv, StackInv, WaitsFor, CodeIn, CallersWaitAtCalls
<1> QED BY <1>1, StackInvariant, PTL

(***************************************************************************)
(* The limits.  Once more than StepLimit steps are counted, the evaluation *)
(* is over, and nothing is counted any more.                               *)
(***************************************************************************)

LimitsInv ==
    /\ steps \in Nat
    /\ steps <= StepLimit \/ (steps = StepLimit + 1 /\ status \in {"returned", "failed"})
    /\ Len(frames) <= MaxCallDepth

\* A step counts nothing, or one, and beyond the limit it is the last.
LEMMA StepsCounted ==
    ASSUME Next
    PROVE  \/ steps' = steps /\ status' = status
           \/ steps' = steps /\ status \in {"start", "running"}
           \/ steps' = steps + 1 /\ steps < StepLimit /\ status = "running"
           \/ steps' = steps + 1 /\ status = "running" /\ status' = "failed"
<1>1. CASE \/ StepLabel \/ StepJmp \/ StepBr \/ StepConst \/ StepCopy \/ StepAlloca
           \/ StepLoad \/ StepStore \/ StepUnary \/ StepBinary \/ StepOpFails
           \/ StepCall \/ StepCallFails \/ ReturnToCaller \/ ReturnFromMain \/ StepRetFails
  <2>1. Step
    BY <1>1 DEF StepLabel, StepJmp, StepBr, StepConst, StepCopy, StepAlloca, StepLoad,
                StepStore, StepUnary, StepBinary, StepOpFails, StepCall, StepCallFails,
                ReturnToCaller, ReturnFromMain, StepRetFails, IsOp, Returns
  <2> QED BY <2>1 DEF Step, Running
<1>2. CASE Start \/ StartFails
  BY <1>2 DEF Start, StartFails
<1>3. CASE StepLimitExceeded
  BY <1>3 DEF StepLimitExceeded, Running, Fail
<1>4. CASE EndedWithoutRet
  BY <1>4 DEF EndedWithoutRet
<1>5. CASE Terminated
  BY <1>5 DEF Terminated, vars
<1> QED BY <1>1, <1>2, <1>3, <1>4, <1>5 DEF Next

\* The stack only grows below its limit.
LEMMA DepthBounded ==
    ASSUME Inv, Len(frames) <= MaxCallDepth, [Next]_vars
    PROVE  Len(frames') <= MaxCallDepth
<1>0. Len(frames) \in Nat /\ frames \in Seq({frames[i] : i \in DOMAIN frames})
        /\ MaxCallDepth \in Nat \ {0}
  BY LimitsAssumption DEF Inv, StackInv
<1> DEFINE S == {frames[i] : i \in DOMAIN frames}
<1>s. frames \in Seq(S)
  BY <1>0
<1> HIDE DEF S
<1>1. ASSUME NEW n \in 0..Len(frames), NEW f, frames' = Append(SubSeq(frames, 1, n), f)
      PROVE  Len(frames') = n + 1
  <2>1. SubSeq(frames, 1, n) \in Seq(S \cup {f}) /\ Len(SubSeq(frames, 1, n)) = n
    BY <1>0, <1>s
  <2> QED BY <1>1, <2>1
<1>2. ASSUME MovesOn PROVE Len(frames') <= MaxCallDepth
  <2>1. Len(frames) \in Nat \ {0}
    BY <1>2, RunningFrame DEF MovesOn, Running
  <2>2. Len(frames) - 1 \in 0..Len(frames) /\ (Len(frames) - 1) + 1 = Len(frames)
    BY <2>1
  <2>3. \E f : frames' = Append(SubSeq(frames, 1, Len(frames) - 1), f)
    BY <1>2 DEF MovesOn, Callers
  <2> QED BY <1>1, <2>2, <2>3
<1>3. ASSUME Calls PROVE Len(frames') <= MaxCallDepth
  <2>1. Len(frames) < MaxCallDepth /\ \E f : frames' = Append(frames, f)
    BY <1>3 DEF Calls
  <2>2. frames = SubSeq(frames, 1, Len(frames)) /\ Len(frames) \in 0..Len(frames)
    BY <1>0, <1>s
  <2>3. Len(frames') = Len(frames) + 1
    BY <1>1, <2>1, <2>2
  <2> QED BY <1>0, <2>1, <2>3
<1>4. ASSUME ReturnsInto PROVE Len(frames') <= MaxCallDepth
  <2>1. Len(frames) > 1 /\ \E f : frames' = Append(SubSeq(frames, 1, Len(frames) - 2), f)
    BY <1>4 DEF ReturnsInto
  <2>2. Len(frames) - 2 \in 0..Len(frames)
    BY <1>0, <2>1
  <2>3. Len(frames') = (Len(frames) - 2) + 1
    BY <1>1, <2>1, <2>2
  <2> QED BY <1>0, <2>3
<1>5. ASSUME EntersMain PROVE Len(frames') <= MaxCallDepth
  <2>1. \E f : frames' = Append(frames, f)
    BY <1>5 DEF EntersMain
  <2>2. frames = <<>>
    BY <1>5 DEF EntersMain, Inv, StatusInv
  <2>3. frames = SubSeq(frames, 1, 0)
    BY <2>2
  <2>4. Len(frames') = 1
    BY <1>0, <1>1, <2>1, <2>3
  <2> QED BY <1>0, <2>4
<1>6. ASSUME Unwinds PROVE Len(frames') <= MaxCallDepth
  BY <1>0, <1>6 DEF Unwinds
<1>7. CASE UNCHANGED frames
  BY <1>7
<1> QED BY <1>2, <1>3, <1>4, <1>5, <1>6, <1>7, StepCases DEF vars

\* The limits hold for every module: no program makes the evaluator count more
\* than one step beyond StepLimit or stack more than MaxCallDepth calls.
THEOREM LimitsRespected == Spec => []LimitsHold
<1>1. Init => LimitsInv
  BY LimitsAssumption DEF Init, LimitsInv
<1>2. Inv /\ LimitsInv /\ [Next]_vars => LimitsInv'
  <2> SUFFICES ASSUME Inv, LimitsInv, [Next]_vars PROVE LimitsInv'
    OBVIOUS
  <2>1. Len(frames') <= MaxCallDepth
    BY DepthBounded DEF LimitsInv
  <2>2. CASE Next
    <3>1. /\ steps' \in Nat
          /\ steps' <= StepLimit \/ (steps' = StepLimit + 1 /\ status' \in {"returned", "failed"})
      BY <2>2, StepsCounted, LimitsAssumption DEF LimitsInv
    <3> QED BY <2>1, <3>1 DEF LimitsInv
  <2>3. CASE UNCHANGED vars
    BY <2>1, <2>3 DEF LimitsInv, vars
  <2> QED BY <2>2, <2>3
<1>3. LimitsInv => LimitsHold
  BY LimitsAssumption DEF LimitsInv, LimitsHold
<1> QED BY <1>1, <1>2, <1>3, StackInvariant, PTL DEF Spec

(***************************************************************************)
(* Isolation of calls.                                                     *)
(***************************************************************************)

\* No step of a call changes the memory, the addresses or the values of its
\* callers; a return changes the destination of the call and nothing else.
THEOREM CallersIsolated == Spec => CallersUntouched
<1> DEFINE Kept(i) == /\ frames'[i].memory = frames[i].memory
                      /\ frames'[i].nextAddr = frames[i].nextAddr
                      /\ \A text \in DOMAIN frames[i].values :
                            frames'[i].values[text] # frames[i].values[text] =>
                                text = module[frames[i].fn].code[frames[i].pc].dst.text
<1>1. ASSUME Inv, [Next]_vars, NEW i \in 1..(Len(frames) - 1), i \in DOMAIN frames'
      PROVE  Kept(i)
  <2> DEFINE S == {frames[k] : k \in DOMAIN frames}
  <2>0. Len(frames) \in Nat /\ frames \in Seq(S) /\ i \in DOMAIN frames
    <3>1. Len(frames) \in Nat /\ frames \in Seq(S)
      BY <1>1 DEF Inv, StackInv
    <3> HIDE DEF S
    <3> QED BY <3>1
  <2>s. frames'[i] = frames[i] => Kept(i)
    OBVIOUS
  <2> HIDE DEF S
  <2>1. ASSUME NEW n \in 0..Len(frames), NEW f, frames' = Append(SubSeq(frames, 1, n), f)
        PROVE  IF i <= n THEN frames'[i] = frames[i] ELSE i = n + 1 /\ frames'[i] = f
    <3>1. /\ SubSeq(frames, 1, n) \in Seq(S \cup {f}) /\ Len(SubSeq(frames, 1, n)) = n
          /\ \A k \in 1..n : SubSeq(frames, 1, n)[k] = frames[k]
      BY <2>0
    <3>2. /\ DOMAIN frames' = 1..(n + 1) /\ frames'[n + 1] = f
          /\ \A k \in 1..n : frames'[k] = frames[k]
      BY <2>1, <3>1
    <3> QED BY <1>1, <3>2
  <2>2. ASSUME MovesOn PROVE Kept(i)
    <3>1. \E f : frames' = Append(SubSeq(frames, 1, Len(frames) - 1), f)
      BY <2>2 DEF MovesOn, Callers
    <3>2. Len(frames) - 1 \in 0..Len(frames) /\ i <= Len(frames) - 1
      BY <2>0
    <3> QED BY <2>1, <2>s, <3>1, <3>2
  <2>3. ASSUME Calls PROVE Kept(i)
    <3>1. \E f : frames' = Append(frames, f)
      BY <2>3 DEF Calls
    <3>2. frames = SubSeq(frames, 1, Len(frames)) /\ Len(frames) \in 0..Len(frames)
            /\ i <= Len(frames)
      BY <2>0
    <3> QED BY <2>1, <2>s, <3>1, <3>2
  <2>4. ASSUME ReturnsInto PROVE Kept(i)
    <3>1. PICK f : /\ Len(frames) > 1
                   /\ OnlyDestinationChanges(f, frames[Len(frames) - 1])
                   /\ frames' = Append(SubSeq(frames, 1, Len(frames) - 2), f)
      BY <2>4 DEF ReturnsInto
    <3>2. Len(frames) - 2 \in 0..Len(frames)
      BY <2>0, <3>1
    <3>3. CASE i <= Len(frames) - 2
      BY <2>1, <2>s, <3>1, <3>2, <3>3
    <3>4. CASE ~ (i <= Len(frames) - 2)
      <4>1. i = Len(frames) - 1
        BY <2>0, <3>4
      <4>2. frames'[i] = f
        BY <2>1, <3>1, <3>2, <3>4
      <4> QED BY <3>1, <4>1, <4>2 DEF OnlyDestinationChanges, CodeIn
    <3> QED BY <3>3, <3>4
  <2>5. ASSUME EntersMain PROVE Kept(i)
    BY <2>0, <2>5 DEF EntersMain, Inv, StatusInv
  <2>6. ASSUME Unwinds PROVE Kept(i)
    BY <1>1, <2>6 DEF Unwinds
  <2>7. CASE UNCHANGED frames
    BY <2>7, <2>s
  <2> QED BY <1>1, <2>2, <2>3, <2>4, <2>5, <2>6, <2>7, StepCases DEF vars
<1>2. Inv /\ [Next]_vars =>
        [\A i \in 1..(Len(frames) - 1) : i \in DOMAIN frames' => Kept(i)]_vars
  BY <1>1
<1> QED BY <1>2, StackInvariant, PTL DEF Spec, CallersUntouched

(***************************************************************************)
(* Words.  The powers of two come from counting sets.                      *)
(***************************************************************************)

\* A set of n elements has 2^n subsets; so a power of two is positive, and one
\* element more doubles it.
LEMMA PowersOfTwo ==
    ASSUME NEW n \in Nat
    PROVE  2^n \in Nat \ {0} /\ 2^(n + 1) = 2 * 2^n
<1> DEFINE A == SUBSET (1..n)
           B == SUBSET (1..(n + 1))
           C == {X \cup {n + 1} : X \in A}
<1>1. IsFiniteSet(A) /\ Cardinality(A) = 2^n
  <2>1. IsFiniteSet(1..n) /\ Cardinality(1..n) = n
    BY FS_Interval
  <2> QED BY <2>1, FS_SUBSET
<1>2. IsFiniteSet(B) /\ Cardinality(B) = 2^(n + 1)
  <2>1. IsFiniteSet(1..(n + 1)) /\ Cardinality(1..(n + 1)) = n + 1
    BY FS_Interval
  <2> QED BY <2>1, FS_SUBSET
<1>3. B = A \cup C /\ A \cap C = {}
  <2>1. ASSUME NEW X \in B PROVE X \in A \cup C
    <3>1. CASE n + 1 \in X
      <4>1. X = (X \ {n + 1}) \cup {n + 1} /\ X \ {n + 1} \in A
        BY <3>1
      <4> QED BY <4>1
    <3>2. CASE n + 1 \notin X
      BY <3>2
    <3> QED BY <3>1, <3>2
  <2>2. ASSUME NEW X \in A PROVE X \in B /\ X \cup {n + 1} \in B /\ n + 1 \notin X
    <3>1. 1..n \subseteq 1..(n + 1) /\ n + 1 \in 1..(n + 1) /\ n + 1 \notin 1..n
      OBVIOUS
    <3> QED BY <3>1
  <2>3. ASSUME NEW Y \in C PROVE Y \in B /\ n + 1 \in Y
    <3>1. PICK X \in A : Y = X \cup {n + 1}
      BY <2>3
    <3> HIDE DEF A, B, C
    <3> QED BY <2>2, <3>1
  <2> HIDE DEF A, B, C
  <2> QED BY <2>1, <2>2, <2>3
<1>4. IsFiniteSet(C) /\ Cardinality(C) = 2^n
  <2> DEFINE f == [X \in A |-> X \cup {n + 1}]
  <2>1. f \in Bijection(A, C)
    <3>1. f \in [A -> C]
      OBVIOUS
    <3>2. ASSUME NEW X \in A, NEW Y \in A, f[X] = f[Y] PROVE X = Y
      <4>1. n + 1 \notin X /\ n + 1 \notin Y /\ X \cup {n + 1} = Y \cup {n + 1}
        BY <3>2
      <4> QED BY <4>1
    <3>3. \A y \in C : \E X \in A : f[X] = y
      OBVIOUS
    <3> HIDE DEF f, A, C
    <3> QED BY <3>1, <3>2, <3>3 DEF Bijection, Injection, Surjection, IsInjective
  <2>2. ExistsBijection(A, C)
    BY <2>1 DEF ExistsBijection
  <2> QED BY <1>1, <2>2, FS_Bijection
<1>5. 2^(n + 1) = 2^n + 2^n
  <2>1. IsFiniteSet({}) /\ Cardinality({}) = 0
    BY FS_EmptySet
  <2> HIDE DEF A, B, C
  <2>2. 2^n \in Nat
    BY <1>1, FS_CardinalityType
  <2>3. Cardinality(B) = Cardinality(A) + Cardinality(C) - 0
    BY <1>1, <1>3, <1>4, <2>1, FS_Union
  <2> QED BY <1>1, <1>2, <1>4, <2>2, <2>3
<1>6. 2^n \in Nat \ {0}
  <2>1. 2^n \in Nat
    BY <1>1, FS_CardinalityType
  <2>2. A # {}
    OBVIOUS
  <2> HIDE DEF A
  <2> QED BY <1>1, <2>1, <2>2, FS_EmptySet
<1> HIDE DEF A, B, C
<1> QED BY <1>5, <1>6

\* A larger exponent gives a larger power.
LEMMA PowersGrow ==
    ASSUME NEW n \in Nat, NEW m \in 0..n
    PROVE  2^m <= 2^n
<1>1. IsFiniteSet(SUBSET (1..n)) /\ Cardinality(SUBSET (1..n)) = 2^n
  <2>1. IsFiniteSet(1..n) /\ Cardinality(1..n) = n
    BY FS_Interval
  <2> QED BY <2>1, FS_SUBSET
<1>2. Cardinality(SUBSET (1..m)) = 2^m
  <2>1. m \in Int /\ IsFiniteSet(1..m) /\ Cardinality(1..m) = m
    BY FS_Interval
  <2> QED BY <2>1, FS_SUBSET
<1>3. (SUBSET (1..m)) \in SUBSET (SUBSET (1..n))
  OBVIOUS
<1> QED BY <1>1, <1>2, <1>3, FS_Subset

Half == 2^(Width - 1)

\* The words are as many as the sets of bits, half of them negative.
LEMMA WordRange ==
    /\ Half \in Nat /\ Half >= 2 /\ 2^Width = 2 * Half
    /\ Words = -Half .. Half - 1
    /\ Bytes \subseteq Words
<1>1. Width - 1 \in Nat /\ Width - 1 >= 1 /\ (Width - 1) + 1 = Width
  BY WidthAssumption
<1>2. Half \in Nat /\ 2^Width = 2 * Half
  BY <1>1, PowersOfTwo DEF Half
<1>3. Half >= 2
  <2>1. 2^1 = 2
    <3>1. 2^(0 + 1) = 2 * 2^0
      BY PowersOfTwo
    <3> QED BY <3>1
  <2>2. 2^1 <= 2^(Width - 1)
    <3>1. 1 \in 0..(Width - 1)
      BY <1>1
    <3> QED BY <1>1, <3>1, PowersGrow
  <2> QED BY <2>1, <2>2 DEF Half
<1>4. Bytes \subseteq Words
  <2>1. ByteWidth - 1 \in 0..(Width - 1)
    BY WidthAssumption
  <2>2. 2^(ByteWidth - 1) <= Half /\ 2^(ByteWidth - 1) \in Nat
    BY <1>1, <2>1, PowersGrow, PowersOfTwo DEF Half
  <2> QED BY <1>2, <2>2 DEF Bytes, Words, Half
<1> QED BY <1>2, <1>3, <1>4 DEF Words, Half

\* Division with remainder, in terms of products.
LEMMA Division ==
    ASSUME NEW a \in Int, NEW d \in Nat \ {0}
    PROVE  /\ a \div d \in Int /\ a % d \in 0..(d - 1)
           /\ a = d * (a \div d) + (a % d)
OBVIOUS

\* A quotient is the only one with a remainder in range.
LEMMA DivisionUnique ==
    ASSUME NEW d \in Nat \ {0}, NEW q \in Int, NEW r \in 0..(d - 1)
    PROVE  (d * q + r) \div d = q /\ (d * q + r) % d = r
OBVIOUS

\* Wrapping leaves a word.
LEMMA WrapsToWord ==
    ASSUME NEW x \in Int
    PROVE  Wrap(x) \in Words
<1>1. (x + Half) % (2 * Half) \in 0..(2 * Half - 1)
  <2>1. x + Half \in Int /\ 2 * Half \in Nat \ {0}
    BY WordRange
  <2> QED BY <2>1, Division
<1>2. Wrap(x) = ((x + Half) % (2 * Half)) - Half
  BY WordRange DEF Wrap, Half
<1> QED BY <1>1, <1>2, WordRange

\* An unsigned word, by which a word is known.
LEMMA UnsignedWord ==
    ASSUME NEW x \in Words
    PROVE  /\ Unsigned(x) \in 0..(2^Width - 1)
           /\ Unsigned(x) = IF x < 0 THEN x + 2^Width ELSE x
<1>1. x \in Int /\ -Half <= x /\ x <= Half - 1
  BY WordRange
<1> DEFINE d == 2^Width
           q == IF x < 0 THEN -1 ELSE 0
           r == IF x < 0 THEN x + d ELSE x
<1>2. d \in Nat \ {0} /\ q \in Int /\ r \in 0..(d - 1) /\ d * q + r = x
  BY <1>1, WordRange
<1>3. x % d = r
  <2> HIDE DEF d, q, r
  <2> QED BY <1>2, DivisionUnique
<1> QED BY <1>2, <1>3 DEF Unsigned

\* Halving twice: the bits above k, and the bit k itself.
LEMMA NextBit ==
    ASSUME NEW y \in Nat, NEW k \in Nat
    PROVE  /\ y \div 2^k \in Nat /\ y \div 2^(k + 1) \in Nat
           /\ y \div 2^k = 2 * (y \div 2^(k + 1)) + ((y \div 2^k) % 2)
<1> DEFINE d == 2^k
           q == y \div d
           r == y % d
           h == q \div 2
           b == q % 2
<1>1. d \in Nat \ {0} /\ 2^(k + 1) = 2 * d
  BY PowersOfTwo
<1>2. q \in Int /\ r \in 0..(d - 1) /\ y = d * q + r
  <2> HIDE DEF d
  <2> QED BY <1>1, Division
<1>3. h \in Int /\ b \in 0..1 /\ q = 2 * h + b
  <2> HIDE DEF q
  <2> QED BY <1>2, Division
<1> HIDE DEF d, q, r, h, b
<1>4. y = (2 * d) * h + (d * b + r)
  <2>1. d * q = d * (2 * h) + d * b
    BY <1>1, <1>2, <1>3
  <2>2. d * (2 * h) = (2 * d) * h
    BY <1>1, <1>3
  <2>3. d * b \in Int /\ d * (2 * h) \in Int
    BY <1>1, <1>3
  <2> QED BY <1>1, <1>2, <1>3, <2>1, <2>2, <2>3
<1>5. d * b + r \in 0..(2 * d - 1)
  <2>1. b = 0 \/ b = 1
    BY <1>3
  <2> QED BY <1>1, <1>2, <2>1
<1>6. y \div (2 * d) = h
  <2>1. 2 * d \in Nat \ {0}
    BY <1>1
  <2> DEFINE e == 2 * d
             s == d * b + r
  <2>2. y = e * h + s /\ s \in 0..(e - 1) /\ e \in Nat \ {0}
    BY <1>4, <1>5, <2>1
  <2> HIDE DEF e, s
  <2>3. y \div e = h
    BY <1>3, <2>2, DivisionUnique
  <2> QED BY <2>3 DEF e
<1>7. q >= 0
  <2> SUFFICES ASSUME q <= -1 PROVE FALSE
    BY <1>2
  <2>1. d * q <= -d
    BY <1>1, <1>2
  <2> QED BY <1>1, <1>2, <2>1
<1>8. q \in Nat /\ h \in Nat
  BY <1>2, <1>3, <1>7
<1> QED BY <1>1, <1>3, <1>6, <1>8 DEF d, q, b

\* Two words with the same bits are the same word: above the bits nothing is
\* left, and a bit more at a time the halves agree.
LEMMA BitsDetermineWord ==
    ASSUME NEW x \in Words, NEW y \in Words, BitsOf(x) = BitsOf(y)
    PROVE  x = y
<1> DEFINE u == Unsigned(x)
           v == Unsigned(y)
           Differ == {k \in 0..Width : u \div 2^k # v \div 2^k}
<1>0. Width \in Nat \ {0, 1}
  BY WidthAssumption
<1>1. u \in Nat /\ v \in Nat /\ u <= 2^Width - 1 /\ v <= 2^Width - 1 /\ 2^Width \in Nat \ {0}
  <2>1. 2^Width \in Nat \ {0}
    BY <1>0, PowersOfTwo
  <2> QED BY <2>1, UnsignedWord
<1> HIDE DEF u, v
<1>2. u \div 2^Width = 0 /\ v \div 2^Width = 0
  <2> DEFINE e == 2^Width
  <2>1. e \in Nat \ {0} /\ u \in 0..(e - 1) /\ v \in 0..(e - 1)
    BY <1>1
  <2> HIDE DEF e
  <2>2. u = e * 0 + u /\ v = e * 0 + v
    BY <2>1
  <2>3. u \div e = 0 /\ v \div e = 0
    BY <2>1, <2>2, DivisionUnique
  <2> QED BY <2>3 DEF e
<1>3. ASSUME NEW k \in 0..(Width - 1), u \div 2^(k + 1) = v \div 2^(k + 1)
      PROVE  u \div 2^k = v \div 2^k
  <2>1. (u \div 2^k) % 2 = 1 <=> (v \div 2^k) % 2 = 1
    BY DEF BitsOf, u, v
  <2>2. /\ u \div 2^k \in Nat /\ v \div 2^k \in Nat
        /\ u \div 2^k = 2 * (u \div 2^(k + 1)) + ((u \div 2^k) % 2)
        /\ v \div 2^k = 2 * (v \div 2^(k + 1)) + ((v \div 2^k) % 2)
    <3>1. k \in Nat
      BY <1>0
    <3> QED BY <1>1, <3>1, NextBit
  <2>3. (u \div 2^k) % 2 \in 0..1 /\ (v \div 2^k) % 2 \in 0..1
    <3>1. u \div 2^k \in Int /\ v \div 2^k \in Int /\ 2 \in Nat \ {0}
      BY <2>2
    <3>2. \A q \in Int : q % 2 \in 0..1
      BY Division
    <3> QED BY <3>1, <3>2
  <2>4. (u \div 2^k) % 2 = (v \div 2^k) % 2
    BY <2>1, <2>3
  <2> QED BY <1>3, <2>2, <2>4
<1>4. Differ = {}
  <2> SUFFICES ASSUME Differ # {} PROVE FALSE
    OBVIOUS
  <2>1. Differ \in SUBSET (0..Width)
    OBVIOUS
  <2>2. PICK k \in Differ : \A j \in Differ : j <= k
    <3> HIDE DEF Differ
    <3> QED BY <1>0, <2>1, GreatestNatural
  <2>3. k \in 0..Width /\ u \div 2^k # v \div 2^k
    OBVIOUS
  <2>4. k # Width
    BY <1>2, <2>3
  <2>5. k \in 0..(Width - 1) /\ k + 1 \in 0..Width
    BY <1>0, <2>3, <2>4
  <2>6. k + 1 \notin Differ
    <3> HIDE DEF Differ
    <3> QED BY <2>2, <2>5
  <2>7. u \div 2^(k + 1) = v \div 2^(k + 1)
    BY <2>5, <2>6
  <2> QED BY <1>3, <2>3, <2>5, <2>7
<1>5. u \div 2^0 = v \div 2^0
  <2>1. 0 \in 0..Width /\ 0 \notin Differ
    <3> HIDE DEF Differ
    <3> QED BY <1>0, <1>4
  <2> QED BY <2>1
<1>6. u = v
  <2>1. u \div 1 = u /\ v \div 1 = v
    BY <1>1
  <2>2. 2^0 = 1
    OBVIOUS
  <2> QED BY <1>5, <2>1, <2>2
<1>7. x \in -Half..Half - 1 /\ y \in -Half..Half - 1 /\ 2^Width = 2 * Half /\ Half \in Nat
  BY WordRange
<1> QED BY <1>6, <1>7, UnsignedWord DEF u, v

\* Every set of bits is that of a word: words and sets of bits are equally many.
LEMMA FromBitsIsWord ==
    ASSUME NEW bits \in SUBSET (0..(Width - 1))
    PROVE  FromBits(bits) \in Words /\ BitsOf(FromBits(bits)) = bits
<1> DEFINE B == SUBSET (0..(Width - 1))
           f == [w \in Words |-> BitsOf(w)]
<1>0. Width \in Nat \ {0, 1} /\ Half \in Nat /\ Half >= 2
  BY WidthAssumption, WordRange
<1>1. IsFiniteSet(B) /\ Cardinality(B) = 2^Width
  <2>1. IsFiniteSet(0..(Width - 1)) /\ Cardinality(0..(Width - 1)) = Width
    BY <1>0, FS_Interval
  <2> QED BY <2>1, FS_SUBSET
<1>2. IsFiniteSet(Words) /\ Cardinality(Words) = 2^Width
  <2>1. -Half \in Int /\ Half - 1 \in Int /\ ~ (-Half > Half - 1)
          /\ (Half - 1) - (-Half) + 1 = 2 * Half
    BY <1>0
  <2>2. IsFiniteSet(-Half .. Half - 1) /\ Cardinality(-Half .. Half - 1) = 2 * Half
    BY <2>1, FS_Interval
  <2> QED BY <2>2, WordRange
<1>3. f \in Injection(Words, B)
  <2>1. f \in [Words -> B]
    BY DEF BitsOf
  <2>2. \A x, y \in Words : f[x] = f[y] => x = y
    BY BitsDetermineWord
  <2> HIDE DEF f, B
  <2> QED BY <2>1, <2>2 DEF Injection, IsInjective
<1>4. f \in Surjection(Words, B)
  <2> HIDE DEF f, B
  <2> QED BY <1>1, <1>2, <1>3, FS_Injection
<1>5. \E w \in Words : BitsOf(w) = bits
  <2>1. \E w \in Words : f[w] = bits
    <3> HIDE DEF f
    <3> QED BY <1>4 DEF Surjection
  <2> QED BY <2>1
<1> QED BY <1>5 DEF FromBits

\* A quotient rounds toward zero and its remainder is smaller than the divisor.
LEMMA TruncatedDivision ==
    ASSUME NEW a \in Int, NEW b \in Int, b # 0
    PROVE  /\ Quotient(a, b) \in Int /\ Remainder(a, b) \in Int
           /\ Magnitude(Remainder(a, b)) < Magnitude(b)
<1> DEFINE m == Magnitude(a)
           d == Magnitude(b)
           k == m \div d
           r == m % d
<1>1. m \in Nat /\ d \in Nat \ {0} /\ (m = a \/ m = -a) /\ (d = b \/ d = -b)
        /\ (a < 0 => m = -a) /\ (a >= 0 => m = a) /\ (b < 0 => d = -b) /\ (b >= 0 => d = b)
  BY DEF Magnitude
<1>2. k \in Int /\ r \in 0..(d - 1) /\ m = d * k + r
  <2> HIDE DEF m, d
  <2> QED BY <1>1, Division
<1>3. Quotient(a, b) = IF (a < 0) = (b < 0) THEN k ELSE -k
  BY DEF Quotient
<1> HIDE DEF m, d, k, r
<1>4. (-d) * k = -(d * k) /\ d * (-k) = -(d * k) /\ (-d) * (-k) = d * k /\ d * k \in Int
  BY <1>1, <1>2
<1>5. b * Quotient(a, b) = (IF a < 0 THEN -(d * k) ELSE d * k)
  <2>1. CASE a < 0 /\ b < 0
    BY <1>1, <1>3, <1>4, <2>1
  <2>2. CASE a < 0 /\ ~ (b < 0)
    BY <1>1, <1>3, <1>4, <2>2
  <2>3. CASE ~ (a < 0) /\ b < 0
    BY <1>1, <1>3, <1>4, <2>3
  <2>4. CASE ~ (a < 0) /\ ~ (b < 0)
    BY <1>1, <1>3, <1>4, <2>4
  <2> QED BY <2>1, <2>2, <2>3, <2>4
<1>6. Remainder(a, b) = (IF a < 0 THEN -r ELSE r)
  <2>1. Remainder(a, b) = a - b * Quotient(a, b)
    BY DEF Remainder
  <2> QED BY <1>1, <1>2, <1>4, <1>5, <2>1
<1>7. Quotient(a, b) \in Int
  BY <1>2, <1>3
<1> QED BY <1>1, <1>2, <1>6, <1>7 DEF Magnitude, d

\* The remainder of words is a word.
LEMMA RemainderIsWord ==
    ASSUME NEW a \in Words, NEW b \in Words, b # 0
    PROVE  Quotient(a, b) \in Int /\ Remainder(a, b) \in Words
<1>1. /\ a \in Int /\ b \in Int /\ -Half <= b /\ b <= Half - 1 /\ Half \in Nat
      /\ Words = -Half .. Half - 1
  BY WordRange
<1>2. /\ Quotient(a, b) \in Int /\ Remainder(a, b) \in Int
      /\ Magnitude(Remainder(a, b)) < Magnitude(b)
  BY <1>1, TruncatedDivision
<1> QED BY <1>1, <1>2 DEF Magnitude

\* Shifting right keeps a number in the range of its magnitude.
LEMMA ShiftedRight ==
    ASSUME NEW a \in Int, NEW d \in Nat \ {0}
    PROVE  /\ a \div d \in Int
           /\ a >= 0 => 0 <= a \div d /\ a \div d <= a
           /\ a < 0 => a <= a \div d /\ a \div d < 0
<1> DEFINE q == a \div d
           r == a % d
<1>1. q \in Int /\ r \in 0..(d - 1) /\ a = d * q + r
  BY Division
<1> HIDE DEF q, r
<1>2. CASE q >= 0
  <2>1. d * q >= q
    BY <1>1, <1>2
  <2> QED BY <1>1, <1>2, <2>1 DEF q
<1>3. CASE q < 0
  <2>1. d * (q + 1) <= q + 1 /\ d * (q + 1) = d * q + d
    BY <1>1, <1>3
  <2>2. d * q \in Int
    BY <1>1
  <2> QED BY <1>1, <1>3, <2>1, <2>2 DEF q
<1> QED BY <1>1, <1>2, <1>3

\* The shifts of words are words.
LEMMA ShiftsAreWords ==
    ASSUME NEW a \in Words, NEW b \in Words
    PROVE  ShiftLeft(a, b) \in Words /\ ShiftRight(a, b) \in Words
<1>1. a \in Int /\ -Half <= a /\ a <= Half - 1 /\ Half \in Nat /\ Half >= 2
        /\ Words = -Half .. Half - 1
  BY WordRange
<1> DEFINE d == 2^Unsigned(b)
<1>2. d \in Nat \ {0}
  <2>1. 2^Width \in Nat
    BY WordRange
  <2>2. Unsigned(b) \in Nat
    BY <2>1, UnsignedWord
  <2> QED BY <2>2, PowersOfTwo
<1>3. ShiftLeft(a, b) = 0 \/ ShiftLeft(a, b) = Wrap(a * d)
  BY DEF ShiftLeft
<1>4. ShiftRight(a, b) \in {0, -1} \/ ShiftRight(a, b) = a \div d
  BY DEF ShiftRight
<1> HIDE DEF d
<1>5. Wrap(a * d) \in Words
  <2>1. a * d \in Int
    BY <1>1, <1>2
  <2> QED BY <2>1, WrapsToWord
<1>6. a \div d \in Words
  <2>1. /\ a \div d \in Int
        /\ a >= 0 => 0 <= a \div d /\ a \div d <= a
        /\ a < 0 => a <= a \div d /\ a \div d < 0
    BY <1>1, <1>2, ShiftedRight
  <2> QED BY <1>1, <2>1
<1>7. 0 \in Words /\ -1 \in Words
  BY <1>1
<1> QED BY <1>3, <1>4, <1>5, <1>6, <1>7

\* Every operator takes words to a word, a division by zero excepted.
LEMMA UnaryIsWord ==
    ASSUME NEW op \in UnaryOpcodes, NEW a \in Words
    PROVE  ApplyUnary(op, a) \in Words
<1>1. a \in Int /\ Half \in Nat /\ Half >= 2 /\ Words = -Half .. Half - 1
  BY WordRange
<1>2. CASE op = "neg"
  <2>1. Wrap(-a) \in Words
    BY <1>1, WrapsToWord
  <2> QED BY <1>2, <2>1 DEF ApplyUnary
<1>3. CASE op = "not"
  <2>1. FromBits((0..(Width - 1)) \ BitsOf(a)) \in Words
    BY FromBitsIsWord
  <2> QED BY <1>3, <2>1 DEF ApplyUnary
<1>4. CASE op = "lnot"
  BY <1>1, <1>4 DEF ApplyUnary, BoolI32
<1> QED BY <1>2, <1>3, <1>4 DEF UnaryOpcodes

LEMMA BinaryIsWord ==
    ASSUME NEW op \in BinaryOpcodes, NEW a \in Words, NEW b \in Words,
           op \in {"div", "mod"} => b # 0
    PROVE  ApplyBinary(op, a, b) \in Words
<1>1. a \in Int /\ b \in Int /\ Half \in Nat /\ Half >= 2 /\ Words = -Half .. Half - 1
  BY WordRange
<1>2. CASE op \in {"add", "sub", "mul"}
  <2>1. a + b \in Int /\ a - b \in Int /\ a * b \in Int
    BY <1>1
  <2>2. Wrap(a + b) \in Words /\ Wrap(a - b) \in Words /\ Wrap(a * b) \in Words
    BY <2>1, WrapsToWord
  <2> QED BY <1>2, <2>2 DEF ApplyBinary
<1>3. CASE op = "div"
  <2>1. Quotient(a, b) \in Int
    BY <1>3, RemainderIsWord
  <2>2. Wrap(Quotient(a, b)) \in Words
    BY <2>1, WrapsToWord
  <2> QED BY <1>3, <2>2 DEF ApplyBinary
<1>4. CASE op = "mod"
  <2>1. Remainder(a, b) \in Words
    BY <1>4, RemainderIsWord
  <2> QED BY <1>4, <2>1 DEF ApplyBinary
<1>5. CASE op \in {"and", "or", "xor"}
  <2>1. \A x \in Words : BitsOf(x) \in SUBSET (0..(Width - 1))
    BY DEF BitsOf
  <2>2. /\ FromBits(BitsOf(a) \cap BitsOf(b)) \in Words
        /\ FromBits(BitsOf(a) \cup BitsOf(b)) \in Words
        /\ FromBits((BitsOf(a) \cup BitsOf(b)) \ (BitsOf(a) \cap BitsOf(b))) \in Words
    BY <2>1, FromBitsIsWord
  <2>3. CASE op = "and"
    BY <2>2, <2>3 DEF ApplyBinary
  <2>4. CASE op = "or"
    BY <2>2, <2>4 DEF ApplyBinary
  <2>5. CASE op = "xor"
    BY <2>2, <2>5 DEF ApplyBinary
  <2> QED BY <1>5, <2>3, <2>4, <2>5
<1>6. CASE op = "shl"
  BY <1>6, ShiftsAreWords DEF ApplyBinary
<1>7. CASE op = "shr"
  BY <1>7, ShiftsAreWords DEF ApplyBinary
<1>8. CASE op \in CompareOpcodes
  <2>1. \A p \in BOOLEAN : BoolI32(p) \in Words
    BY <1>1 DEF BoolI32
  <2>2. CASE op \in {"eq", "ne"}
    <3>1. (a = b) \in BOOLEAN /\ (a # b) \in BOOLEAN
      OBVIOUS
    <3>2. BoolI32(a = b) \in Words /\ BoolI32(a # b) \in Words
      BY <2>1, <3>1
    <3> QED BY <2>2, <3>2 DEF ApplyBinary
  <2>3. CASE op \in {"lt", "le", "gt", "ge"}
    <3>1. (a < b) \in BOOLEAN /\ (a <= b) \in BOOLEAN /\ (a > b) \in BOOLEAN
            /\ (a >= b) \in BOOLEAN
      OBVIOUS
    <3>2. /\ BoolI32(a < b) \in Words /\ BoolI32(a <= b) \in Words
          /\ BoolI32(a > b) \in Words /\ BoolI32(a >= b) \in Words
      BY <2>1, <3>1
    <3> QED BY <2>3, <3>2 DEF ApplyBinary
  <2> QED BY <1>8, <2>2, <2>3 DEF CompareOpcodes
<1> QED
  BY <1>2, <1>3, <1>4, <1>5, <1>6, <1>7, <1>8 DEF BinaryOpcodes, ArithOpcodes

(***************************************************************************)
(* Types.  Every value of a call is a word or a pointer, and every cell    *)
(* number and call number is natural.                                      *)
(***************************************************************************)

FrameTyped(f) ==
    /\ f.pc \in Nat /\ f.nextAddr \in Nat /\ f.id \in Nat
    /\ \A text \in DOMAIN f.values : f.values[text] \in Values
    /\ \A a \in DOMAIN f.memory : a \in Nat /\ f.memory[a] \in Values

FramesTyped == \A i \in DOMAIN frames : FrameTyped(frames[i])

RestTyped ==
    /\ main \in Mains /\ args \in ArgumentLists
    /\ steps \in Nat /\ calls \in Nat
    /\ result \in Values \cup {NoValue}
    /\ fault \in Faults

\* Numbers that are words and pointers to cells are values.
LEMMA MadeValues ==
    /\ \A n \in Words : Number(n) \in Values /\ Number(n).kind = "i32"
    /\ \A n, c \in Nat : Pointer(n, c) \in Values
    /\ \A v \in Values : /\ v.kind \in {"i32", "ptr"}
                         /\ v.kind = "i32" => v.n \in Words
                         /\ v.kind = "ptr" => v.n \in Nat
BY DEF Number, Pointer, Values

\* A list of two faults has the first that is one.
LEMMA FirstOfTwo ==
    ASSUME NEW a \in Faults, NEW b \in Faults
    PROVE  /\ FirstFault(<<a, b>>) \in Faults
           /\ FirstFault(<<a, b>>) = "none" => a = "none" /\ b = "none"
<1> DEFINE s == <<a, b>>
           real == {k \in DOMAIN s : s[k] # "none"}
<1>1. DOMAIN s = {1, 2} /\ s[1] = a /\ s[2] = b
  OBVIOUS
<1>2. FirstFault(s) = IF real = {} THEN "none" ELSE s[Min(real)]
  BY DEF FirstFault
<1>3. real # {} => Min(real) \in real
  <2> SUFFICES ASSUME real # {} PROVE Min(real) \in real
    OBVIOUS
  <2>1. real \in SUBSET Nat
    BY <1>1
  <2>2. \E x \in real : \A y \in real : x <= y
    <3> HIDE DEF real
    <3> QED BY <2>1, LeastNatural
  <2> HIDE DEF real
  <2> QED BY <2>2 DEF Min
<1>4. "none" \in Faults
  BY DEF Faults
<1> HIDE DEF s
<1>5. CASE real = {}
  <2>1. a = "none" /\ b = "none"
    BY <1>1, <1>5
  <2> HIDE DEF real
  <2> QED BY <1>2, <1>4, <1>5, <2>1 DEF s
<1>6. CASE real # {}
  <2>1. s[Min(real)] # "none" /\ Min(real) \in {1, 2}
    BY <1>1, <1>3, <1>6
  <2> HIDE DEF real
  <2> QED BY <1>1, <1>2, <1>6, <2>1 DEF s
<1> QED BY <1>5, <1>6

\* What an operand resolves to is a value, of the kind asked for if there is no
\* fault.
LEMMA Resolved ==
    ASSUME FrameTyped(frame), NEW o
    PROVE  /\ Resolves(o) => ValueOf(o) \in Values
           /\ ResolveFault(o) \in Faults /\ (ResolveFault(o) = "none" => Resolves(o))
           /\ \A kind \in {"i32", "ptr"} :
                 /\ KindFault(o, kind) \in Faults
                 /\ KindFault(o, kind) = "none" => Resolves(o) /\ ValueOf(o).kind = kind
<1>1. Resolves(o) => ValueOf(o) \in Values
  BY MadeValues DEF Resolves, ValueOf, FrameTyped
<1>2. ResolveFault(o) \in Faults /\ (ResolveFault(o) = "none" => Resolves(o))
  BY DEF ResolveFault, Faults
<1>3. ASSUME NEW kind \in {"i32", "ptr"}
      PROVE  /\ KindFault(o, kind) \in Faults
             /\ KindFault(o, kind) = "none" => Resolves(o) /\ ValueOf(o).kind = kind
  BY DEF KindFault, Faults
<1> QED BY <1>1, <1>2, <1>3

\* Adding a value keeps values.
LEMMA PutTyped ==
    ASSUME NEW f, NEW x, NEW y \in Values, \A z \in DOMAIN f : f[z] \in Values
    PROVE  DOMAIN Put(f, x, y) = DOMAIN f \cup {x}
             /\ \A z \in DOMAIN Put(f, x, y) : Put(f, x, y)[z] \in Values
BY DEF Put

\* A stack with some frames of this one and a typed frame on top is typed.
LEMMA StackTyped ==
    ASSUME Inv, FramesTyped, NEW n \in 0..Len(frames), NEW f, FrameTyped(f),
           frames' = Append(SubSeq(frames, 1, n), f)
    PROVE  FramesTyped'
<1> DEFINE S == {frames[i] : i \in DOMAIN frames}
           T == {g \in S \cup {f} : FrameTyped(g)}
<1>1. frames \in Seq(S) /\ Len(frames) \in Nat /\ DOMAIN frames = 1..Len(frames)
  BY DEF Inv, StackInv
<1>2. S \subseteq T /\ f \in T
  BY DEF FramesTyped
<1>3. \A g \in T : FrameTyped(g)
  OBVIOUS
<1> HIDE DEF S, T
<1>4. frames' \in Seq(T)
  <2>1. SubSeq(frames, 1, n) \in Seq(S)
    BY <1>1
  <2>2. SubSeq(frames, 1, n) \in Seq(T)
    BY <1>2, <2>1
  <2> QED BY <1>2, <2>2
<1>5. ASSUME NEW i \in DOMAIN frames' PROVE FrameTyped(frames'[i])
  <2>1. frames'[i] \in T
    BY <1>4
  <2> QED BY <1>3, <2>1
<1> QED BY <1>5 DEF FramesTyped, FrameTyped

\* A frame made with typed fields is typed.
LEMMA FieldsTyped ==
    ASSUME NEW f, NEW fn, NEW pc \in Nat, NEW values, NEW memory, NEW addr \in Nat, NEW id \in Nat,
           f \in FrameWith(fn, pc, values, memory, addr, id),
           \A text \in DOMAIN values : values[text] \in Values,
           \A a \in DOMAIN memory : a \in Nat /\ memory[a] \in Values
    PROVE  FrameTyped(f)
<1>1. f.pc = pc /\ f.values = values /\ f.memory = memory /\ f.nextAddr = addr /\ f.id = id
  BY FrameFields
<1> QED BY <1>1 DEF FrameTyped

\* The frame that runs.
LEMMA RunningTyped ==
    ASSUME Inv, FramesTyped, Running
    PROVE  /\ FrameTyped(frame) /\ IsFrame(frame)
           /\ frame \in FrameWith(frame.fn, frame.pc, frame.values, frame.memory,
                                  frame.nextAddr, frame.id)
           /\ Len(frames) - 1 \in 0..Len(frames) /\ Len(frames) \in Nat \ {0}
           /\ body # <<>> /\ frame.pc \in DOMAIN body
<1>1. status = "running"
  BY DEF Running
<1>2. /\ Len(frames) \in Nat \ {0} /\ FrameInside(module, frame)
      /\ body # <<>> /\ frame.pc \in DOMAIN body
  BY <1>1, RunningFrame
<1>3. Len(frames) \in DOMAIN frames
  BY <1>2 DEF Inv, StackInv
<1>4. FrameTyped(frame)
  BY <1>3 DEF FramesTyped, frame
<1>5. IsFrame(frame)
  BY <1>2 DEF FrameInside
<1> QED BY <1>2, <1>4, <1>5 DEF IsFrame

\* The innermost call with its fields changed, to typed ones.
LEMMA TopTyped ==
    ASSUME Inv, FramesTyped, Running,
           NEW pc \in Nat, NEW values, NEW memory, NEW addr \in Nat, NEW g,
           g \in FrameWith(frame.fn, pc, values, memory, addr, frame.id),
           \A text \in DOMAIN values : values[text] \in Values,
           \A a \in DOMAIN memory : a \in Nat /\ memory[a] \in Values,
           frames' = Append(Callers, g)
    PROVE  FramesTyped'
<1>1. FrameTyped(frame) /\ Len(frames) - 1 \in 0..Len(frames)
  BY RunningTyped
<1>2. frame.id \in Nat
  BY <1>1 DEF FrameTyped
<1>3. FrameTyped(g)
  BY <1>2, FieldsTyped
<1> QED BY <1>1, <1>3, StackTyped DEF Callers

\* The two ways an instruction goes on.
LEMMA StepToTyped ==
    ASSUME Inv, FramesTyped, Running, NEW pc \in Nat, StepTo(pc)
    PROVE  FramesTyped'
<1> DEFINE g == [frame EXCEPT !.pc = pc]
<1>1. FrameTyped(frame) /\ IsFrame(frame)
  BY RunningTyped
<1>2. g \in FrameWith(frame.fn, pc, frame.values, frame.memory, frame.nextAddr, frame.id)
  BY <1>1 DEF IsFrame, FrameWith
<1>3. frames' = Append(Callers, g)
  BY DEF StepTo
<1> HIDE DEF g
<1>4. /\ frame.nextAddr \in Nat
      /\ \A text \in DOMAIN frame.values : frame.values[text] \in Values
      /\ \A a \in DOMAIN frame.memory : a \in Nat /\ frame.memory[a] \in Values
  BY <1>1 DEF FrameTyped
<1> QED BY <1>2, <1>3, <1>4, TopTyped

LEMMA YieldTyped ==
    ASSUME Inv, FramesTyped, Running, NEW v \in Values, Yield(v)
    PROVE  FramesTyped'
<1> DEFINE values == Put(frame.values, inst.dst.text, v)
           g == [frame EXCEPT !.pc = @ + 1, !.values = Put(@, inst.dst.text, v)]
<1>1. FrameTyped(frame) /\ IsFrame(frame)
  BY RunningTyped
<1>2. g \in FrameWith(frame.fn, frame.pc + 1, values, frame.memory, frame.nextAddr, frame.id)
  BY <1>1 DEF IsFrame, FrameWith
<1>3. frames' = Append(Callers, g)
  BY DEF Yield
<1>4. /\ frame.pc + 1 \in Nat /\ frame.nextAddr \in Nat
      /\ \A text \in DOMAIN frame.values : frame.values[text] \in Values
      /\ \A a \in DOMAIN frame.memory : a \in Nat /\ frame.memory[a] \in Values
  BY <1>1 DEF FrameTyped
<1>5. \A text \in DOMAIN values : values[text] \in Values
  BY <1>4, PutTyped
<1> HIDE DEF g, values
<1> QED BY <1>2, <1>3, <1>4, <1>5, TopTyped

\* The code that runs: its positions are numbers, and jumps stay inside.
LEMMA RunningCode ==
    ASSUME Inv, FramesTyped, Running
    PROVE  /\ \A pc \in NextPCs(body, frame.pc) : pc \in Nat
           /\ inst.kind = "op" => /\ Len(inst.operands) \in Nat
                                  /\ DOMAIN inst.operands = 1..Len(inst.operands)
<1>1. status = "running"
  BY DEF Running
<1>2. /\ FrameInside(module, frame) /\ body # <<>> /\ frame.pc \in DOMAIN body
  BY <1>1, RunningFrame
<1>3. IsCode(body) /\ frame.fn \in DOMAIN module /\ module \in Modules
  BY <1>2, ModulesAssumption DEF Inv, StatusInv, FrameInside, body
<1>4. \A pc \in NextPCs(body, frame.pc) : pc \in DOMAIN body
  BY <1>1, <1>2, SuccessorsInside DEF CodeIn, body
<1>5. ASSUME inst.kind = "op"
      PROVE  Len(inst.operands) \in Nat /\ DOMAIN inst.operands = 1..Len(inst.operands)
  <2> DEFINE o == inst.operands
             T == {o[k] : k \in DOMAIN o}
  <2>1. o \in Seq(T)
    BY <1>2, <1>3, <1>5, ListsAssumption DEF body, inst
  <2> HIDE DEF o, T
  <2>2. Len(o) \in Nat /\ DOMAIN o = 1..Len(o)
    BY <2>1
  <2> QED BY <2>2 DEF o
<1> QED BY <1>3, <1>4, <1>5 DEF IsCode

\* The error of each kind of operation.
LEMMA OpFaultCases ==
    /\ inst.opcode = "copy" =>
          OpFault = FirstFault(<<ResolveFault(operand(1)), NoDestinationFault>>)
    /\ inst.opcode = "alloca" => OpFault = NoDestinationFault
    /\ inst.opcode \in {"load", "loadInd"} =>
          OpFault = FirstFault(<<LoadFault(operand(1)), NoDestinationFault>>)
    /\ inst.opcode \in {"store", "storeInd"} =>
          OpFault = FirstFault(<<KindFault(operand(1), "ptr"), ResolveFault(operand(2))>>)
    /\ inst.opcode \in UnaryOpcodes =>
          OpFault = FirstFault(<<KindFault(operand(1), "i32"), NoDestinationFault>>)
    /\ inst.opcode = "const" =>
          OpFault = FirstFault(<<IF operand(1).text[2] \in Words THEN "none"
                                 ELSE "invalid constant", NoDestinationFault>>)
    /\ inst.opcode = "const8" =>
          OpFault = FirstFault(<<IF operand(1).text[2] \in Bytes THEN "none"
                                 ELSE "invalid constant", NoDestinationFault>>)
<1> USE DEF UnaryOpcodes, BinaryOpcodes, ArithOpcodes, CompareOpcodes
<1>1. inst.opcode = "copy" =>
          OpFault = FirstFault(<<ResolveFault(operand(1)), NoDestinationFault>>)
  BY DEF OpFault
<1>2. inst.opcode = "alloca" => OpFault = NoDestinationFault
  BY DEF OpFault
<1>3. inst.opcode \in {"load", "loadInd"} =>
          OpFault = FirstFault(<<LoadFault(operand(1)), NoDestinationFault>>)
  BY DEF OpFault
<1>4. inst.opcode \in {"store", "storeInd"} =>
          OpFault = FirstFault(<<KindFault(operand(1), "ptr"), ResolveFault(operand(2))>>)
  BY DEF OpFault
<1>5. inst.opcode \in UnaryOpcodes =>
          OpFault = FirstFault(<<KindFault(operand(1), "i32"), NoDestinationFault>>)
  BY DEF OpFault
<1>6. inst.opcode = "const" =>
          OpFault = FirstFault(<<IF operand(1).text[2] \in Words THEN "none"
                                 ELSE "invalid constant", NoDestinationFault>>)
  BY DEF OpFault
<1>7. inst.opcode = "const8" =>
          OpFault = FirstFault(<<IF operand(1).text[2] \in Bytes THEN "none"
                                 ELSE "invalid constant", NoDestinationFault>>)
  BY DEF OpFault
<1> QED BY <1>1, <1>2, <1>3, <1>4, <1>5, <1>6, <1>7

\* Every fault of an operation is one of those listed.
LEMMA OpFaultTyped ==
    ASSUME FrameTyped(frame), inst.opcode \in Opcodes \ {"call"}
    PROVE  OpFault \in Faults
<1>1. "none" \in Faults /\ "invalid constant" \in Faults
        /\ "value without destination" \in Faults /\ "uninitialized load" \in Faults
        /\ "division by zero" \in Faults
  BY DEF Faults
<1>2. NoDestinationFault \in Faults /\ DivisionFault \in Faults
  BY <1>1 DEF NoDestinationFault, DivisionFault
<1>3. \A o : /\ ResolveFault(o) \in Faults /\ KindFault(o, "i32") \in Faults
             /\ KindFault(o, "ptr") \in Faults
  BY Resolved
<1>4. \A o : LoadFault(o) \in Faults
  BY <1>1, <1>3 DEF LoadFault
<1>5. \A a, b \in Faults : FirstFault(<<a, b>>) \in Faults
  BY FirstOfTwo
<1>6. CASE inst.opcode = "const"
  <2>1. (IF operand(1).text[2] \in Words THEN "none" ELSE "invalid constant") \in Faults
    BY <1>1
  <2> QED BY <1>2, <1>5, <1>6, <2>1, OpFaultCases
<1>7. CASE inst.opcode = "const8"
  <2>1. (IF operand(1).text[2] \in Bytes THEN "none" ELSE "invalid constant") \in Faults
    BY <1>1
  <2> QED BY <1>2, <1>5, <1>7, <2>1, OpFaultCases
<1>8. CASE inst.opcode = "copy"
  BY <1>2, <1>3, <1>5, <1>8, OpFaultCases
<1>9. CASE inst.opcode = "alloca"
  BY <1>2, <1>9, OpFaultCases
<1>10. CASE inst.opcode \in {"load", "loadInd"}
  <2>1. OpFault = FirstFault(<<LoadFault(operand(1)), NoDestinationFault>>)
    BY <1>10, OpFaultCases
  <2> QED BY <1>2, <1>4, <1>5, <2>1
<1>11. CASE inst.opcode \in {"store", "storeInd"}
  <2>1. OpFault = FirstFault(<<KindFault(operand(1), "ptr"), ResolveFault(operand(2))>>)
    BY <1>11, OpFaultCases
  <2> QED BY <1>3, <1>5, <2>1
<1>12. CASE inst.opcode \in UnaryOpcodes
  <2>1. OpFault = FirstFault(<<KindFault(operand(1), "i32"), NoDestinationFault>>)
    BY <1>12, OpFaultCases
  <2> QED BY <1>2, <1>3, <1>5, <2>1
<1>13. CASE inst.opcode \in BinaryOpcodes
  <2> DEFINE kinds == FirstFault(<<KindFault(operand(1), "i32"), KindFault(operand(2), "i32")>>)
  <2>1. OpFault = IF kinds # "none" THEN kinds
                  ELSE FirstFault(<<DivisionFault, NoDestinationFault>>)
    BY <1>13 DEF OpFault, UnaryOpcodes, BinaryOpcodes, ArithOpcodes, CompareOpcodes
  <2>2. kinds \in Faults
    BY <1>3, <1>5
  <2> QED BY <1>2, <1>5, <2>1, <2>2
<1> QED BY <1>6, <1>7, <1>8, <1>9, <1>10, <1>11, <1>12, <1>13 DEF Opcodes

\* So is every fault of a call.
LEMMA EnterFaultTyped ==
    ASSUME NEW f, NEW argv, NEW depth
    PROVE  EnterFault(f, argv, depth) \in Faults
BY DEF EnterFault, Faults

LEMMA CallFaultTyped == CallFault \in Faults
BY EnterFaultTyped DEF CallFault, Faults

\* The value of each operation that yields one.
LEMMA YieldedValues ==
    ASSUME FrameTyped(frame), OpFault = "none"
    PROVE  /\ inst.opcode \in {"const", "const8"} => Number(operand(1).text[2]) \in Values
           /\ inst.opcode = "copy" => ValueOf(operand(1)) \in Values
           /\ inst.opcode \in {"load", "loadInd"} =>
                 frame.memory[ValueOf(operand(1)).n] \in Values
           /\ inst.opcode \in UnaryOpcodes =>
                 Number(ApplyUnary(inst.opcode, ValueOf(operand(1)).n)) \in Values
           /\ inst.opcode \in BinaryOpcodes =>
                 Number(ApplyBinary(inst.opcode, ValueOf(operand(1)).n,
                                                 ValueOf(operand(2)).n)) \in Values
           /\ inst.opcode \in {"store", "storeInd"} =>
                 ValueOf(operand(1)).n \in Nat /\ ValueOf(operand(2)) \in Values
<1>1. "none" \in Faults /\ "invalid constant" \in Faults
        /\ "value without destination" \in Faults /\ "uninitialized load" \in Faults
        /\ "division by zero" \in Faults
  BY DEF Faults
<1>2. NoDestinationFault \in Faults /\ DivisionFault \in Faults
  BY <1>1 DEF NoDestinationFault, DivisionFault
<1>3. \A o : /\ Resolves(o) => ValueOf(o) \in Values
             /\ ResolveFault(o) \in Faults /\ (ResolveFault(o) = "none" => Resolves(o))
             /\ KindFault(o, "i32") \in Faults /\ KindFault(o, "ptr") \in Faults
             /\ KindFault(o, "i32") = "none" => ValueOf(o) \in Values /\ ValueOf(o).n \in Words
             /\ KindFault(o, "ptr") = "none" => ValueOf(o) \in Values /\ ValueOf(o).n \in Nat
  BY Resolved, MadeValues
<1>4. \A o : /\ LoadFault(o) \in Faults
             /\ LoadFault(o) = "none" => ValueOf(o).n \in DOMAIN frame.memory
  BY <1>1, <1>3 DEF LoadFault
<1>5. \A a, b \in Faults : FirstFault(<<a, b>>) = "none" => a = "none" /\ b = "none"
  BY FirstOfTwo
<1>6. ASSUME inst.opcode = "const" PROVE Number(operand(1).text[2]) \in Values
  <2> DEFINE p == IF operand(1).text[2] \in Words THEN "none" ELSE "invalid constant"
  <2>1. p \in Faults /\ OpFault = FirstFault(<<p, NoDestinationFault>>)
    BY <1>1, <1>6, OpFaultCases
  <2>2. p = "none"
    <3> HIDE DEF p
    <3> QED BY <1>2, <1>5, <2>1
  <2> QED BY <2>2, MadeValues
<1>7. ASSUME inst.opcode = "const8" PROVE Number(operand(1).text[2]) \in Values
  <2> DEFINE p == IF operand(1).text[2] \in Bytes THEN "none" ELSE "invalid constant"
  <2>1. p \in Faults /\ OpFault = FirstFault(<<p, NoDestinationFault>>)
    BY <1>1, <1>7, OpFaultCases
  <2>2. p = "none"
    <3> HIDE DEF p
    <3> QED BY <1>2, <1>5, <2>1
  <2> QED BY <2>2, MadeValues, WordRange
<1>8. ASSUME inst.opcode = "copy" PROVE ValueOf(operand(1)) \in Values
  <2>1. OpFault = FirstFault(<<ResolveFault(operand(1)), NoDestinationFault>>)
    BY <1>8, OpFaultCases
  <2> QED BY <1>2, <1>3, <1>5, <2>1
<1>9. ASSUME inst.opcode \in {"load", "loadInd"}
      PROVE  frame.memory[ValueOf(operand(1)).n] \in Values
  <2>1. OpFault = FirstFault(<<LoadFault(operand(1)), NoDestinationFault>>)
    BY <1>9, OpFaultCases
  <2>2. ValueOf(operand(1)).n \in DOMAIN frame.memory
    BY <1>2, <1>4, <1>5, <2>1
  <2> QED BY <2>2 DEF FrameTyped
<1>10. ASSUME inst.opcode \in UnaryOpcodes
       PROVE  Number(ApplyUnary(inst.opcode, ValueOf(operand(1)).n)) \in Values
  <2>1. OpFault = FirstFault(<<KindFault(operand(1), "i32"), NoDestinationFault>>)
    BY <1>10, OpFaultCases
  <2>2. ValueOf(operand(1)).n \in Words
    BY <1>2, <1>3, <1>5, <2>1
  <2> QED BY <1>10, <2>2, UnaryIsWord, MadeValues
<1>11. ASSUME inst.opcode \in BinaryOpcodes
       PROVE  Number(ApplyBinary(inst.opcode, ValueOf(operand(1)).n,
                                              ValueOf(operand(2)).n)) \in Values
  <2> DEFINE kinds == FirstFault(<<KindFault(operand(1), "i32"), KindFault(operand(2), "i32")>>)
  <2>1. OpFault = IF kinds # "none" THEN kinds
                  ELSE FirstFault(<<DivisionFault, NoDestinationFault>>)
    BY <1>11 DEF OpFault, UnaryOpcodes, BinaryOpcodes, ArithOpcodes, CompareOpcodes
  <2>2. kinds = "none" /\ FirstFault(<<DivisionFault, NoDestinationFault>>) = "none"
    BY <2>1
  <2>3. ValueOf(operand(1)).n \in Words /\ ValueOf(operand(2)).n \in Words
    BY <1>3, <1>5, <2>2
  <2>4. inst.opcode \in {"div", "mod"} => ValueOf(operand(2)).n # 0
    BY <1>2, <1>5, <2>2 DEF DivisionFault
  <2> QED BY <1>11, <2>3, <2>4, BinaryIsWord, MadeValues
<1>12. ASSUME inst.opcode \in {"store", "storeInd"}
       PROVE  ValueOf(operand(1)).n \in Nat /\ ValueOf(operand(2)) \in Values
  <2>1. OpFault = FirstFault(<<KindFault(operand(1), "ptr"), ResolveFault(operand(2))>>)
    BY <1>12, OpFaultCases
  <2> QED BY <1>3, <1>5, <2>1
<1> QED BY <1>6, <1>7, <1>8, <1>9, <1>10, <1>11, <1>12

\* A call that is entered has an argument for each parameter, all of them values.
LEMMA EnterTyped ==
    ASSUME Inv, FramesTyped, calls \in Nat, NEW f, NEW argv, NEW n \in Nat, NEW depth \in Nat,
           argv \in [1..n -> Values],
           EnterFault(f, argv, depth) = "none", Enter(f, argv)
    PROVE  FramesTyped' /\ calls' \in Nat
<1> DEFINE params == module[f].params
           last(text) == Max({k \in DOMAIN params : params[k] = text})
           values == [text \in {params[k] : k \in DOMAIN params} |-> argv[last(text)]]
           g == NewFrame(f, values, calls + 1)
<1>1. f \in DOMAIN module /\ depth < MaxCallDepth
  BY EnteredFunctions
<1>2. Len(argv) = n
  <2>1. argv \in Seq(Values)
    OBVIOUS
  <2> QED BY <2>1
<1>3. Len(argv) = Len(params)
  BY <1>1, LimitsAssumption DEF EnterFault
<1>4. Len(params) \in Nat /\ DOMAIN params = 1..Len(params)
  <2> DEFINE T == {params[k] : k \in DOMAIN params}
  <2>1. params \in Seq(T)
    BY <1>1, ListsAssumption DEF Inv, StatusInv
  <2> HIDE DEF T, params
  <2> QED BY <2>1
<1>5. \A text \in DOMAIN values : values[text] \in Values
  <2> SUFFICES ASSUME NEW text \in {params[k] : k \in DOMAIN params}
               PROVE  argv[last(text)] \in Values
    OBVIOUS
  <2> DEFINE K == {k \in DOMAIN params : params[k] = text}
  <2>1. K \in SUBSET (0..n) /\ K # {} /\ K \subseteq 1..n
    BY <1>2, <1>3, <1>4
  <2>2. \E x \in K : \A y \in K : x >= y
    <3> HIDE DEF K
    <3>1. \E x \in K : \A y \in K : y <= x
      BY <2>1, GreatestNatural
    <3> QED BY <2>1, <3>1
  <2>3. Max(K) \in K
    <3> HIDE DEF K
    <3> QED BY <2>2 DEF Max
  <2> QED BY <2>1, <2>3
<1>6. frames' = Append(frames, g) /\ calls' = calls + 1
  BY DEF Enter
<1> HIDE DEF values
<1>7. g \in FrameWith(f, 1, values, <<>>, 0, calls + 1)
  BY DEF NewFrame, FrameWith
<1> HIDE DEF g
<1>8. FrameTyped(g)
  <2>1. calls + 1 \in Nat /\ DOMAIN <<>> = {}
    OBVIOUS
  <2> QED BY <1>5, <1>7, <2>1, FieldsTyped
<1>9. frames = SubSeq(frames, 1, Len(frames)) /\ Len(frames) \in 0..Len(frames)
  <2> DEFINE S == {frames[i] : i \in DOMAIN frames}
  <2>1. frames \in Seq(S)
    BY DEF Inv, StackInv
  <2> HIDE DEF S
  <2> QED BY <2>1
<1>10. FramesTyped'
  BY <1>6, <1>8, <1>9, StackTyped
<1> QED BY <1>6, <1>10

\* The actions that move the innermost call on keep the types.
LEMMA MovingTyped ==
    ASSUME Inv, FramesTyped, RestTyped,
           \/ StepLabel \/ StepJmp \/ StepBr \/ StepConst \/ StepCopy \/ StepAlloca
           \/ StepLoad \/ StepStore \/ StepUnary \/ StepBinary
    PROVE  FramesTyped' /\ RestTyped'
<1>1. Running /\ steps' \in Nat
  BY DEF Step, IsOp, StepLabel, StepJmp, StepBr, StepConst, StepCopy, StepAlloca,
         StepLoad, StepStore, StepUnary, StepBinary, RestTyped
<1>2. /\ FrameTyped(frame) /\ IsFrame(frame) /\ frame.pc + 1 \in Nat
      /\ \A pc \in NextPCs(body, frame.pc) : pc \in Nat
  BY <1>1, RunningTyped, RunningCode DEF FrameTyped
<1>3. ASSUME UNCHANGED unchangedByStep PROVE RestTyped'
  BY <1>1, <1>3 DEF RestTyped, unchangedByStep
<1>4. ASSUME NEW pc \in Nat, StepTo(pc) PROVE FramesTyped' /\ RestTyped'
  BY <1>1, <1>3, <1>4, StepToTyped DEF StepTo
<1>5. ASSUME NEW v \in Values, Yield(v) PROVE FramesTyped' /\ RestTyped'
  BY <1>1, <1>3, <1>5, YieldTyped DEF Yield
<1>6. CASE StepLabel
  BY <1>2, <1>4, <1>6 DEF StepLabel
<1>7. CASE StepJmp
  <2>1. LabelIndex(body, inst.target) \in NextPCs(body, frame.pc)
    BY <1>7 DEF StepJmp, NextPCs, inst, Targets
  <2> QED BY <1>2, <1>4, <1>7, <2>1 DEF StepJmp
<1>8. CASE StepBr
  <2>1. /\ LabelIndex(body, inst.trueLabel) \in NextPCs(body, frame.pc)
        /\ LabelIndex(body, inst.falseLabel) \in NextPCs(body, frame.pc)
    BY <1>8 DEF StepBr, NextPCs, inst, Targets
  <2>2. \/ StepTo(LabelIndex(body, inst.trueLabel))
        \/ StepTo(LabelIndex(body, inst.falseLabel))
        \/ Fail(KindFault(inst.cond, "i32"))
    BY <1>8 DEF StepBr
  <2>3. ASSUME Fail(KindFault(inst.cond, "i32")) PROVE FramesTyped' /\ RestTyped'
    <3>1. KindFault(inst.cond, "i32") \in Faults
      BY <1>2, Resolved
    <3> QED BY <1>1, <2>3, <3>1 DEF Fail, FramesTyped, RestTyped
  <2> QED BY <1>2, <1>4, <2>1, <2>2, <2>3
<1>9. CASE StepConst \/ StepCopy \/ StepLoad \/ StepUnary \/ StepBinary
  <2>1. OpFault = "none"
    BY <1>9 DEF StepConst, StepCopy, StepLoad, StepUnary, StepBinary
  <2>2. \E v \in Values : Yield(v)
    <3>1. CASE StepConst
      <4>1. Number(operand(1).text[2]) \in Values /\ Yield(Number(operand(1).text[2]))
        BY <1>2, <2>1, <3>1, YieldedValues DEF StepConst, IsOp
      <4> QED BY <4>1
    <3>2. CASE StepCopy
      <4>1. ValueOf(operand(1)) \in Values /\ Yield(ValueOf(operand(1)))
        BY <1>2, <2>1, <3>2, YieldedValues DEF StepCopy, IsOp
      <4> QED BY <4>1
    <3>3. CASE StepLoad
      <4> DEFINE v == frame.memory[ValueOf(operand(1)).n]
      <4>1. v \in Values /\ Yield(v)
        BY <1>2, <2>1, <3>3, YieldedValues DEF StepLoad, IsOp
      <4> QED BY <4>1
    <3>4. CASE StepUnary
      <4> DEFINE v == Number(ApplyUnary(inst.opcode, ValueOf(operand(1)).n))
      <4>1. v \in Values /\ Yield(v)
        BY <1>2, <2>1, <3>4, YieldedValues DEF StepUnary, IsOp
      <4> QED BY <4>1
    <3>5. CASE StepBinary
      <4> DEFINE v == Number(ApplyBinary(inst.opcode, ValueOf(operand(1)).n,
                                                      ValueOf(operand(2)).n))
      <4>1. v \in Values /\ Yield(v)
        BY <1>2, <2>1, <3>5, YieldedValues DEF StepBinary, IsOp
      <4> QED BY <4>1
    <3> QED BY <1>9, <3>1, <3>2, <3>3, <3>4, <3>5
  <2> QED BY <1>5, <2>2
<1>10. CASE StepAlloca
  <2> DEFINE p == Pointer(frame.nextAddr, frame.id)
             values == Put(frame.values, inst.dst.text, p)
             memory == Without(frame.memory, frame.nextAddr)
             g == [frame EXCEPT !.pc = @ + 1, !.nextAddr = @ + 1,
                     !.memory = Without(@, frame.nextAddr),
                     !.values = Put(@, inst.dst.text, Pointer(frame.nextAddr, frame.id))]
  <2>1. g \in FrameWith(frame.fn, frame.pc + 1, values, memory, frame.nextAddr + 1, frame.id)
    BY <1>2 DEF IsFrame, FrameWith
  <2>2. frames' = Append(Callers, g) /\ UNCHANGED unchangedByStep
    BY <1>10 DEF StepAlloca
  <2>3. p \in Values /\ frame.nextAddr + 1 \in Nat
    BY <1>2, MadeValues DEF FrameTyped
  <2>4. \A text \in DOMAIN values : values[text] \in Values
    <3> HIDE DEF p
    <3> QED BY <1>2, <2>3, PutTyped DEF FrameTyped
  <2>5. \A a \in DOMAIN memory : a \in Nat /\ memory[a] \in Values
    <3>1. \A a \in DOMAIN frame.memory : a \in Nat /\ frame.memory[a] \in Values
      BY <1>2 DEF FrameTyped
    <3>2. DOMAIN memory \subseteq DOMAIN frame.memory
             /\ \A a \in DOMAIN memory : memory[a] = frame.memory[a]
      BY DEF Without
    <3> HIDE DEF memory
    <3> QED BY <3>1, <3>2
  <2> HIDE DEF g, values, memory
  <2>6. FramesTyped'
    BY <1>1, <1>2, <2>1, <2>2, <2>3, <2>4, <2>5, TopTyped
  <2> QED BY <1>3, <2>2, <2>6
<1>11. CASE StepStore
  <2> DEFINE a == ValueOf(operand(1)).n
             v == ValueOf(operand(2))
             memory == Put(frame.memory, a, v)
             g == [frame EXCEPT !.pc = @ + 1,
                     !.memory = Put(@, ValueOf(operand(1)).n, ValueOf(operand(2)))]
  <2>1. g \in FrameWith(frame.fn, frame.pc + 1, frame.values, memory, frame.nextAddr, frame.id)
    BY <1>2 DEF IsFrame, FrameWith
  <2>2. frames' = Append(Callers, g) /\ UNCHANGED unchangedByStep
    BY <1>11 DEF StepStore
  <2>3. a \in Nat /\ v \in Values
    BY <1>2, <1>11, YieldedValues DEF StepStore, IsOp
  <2>4. \A c \in DOMAIN memory : c \in Nat /\ memory[c] \in Values
    <3> HIDE DEF a, v
    <3>1. \A c \in DOMAIN frame.memory : c \in Nat /\ frame.memory[c] \in Values
      BY <1>2 DEF FrameTyped
    <3>2. DOMAIN memory = DOMAIN frame.memory \cup {a}
             /\ \A c \in DOMAIN memory : memory[c] \in Values
      BY <2>3, <3>1, PutTyped
    <3> HIDE DEF memory
    <3> QED BY <2>3, <3>1, <3>2
  <2>5. frame.nextAddr \in Nat /\ \A text \in DOMAIN frame.values : frame.values[text] \in Values
    BY <1>2 DEF FrameTyped
  <2> HIDE DEF g, memory
  <2>6. FramesTyped'
    BY <1>1, <1>2, <2>1, <2>2, <2>4, <2>5, TopTyped
  <2> QED BY <1>3, <2>2, <2>6
<1> QED BY <1>6, <1>7, <1>8, <1>9, <1>10, <1>11

\* A return hands its caller a value.
LEMMA ReturnTyped ==
    ASSUME Inv, FramesTyped, RestTyped, ReturnToCaller
    PROVE  FramesTyped' /\ RestTyped'
<1> DEFINE caller == frames[Len(frames) - 1]
           call   == module[caller.fn].code[caller.pc]
           values == IF call.dst = NoOperand THEN caller.values
                     ELSE Put(caller.values, call.dst.text, ReturnValue)
           g      == [caller EXCEPT !.pc = @ + 1, !.values = values]
<1>1. /\ Running /\ Len(frames) > 1 /\ UNCHANGED unchangedByStep /\ steps' = steps + 1
      /\ frames' = Append(SubSeq(frames, 1, Len(frames) - 2), g)
      /\ inst.value = NoOperand \/ Resolves(inst.value)
  BY DEF ReturnToCaller, Returns, Step
<1>2. FrameTyped(frame)
  BY <1>1, RunningTyped
<1>3. ReturnValue \in Values
  <2>1. 0 \in Words
    BY WordRange
  <2>2. Number(0) \in Values
    BY <2>1, MadeValues
  <2> QED BY <1>1, <1>2, <2>2, Resolved DEF ReturnValue
<1>4. IsFrame(caller) /\ FrameTyped(caller)
  <2>1. Len(frames) - 1 \in DOMAIN frames
    BY <1>1 DEF Inv, StackInv
  <2> QED BY <2>1 DEF Inv, StackInv, FrameInside, FramesTyped
<1> HIDE DEF caller
<1>5. \A text \in DOMAIN values : values[text] \in Values
  <2> HIDE DEF call
  <2>1. CASE call.dst = NoOperand
    BY <1>4, <2>1 DEF FrameTyped
  <2>2. CASE call.dst # NoOperand
    <3>1. \A text \in DOMAIN caller.values : caller.values[text] \in Values
      BY <1>4 DEF FrameTyped
    <3>2. values = Put(caller.values, call.dst.text, ReturnValue)
      BY <2>2
    <3> HIDE DEF values
    <3> QED BY <1>3, <3>1, <3>2, PutTyped
  <2> QED BY <2>1, <2>2
<1> HIDE DEF values, call
<1>6. g \in FrameWith(caller.fn, caller.pc + 1, values, caller.memory, caller.nextAddr, caller.id)
  BY <1>4 DEF IsFrame, FrameWith
<1>7. FrameTyped(g)
  <2>1. /\ caller.pc + 1 \in Nat /\ caller.nextAddr \in Nat /\ caller.id \in Nat
        /\ \A a \in DOMAIN caller.memory : a \in Nat /\ caller.memory[a] \in Values
    BY <1>4 DEF FrameTyped
  <2> HIDE DEF g
  <2> QED BY <1>5, <1>6, <2>1, FieldsTyped
<1>8. Len(frames) - 2 \in 0..Len(frames)
  BY <1>1 DEF Inv, StackInv
<1> HIDE DEF g
<1>9. FramesTyped'
  BY <1>1, <1>7, <1>8, StackTyped
<1> QED BY <1>1, <1>9 DEF RestTyped, unchangedByStep

\* The state has its types for every module, arguments and width of a word: no
\* operator leaves the words, no load yields a value that was not stored.
THEOREM EvaluatorTypes == Spec => []TypeOK
<1> DEFINE TypeInv == FramesTyped /\ RestTyped
<1>1. Init => TypeInv
  BY DEF Init, FramesTyped, RestTyped, Faults
<1>2. Inv /\ TypeInv /\ [Next]_vars => TypeInv'
  <2> SUFFICES ASSUME Inv, FramesTyped, RestTyped, [Next]_vars
               PROVE  FramesTyped' /\ RestTyped'
    OBVIOUS
  <2>0. calls \in Nat /\ steps \in Nat /\ Len(frames) \in Nat /\ args \in Seq(Words)
    BY ArgumentsAssumption DEF Inv, StackInv, RestTyped
  <2>1. ASSUME NEW f \in Faults, Fail(f), steps' \in Nat PROVE FramesTyped' /\ RestTyped'
    BY <2>1 DEF Fail, FramesTyped, RestTyped
  <2>f. ASSUME frames' = <<>>, UNCHANGED <<main, args, calls, result>>, steps' \in Nat,
               fault' \in Faults
        PROVE  FramesTyped' /\ RestTyped'
    BY <2>f DEF FramesTyped, RestTyped
  <2>2. CASE Start
    <3> DEFINE argv == StartArguments
    <3>1. argv \in [1..Len(args) -> Values] /\ Len(args) \in Nat
      BY <2>0, MadeValues DEF StartArguments
    <3>2. EnterFault(main, argv, 0) = "none" /\ Enter(main, argv)
            /\ UNCHANGED <<main, args, steps, result, fault>>
      BY <2>2 DEF Start, StartFault
    <3> HIDE DEF argv
    <3>3. FramesTyped' /\ calls' \in Nat
      BY <2>0, <3>1, <3>2, EnterTyped
    <3> QED BY <3>2, <3>3 DEF RestTyped
  <2>3. CASE StartFails
    <3>1. StartFault \in Faults
      BY EnterFaultTyped DEF StartFault, Faults
    <3> QED BY <2>0, <2>1, <2>3, <3>1 DEF StartFails
  <2>4. CASE StepLimitExceeded
    <3>1. /\ frames' = <<>> /\ UNCHANGED <<main, args, calls, result>> /\ fault' \in Faults
      BY <2>4 DEF StepLimitExceeded, Fail, Faults
    <3>2. steps' = steps + 1
      BY <2>4, Zenon DEF StepLimitExceeded
    <3> QED BY <2>0, <2>f, <3>1, <3>2
  <2>5. CASE EndedWithoutRet
    <3>1. /\ frames' = <<>> /\ UNCHANGED <<main, args, calls, result>> /\ steps' \in Nat
          /\ fault' \in Faults
      BY <2>0, <2>5 DEF EndedWithoutRet, Fail, Faults
    <3> QED BY <2>f, <3>1
  <2>6. CASE StepOpFails
    <3>1. Running /\ inst.opcode \in Opcodes \ {"call"} /\ Fail(OpFault) /\ steps' = steps + 1
      BY <2>6 DEF StepOpFails, IsOp, Step
    <3>2. OpFault \in Faults
      BY <3>1, RunningTyped, OpFaultTyped
    <3> QED BY <2>0, <2>1, <3>1, <3>2
  <2>7. CASE StepCallFails
    <3>1. Fail(CallFault) /\ steps' = steps + 1
      BY <2>7 DEF StepCallFails, IsOp, Step
    <3> QED BY <2>0, <2>1, <3>1, CallFaultTyped
  <2>8. CASE StepRetFails
    <3>1. /\ frames' = <<>> /\ UNCHANGED <<main, args, calls, result>> /\ fault' \in Faults
      BY <2>8 DEF StepRetFails, Fail, Faults
    <3>2. steps' = steps + 1
      BY <2>8, Zenon DEF StepRetFails, Step
    <3> QED BY <2>0, <2>f, <3>1, <3>2
  <2>9. CASE StepCall
    <3>1. Running /\ inst.kind = "op" /\ steps' = steps + 1 /\ CallFault = "none"
            /\ Enter(inst.callee, CallArguments)
            /\ UNCHANGED <<main, args, result, fault>>
      BY <2>9 DEF StepCall, IsOp, Step
    <3>2. FrameTyped(frame) /\ Len(inst.operands) \in Nat
            /\ DOMAIN inst.operands = 1..Len(inst.operands)
      BY <3>1, RunningTyped, RunningCode
    <3>3. EnterFault(inst.callee, CallArguments, Len(frames)) = "none"
            /\ \A k \in DOMAIN inst.operands : Resolves(inst.operands[k])
      BY <3>1 DEF CallFault
    <3>4. CallArguments \in [1..Len(inst.operands) -> Values]
      BY <3>2, <3>3, Resolved DEF CallArguments
    <3>5. FramesTyped' /\ calls' \in Nat
      BY <2>0, <3>1, <3>2, <3>3, <3>4, EnterTyped
    <3> QED BY <2>0, <3>1, <3>5 DEF RestTyped
  <2>10. CASE ReturnToCaller
    BY <2>10, ReturnTyped
  <2>11. CASE ReturnFromMain
    <3>1. Running /\ steps' = steps + 1 /\ (inst.value = NoOperand \/ Resolves(inst.value))
      BY <2>11 DEF ReturnFromMain, Returns, Step
    <3>2. FrameTyped(frame)
      BY <3>1, RunningTyped
    <3>3. ReturnValue \in Values
      <4>1. 0 \in Words
        BY WordRange
      <4>2. Number(0) \in Values
        BY <4>1, MadeValues
      <4> QED BY <3>1, <3>2, <4>2, Resolved DEF ReturnValue
    <3>4. CASE ReturnValue.kind = "i32"
      BY <2>0, <2>11, <3>1, <3>3, <3>4 DEF ReturnFromMain, FramesTyped, RestTyped
    <3>5. CASE ReturnValue.kind # "i32"
      <4>1. /\ frames' = <<>> /\ UNCHANGED <<main, args, calls, result>> /\ fault' \in Faults
        BY <2>11, <3>5 DEF ReturnFromMain, Fail, Faults
      <4>2. steps' \in Nat
        BY <2>0, <3>1
      <4> QED BY <2>f, <4>1, <4>2
    <3> QED BY <3>4, <3>5
  <2>12. CASE \/ StepLabel \/ StepJmp \/ StepBr \/ StepConst \/ StepCopy \/ StepAlloca
              \/ StepLoad \/ StepStore \/ StepUnary \/ StepBinary
    BY <2>12, MovingTyped
  <2>13. CASE UNCHANGED vars
    BY <2>13 DEF vars, FramesTyped, FrameTyped, RestTyped
  <2> QED
    BY <2>2, <2>3, <2>4, <2>5, <2>6, <2>7, <2>8, <2>9, <2>10, <2>11, <2>12, <2>13
       DEF Next, Terminated
<1>3. Inv /\ TypeInv => TypeOK
  BY DEF Inv, StackInv, StatusInv, FrameInside, FramesTyped, FrameTyped, RestTyped, TypeOK
<1> HIDE DEF TypeInv
<1> QED BY <1>1, <1>2, <1>3, StackInvariant, PTL DEF Spec

=============================================================================
