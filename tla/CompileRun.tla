----------------------------- MODULE CompileRun -----------------------------
(***************************************************************************)
(* Compile and evaluate: what sema.Lower returns for a function is handed  *)
(* to tac.EvaluateFunction, as TestCompileAndEvaluate_Fibonacci does.  The *)
(* module evaluated holds the one function lowered, which may call itself. *)
(***************************************************************************)
EXTENDS Lowering

CONSTANTS
    Self,           \* the name of the function, to call it by
    ArgumentLists,  \* the arguments it is evaluated with
    StepLimit, MaxCallDepth, Width, ByteWidth

VARIABLES module, main, args, callStack, steps, calls, status, result, fault

runVars == <<module, main, args, callStack, steps, calls, status, result, fault>>
allVars == <<vars, runVars>>

NoModule == <<>>

Run == INSTANCE Evaluator WITH frames <- callStack, Modules <- {}, Mains <- {Self}

CompileRunInit ==
    /\ Init
    /\ module = NoModule /\ main = Self /\ args = <<>>
    /\ callStack = <<>> /\ steps = 0 /\ calls = 0
    /\ status = "compiling"
    /\ result = Run!NoValue
    /\ fault = "none"

Compile == status = "compiling" /\ Next /\ UNCHANGED runVars

\* The function Lower returned, with the parameters of its header.
Lowered == [params |-> [k \in DOMAIN header.params |-> header.params[k].name], code |-> code]

EvaluateFunction(argv) ==
    /\ status = "compiling"
    /\ mode = "lowered"
    /\ module' = [f \in {Self} |-> Lowered]
    /\ args' = argv
    /\ status' = "start"
    /\ UNCHANGED <<vars, main, callStack, steps, calls, result, fault>>

Evaluate == status \notin {"compiling"} /\ Run!Next /\ UNCHANGED vars

CompileRunNext ==
    \/ Compile
    \/ \E argv \in ArgumentLists : EvaluateFunction(argv)
    \/ Evaluate

CompileRunSpec == CompileRunInit /\ [][CompileRunNext]_allVars

(***************************************************************************)
(* The programs this module is made for: one function, on integers, that   *)
(* may call itself.  Cells of one call mean nothing in another, so no      *)
(* pointer is passed or returned.                                          *)
(***************************************************************************)
SingleIntegerFunction ==
    /\ Functions = {Self}
    /\ Names \subseteq {"v"} \X STRING
    /\ ArgumentLists \subseteq Seq(Run!Words)
    /\ \A h \in Headers :
          /\ Signatures[Self] = SignatureForFunction(h)
          /\ ~IsPointerType(LowerType(h.ret))
          /\ \A k \in DOMAIN h.params : ~IsPointerType(LowerType(h.params[k].type))
          /\ \A argv \in ArgumentLists : Len(argv) = Len(h.params)
    /\ 0..MaxInt \subseteq Run!Words

(***************************************************************************)
(* Properties.                                                             *)
(***************************************************************************)

\* What may stop the evaluation of a program its compiler accepted: the limits
\* of the evaluator and what C leaves undefined.
SourceFaults == {"none", "step limit", "maximum call depth", "uninitialized load",
                 "division by zero"}

\* A function sema accepts, with integer operands for its operators, runs
\* without any fault of the intermediate code: no unknown value, no value of
\* the wrong kind, no missing label, destination or return.
AcceptedProgramsRun == fault \notin SourceFaults => ~OperatorsTakeIntegers

\* While it runs, every cell holds a value of the type it was allocated for.
CellsHoldTheirType ==
    \A i \in DOMAIN callStack :
        \A k \in {j \in DOMAIN code : code[j].kind = "op" /\ code[j].opcode = "alloca"} :
            LET values == callStack[i].values
                slot   == code[k].dst.text
            IN slot \in DOMAIN values /\ values[slot].n \in DOMAIN callStack[i].memory =>
                  (callStack[i].memory[values[slot].n].kind = "ptr")
                      <=> IsPointerType(code[k].operands[1].text[2])

\* docs/language-v0.md takes && from C, where the right operand is evaluated
\* only if the left one is not zero.  Where the only "and" is &&, the
\* instruction before it makes a truth value of the right operand; it runs only
\* if the left truth value, the first operand of the "and", is 1.
RightOperandIsLazy ==
    \A i \in DOMAIN callStack :
        LET next == callStack[i].pc + 1 IN
        next \in {k \in DOMAIN code : code[k].kind = "op" /\ code[k].opcode = "and"} =>
            callStack[i].values[code[next].operands[1].text].n = 1

=============================================================================
