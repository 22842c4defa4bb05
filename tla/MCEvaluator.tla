---------------------------- MODULE MCEvaluator ----------------------------
(***************************************************************************)
(* Modules for the evaluator: the programs of evaluator_test.go and of     *)
(* examples/fibonacci.c as Lower emits them, and programs that reach every *)
(* fault.                                                                  *)
(***************************************************************************)
EXTENDS Evaluator, TLC

T(n)   == Temp(n)
S(n)   == StackSlot(n)
C(n)   == <<"n", n>>
Imm(n) == Immediate(C(n))
A      == Param(<<"v", "a">>)
B      == Param(<<"v", "b">>)
ParamA == <<"v", "a">>
ParamB == <<"v", "b">>

Fn(params, code) == [params |-> params, code |-> code]

Const(n, c)      == Op("const", T(n), <<Imm(c)>>)
Alloca(n)        == Op("alloca", S(n), <<Immediate(<<"type", "i32">>)>>)
Load(n, o)       == Op("load", T(n), <<o>>)
LoadInd(n, o)    == Op("loadInd", T(n), <<o>>)
Store(p, o)      == Op("store", NoOperand, <<p, o>>)
StoreInd(p, o)   == Op("storeInd", NoOperand, <<p, o>>)
Bin(op, n, o, q) == Op(op, T(n), <<o, q>>)
Un(op, n, o)     == Op(op, T(n), <<o>>)

\* func @sel(%a, %b): the larger of the two.
Sel == Fn(<<ParamA, ParamB>>,
    <<Label(0), Bin("gt", 0, A, B), Br(T(0), 1, 2), Label(1), Ret(A), Label(2), Ret(B)>>)

\* func @fact(%a), recursive.
Fact == Fn(<<ParamA>>,
    <<Label(0), Const(0, 1), Bin("le", 1, A, T(0)), Br(T(1), 1, 2),
      Label(1), Ret(T(0)),
      Label(2), Const(2, 1), Bin("sub", 3, A, T(2)), Call("main", T(4), <<T(3)>>),
      Bin("mul", 5, A, T(4)), Ret(T(5))>>)

\* func @fib(%a), the loop of examples/fibonacci.c.
Fib == Fn(<<ParamA>>,
    <<Alloca(1), Store(S(1), A),
      Load(2, S(1)), Const(3, 1), Bin("le", 4, T(2), T(3)), Br(T(4), 0, 1),
      Label(0), Load(5, S(1)), Ret(T(5)),
      Label(1),
      Alloca(7), Const(8, 0), Store(S(7), T(8)),
      Alloca(10), Const(11, 1), Store(S(10), T(11)),
      Alloca(13), Const(14, 2), Store(S(13), T(14)),
      Jmp(2), Label(2),
      Load(15, S(13)), Load(16, S(1)), Bin("le", 17, T(15), T(16)), Br(T(17), 3, 4),
      Label(3),
      Alloca(19), Load(20, S(7)), Load(21, S(10)), Bin("add", 22, T(20), T(21)),
      Store(S(19), T(22)),
      Load(23, S(10)), Store(S(7), T(23)),
      Load(24, S(19)), Store(S(10), T(24)),
      Load(25, S(13)), Const(26, 1), Bin("add", 27, T(25), T(26)), Store(S(13), T(27)),
      Jmp(2),
      Label(4), Load(28, S(10)), Ret(T(28))>>)

\* One operator applied to both arguments.
Operator(op) == Fn(<<ParamA, ParamB>>, <<Bin(op, 0, A, B), Ret(T(0))>>)
Negation(op) == Fn(<<ParamA, ParamB>>, <<Un(op, 0, A), Ret(T(0))>>)

\* int set(int *a) { *a = 7; return 0; } called with the address of x: what C
\* prescribes is 7, the value of x in main.
SetThrough == Fn(<<ParamA>>,
    <<Alloca(1), Store(S(1), A), Load(2, S(1)), Const(3, 7), StoreInd(T(2), T(3)),
      Const(4, 0), Ret(T(4))>>)
PassesPointer == Fn(<<>>,
    <<Alloca(1), Const(2, 1), Store(S(1), T(2)), Call("set", T(3), <<S(1)>>),
      Load(4, S(1)), Ret(T(4))>>)

\* A pointer used by the call that allocated it.
OwnPointer == Fn(<<>>,
    <<Alloca(1), Const(2, 5), Alloca(4), Op("copy", T(5), <<S(1)>>), Store(S(4), T(5)),
      Load(6, S(4)), StoreInd(T(6), T(2)), LoadInd(7, T(6)), Ret(T(7))>>)

Loops     == Fn(<<>>, <<Label(0), Jmp(0)>>)
Recurses  == Fn(<<>>, <<Call("main", NoOperand, <<>>), Ret(NoOperand)>>)
BareMain  == Fn(<<>>, <<Call("none", NoOperand, <<>>), Ret(NoOperand)>>)
CallsVoid == Fn(<<>>, <<Call("void", T(0), <<>>), Ret(T(0))>>)
VoidFn    == Fn(<<>>, <<Ret(NoOperand)>>)

\* A module with one function, and the modules that reach each fault.
Main(f) == "main" :> f
Faulty ==
    {Main(Fn(<<>>, code)) : code \in {
        <<>>, <<Jmp(0)>>, <<Const(0, 1)>>,
        <<Ret(T(0))>>, <<Br(T(0), 0, 0), Label(0), Ret(NoOperand)>>,
        <<Alloca(1), Ret(S(1))>>,
        <<Alloca(1), Br(S(1), 0, 0), Label(0), Ret(NoOperand)>>,
        <<Alloca(1), Load(2, S(1)), Ret(T(2))>>,
        <<Alloca(1), Bin("add", 2, S(1), Imm(1)), Ret(T(2))>>,
        <<Const(0, 1), LoadInd(1, T(0)), Ret(T(1))>>,
        <<Const(0, 1000), Ret(T(0))>>, <<Op("const8", T(0), <<Imm(7)>>), Ret(T(0))>>,
        <<Op("const8", T(0), <<Imm(1)>>), Ret(T(0))>>,
        <<Op("const", NoOperand, <<Imm(1)>>), Ret(NoOperand)>>,
        <<Call("main", T(0), <<Imm(1)>>), Ret(T(0))>>,
        <<Call("main", T(0), <<T(5)>>), Ret(T(0))>>}}
    \cup {Main(Loops), Main(Recurses), Main(BareMain)}

OperatorModules == {Main(Operator(op)) : op \in BinaryOpcodes}
                      \cup {Main(Negation(op)) : op \in UnaryOpcodes}
Pointers == {"main" :> PassesPointer @@ "set" :> SetThrough}

MCModules ==
    {Main(Fact), Main(Fib), Main(Sel), Main(OwnPointer), "main" :> CallsVoid @@ "void" :> VoidFn}
    \cup OperatorModules \cup Pointers \cup Faulty

MCMains     == {"main", "other"}
MCArguments == {<<>>} \cup {<<n>> : n \in 0..7} \cup {<<a, b>> : a, b \in Words}

MCMainOnly    == {"main"}
MCNoArguments == {<<>>}

(***************************************************************************)
(* Reference results.                                                      *)
(***************************************************************************)

Factorial[n \in Nat] == IF n <= 1 THEN 1 ELSE n * Factorial[n - 1]
Fibonacci[n \in Nat] == IF n <= 1 THEN n ELSE Fibonacci[n - 1] + Fibonacci[n - 2]

\* A run that returns has computed the factorial, the Fibonacci number or the
\* maximum, modulo the width of a word: calls, loops and branches of the
\* evaluator are those of the programs its tests use.
ProgramsComputeTheirFunction ==
    status = "returned" =>
        CASE module = Main(Fact) -> result = Number(Wrap(Factorial[args[1]]))
          [] module = Main(Fib)  -> result = Number(Wrap(Fibonacci[args[1]]))
          [] module = Main(Sel)  -> result = Number(IF args[1] > args[2] THEN args[1] ELSE args[2])
          [] module = Main(OwnPointer) -> result = Number(5)
          [] OTHER -> TRUE

\* The operators are those of two's complement words, and each law below leaves
\* one result only: division truncates toward zero and is inverted by the
\* remainder, a shift multiplies or divides by two to the power of its amount,
\* which is an unsigned word, so that a negative one is at least the width;
\* bitwise operators relate to addition as they do in words.
r == result.n
a1 == args[1]
a2 == args[2]
Same(x, y) == (x - y) % 2^Width = 0
Power(amount) == 2^(amount % 2^Width)
Truth(p) == r \in {0, 1} /\ (r = 1 <=> p)
\* q times a2 and m make a1, and m is smaller than a2 and has the sign of a1.
Divides(q, m) == /\ q * a2 + m = a1 /\ m * m < a2 * a2
                 /\ m # 0 => (m < 0 <=> a1 < 0)
Quotients == Words \cup {2^(Width - 1)}
WordLaw(op) ==
    CASE op = "add" -> Same(r, a1 + a2)
      [] op = "sub" -> Same(r + a2, a1)
      [] op = "mul" -> Same(r, a1 * a2)
      [] op = "div" -> \E q \in Quotients, m \in Words : Same(r, q) /\ Divides(q, m)
      [] op = "mod" -> \E q \in Quotients : Divides(q, r)
      [] op = "and" -> Same(r + FromBits(BitsOf(a1) \cup BitsOf(a2)), a1 + a2)
      [] op = "or"  -> Same(r, a1 + FromBits(BitsOf(a2) \ BitsOf(a1)))
      [] op = "xor" -> Same(r + 2 * FromBits(BitsOf(a1) \cap BitsOf(a2)), a1 + a2)
      [] op = "shl" -> Same(r, a1 * Power(a2))
      [] op = "shr" -> Power(a2) * r <= a1 /\ a1 < Power(a2) * (r + 1)
      [] op = "eq"  -> Truth(a1 - a2 = 0)
      [] op = "ne"  -> Truth(a1 - a2 # 0)
      [] op = "lt"  -> Truth(a1 - a2 < 0)
      [] op = "le"  -> Truth(a1 - a2 <= 0)
      [] op = "gt"  -> Truth(a1 - a2 > 0)
      [] op = "ge"  -> Truth(a1 - a2 >= 0)
      [] op = "neg" -> Same(r + a1, 0)
      [] op = "not" -> r = -a1 - 1
      [] op = "lnot" -> Truth(a1 = 0)

\* On two words an operator yields what its law says, and nothing but a division
\* by zero fails.
OperatorsAreWordOperators ==
    module \in OperatorModules =>
        LET op == module["main"].code[1].opcode
        IN  /\ status = "returned" => r \in Words /\ WordLaw(op)
            /\ status = "failed" /\ main = "main" /\ Len(args) = 2 =>
                  fault = "division by zero" /\ op \in {"div", "mod"} /\ a2 = 0

=============================================================================
