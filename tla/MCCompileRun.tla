---------------------------- MODULE MCCompileRun ----------------------------
(* Bounded instances of CompileRun: int f(int x), which may call itself. *)
EXTENDS CompileRun, TLC

SInt    == [spec |-> "int", depth |-> 0]
SIntPtr == [spec |-> "int", depth |-> 1]
VarX    == <<"v", "x">>

MCNames      == {VarX}
MCSignatures == "f" :> [ret |-> I32, params |-> <<I32>>]
MCHeaders    == {[ret |-> SInt, params |-> <<[name |-> VarX, type |-> SInt]>>]}
MCInt        == {SInt}
MCIntPtr     == {SInt, SIntPtr}
MCArguments  == {<<0>>, <<2>>}

\* The instances are of the programs the theorems about an evaluation are about.
ASSUME ProgramsAssumption == SingleIntegerFunction

=============================================================================
