----------------------------- MODULE MCLowering -----------------------------
(***************************************************************************)
(* Bounded instances of Lowering.  The code of a lowered function is also  *)
(* written and read back, and the table of signatures it is lowered under  *)
(* is built from every short list of prototypes and definitions.           *)
(***************************************************************************)
EXTENDS Lowering, TacText, TLC

SInt     == [spec |-> "int", depth |-> 0]
SVoid    == [spec |-> "void", depth |-> 0]
SIntPtr  == [spec |-> "int", depth |-> 1]
SChar    == [spec |-> "char", depth |-> 0]

VarX == <<"v", "x">>

P(x, t) == [name |-> x, type |-> t]
H(ret, ps) == [ret |-> ret, params |-> ps]

MCNamesX == {VarX}

MCNoSignatures == [f \in {} |-> [ret |-> Void, params |-> <<>>]]
MCSignatures == ("f" :> [ret |-> I32, params |-> <<I32>>])
             @@ ("g" :> [ret |-> Void, params |-> <<PointerTo(I32)>>])

MCControlHeaders == {H(SInt, <<>>), H(SVoid, <<>>)}
MCExprHeaders    == {H(SInt, <<P(VarX, SIntPtr)>>)}

MCInt == {SInt}

-----------------------------------------------------------------------------
\* What the compiler emits, its textual output carries: written and read back
\* it is the same code, although the text does not say which of its names are
\* temporaries, slots, parameters or types.
LoweredReadsBack ==
    mode = "lowered" =>
        LET m    == <<[name |-> "f", params |-> header.params, ret |-> header.ret,
                       code |-> code]>>
            text == WriteModule(m)
        IN  Writable(m) /\ Accepted(text) /\ ReadModule(text).functions = m

-----------------------------------------------------------------------------
Declarations ==
    {[name |-> f, ret |-> r, params |-> ps] :
        f \in {"f", "g"}, r \in {SInt, SVoid},
        ps \in {<<>>, <<P("x", SInt)>>, <<P("x", SChar)>>, <<P("x", SVoid)>>,
                <<P("x", SIntPtr), P("x", SInt)>>}}

\* The signatures are those of the declarations, whatever their order: Lower
\* gets past its table exactly if every declaration has a signature, all
\* declarations of a name have the same one and no name is defined twice, and
\* the table then has that signature for every name declared and no other.
SignaturesAreDeclared ==
    mode = "params" /\ code = <<>> =>
        \A prototypes, definitions \in BoundedSeq(Declarations, 2) :
            LET all == ToSet(prototypes) \cup ToSet(definitions)
                table == FunctionTable(prototypes, definitions)
            IN  /\ table.ok <=>
                     /\ \A f \in all : HasSignature(f)
                     /\ \A f, g \in all : f.name = g.name =>
                            SignatureForFunction(f) = SignatureForFunction(g)
                     /\ \A j, k \in DOMAIN definitions :
                            definitions[j].name = definitions[k].name => j = k
                /\ table.ok =>
                     /\ DOMAIN table.functions = {f.name : f \in all}
                     /\ \A f \in all :
                            table.functions[f.name] = SignatureForFunction(f)

=============================================================================
