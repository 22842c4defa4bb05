------------------------------ MODULE Lowering ------------------------------
(***************************************************************************)
(* Semantic lowering of one function, internal/sema/lower.go: the walk of  *)
(* lowerFunction, lowerStatement and lowerExpr over a syntax tree and the  *)
(* three-address code it emits.                                            *)
(*                                                                         *)
(* The recursion of the Go code is a stack of frames, one per statement    *)
(* being lowered, and the values of the sub-expressions already lowered    *)
(* are a second stack, so one step is one node of the tree.  The tree is   *)
(* not given: every step chooses the next node the parser could have       *)
(* produced, and TLC visits every tree of at most MaxNodes nodes.          *)
(***************************************************************************)
EXTENDS TacIR, Symbols, FiniteSetsExt

CONSTANTS
    Names,             \* identifiers, as the texts of their parameters: x is <<"v", "x">>
    Functions,         \* functions with a prototype or a definition
    Signatures,        \* Signatures[f]: the signature of f
    UndeclaredFunctions, \* names called without a declaration
    Headers,           \* the headers of the function lowered: [ret, params]
    DeclTypes,         \* source types of local declarations
    Literals,          \* integer literals
    MaxInt,            \* the largest value of an i32
    UnaryOps, BinaryOps, LogicalOps, \* the operators of expressions
    SubstatementDecls, \* may a declaration be the body of if, while or for?
    MaxNodes           \* bound: nodes of the syntax tree

Parameters == [name : Names, type : SourceTypes]

ASSUME NamesAssumption     == Names \subseteq ({"v"} \X STRING) \cup ({"s", "t"} \X Nat)
ASSUME FunctionsAssumption == /\ NoCallee \notin Functions
                              /\ Functions \cap UndeclaredFunctions = {}
ASSUME SignaturesAssumption == Signatures \in [Functions -> [ret : Types, params : Seq(Types \ {Void})]]
ASSUME HeadersAssumption   == Headers \subseteq [ret : SourceTypes, params : Seq(Parameters)]
ASSUME DeclTypesAssumption == DeclTypes \subseteq SourceTypes
ASSUME LiteralsAssumption  == Literals \subseteq Nat /\ MaxInt \in Nat
                                /\ \E c \in Literals : c <= MaxInt
ASSUME OperatorsAssumption == /\ UnaryOps \subseteq UnaryOpcodes \cup {"plus"}
                              /\ BinaryOps \subseteq BinaryOpcodes
                              /\ LogicalOps \subseteq {"and", "or"}
ASSUME BoundsAssumption    == SubstatementDecls \in BOOLEAN /\ MaxNodes \in Nat

VARIABLES
    header,      \* the header of the function
    params,      \* its parameters not declared yet
    code,        \* fn.Instructions
    nextTempID,  \* fn.nextTempID
    nextLabelID, \* l.nextLabelID
    scopes,      \* l.scopes, innermost last
    frames,      \* the statements being lowered, innermost last
    vals,        \* the operands of the expression being lowered
    mode,        \* what the walk does next
    reachable,   \* may the statement just lowered complete normally?
    diagnostic,  \* the error lowering stopped with
    nodes        \* nodes of the tree so far

vars == <<header, params, code, nextTempID, nextLabelID, scopes, frames, vals, mode,
          reachable, diagnostic, nodes>>

(***************************************************************************)
(* The state.                                                              *)
(***************************************************************************)

NoDiagnostic == "none"

\* A variable of a scope; a name the scope does not declare is Undeclared.
Symbol(type, slot) == [type |-> type, slot |-> slot]
Undeclared         == Symbol(Void, NoOperand)
NoNames            == [x \in Names |-> Undeclared]

\* A frame.  head is a label already placed; body, alt and end are labels still
\* to be placed (alt is the else or the post label); flag is thenReachable;
\* decl is the variable under initialisation.
Frame(kind)  == [kind |-> kind, head |-> NoLabel, body |-> NoLabel, alt |-> NoLabel,
                 end |-> NoLabel, flag |-> FALSE, decl |-> Undeclared]
ExprKinds    == {"expr", "return", "decl", "ifCond", "whileCond", "forCond", "forPost"}
BlockKinds   == {"function", "block"}
ForKinds     == {"forInit", "forCond", "forBody", "forPost"}
ScopeKinds   == BlockKinds \cup ForKinds
FrameKinds   == ExprKinds \cup ScopeKinds \cup {"then", "thenElse", "else", "while"}

\* An entry of vals: a value, an address (the left of an assignment or the
\* operand of &), or a call whose arguments are being lowered.
Value(o, t)    == [cat |-> "value", operand |-> o, type |-> t, callee |-> NoCallee]
Address(o, t)  == [cat |-> "address", operand |-> o, type |-> t, callee |-> NoCallee]
PendingCall(f) == [cat |-> "call", operand |-> NoOperand, type |-> Void, callee |-> f]

top == frames[Len(frames)]
Pop == SubSeq(frames, 1, Len(frames) - 1)
ReplaceTop(f) == Append(Pop, f)

PushScope == scopes' = Append(scopes, NoNames)
PopScope  == scopes' = SubSeq(scopes, 1, Len(scopes) - 1)

Emit(instructions) == code' = code \o instructions

Init ==
    /\ header \in Headers
    /\ params = header.params
    /\ code = <<>>
    /\ nextTempID = 0
    /\ nextLabelID = 0
    /\ scopes = <<NoNames>>
    /\ frames = <<Frame("function")>>
    /\ vals = <<>>
    /\ mode = "params"
    /\ reachable = TRUE
    /\ diagnostic = NoDiagnostic
    /\ nodes = 0

(***************************************************************************)
(* An error abandons the function: nothing built so far is returned.       *)
(***************************************************************************)
Reject(d) ==
    /\ mode' = "rejected"
    /\ diagnostic' = d
    /\ params' = <<>> /\ code' = <<>> /\ scopes' = <<>> /\ frames' = <<>> /\ vals' = <<>>
    /\ nextTempID' = 0 /\ nextLabelID' = 0 /\ nodes' = 0
    /\ reachable' = TRUE
    /\ UNCHANGED header

(***************************************************************************)
(* Variables.                                                              *)
(***************************************************************************)

DeclaredIn(x) == {i \in DOMAIN scopes : scopes[i][x] # Undeclared}

\* resolveVariable: the innermost declaration of x.
ResolveVariable(x) == IF DeclaredIn(x) = {} THEN Undeclared ELSE scopes[Max(DeclaredIn(x))][x]

\* declareLocal, the alloca and setLocalSlot.
NewVariable(type) == Symbol(type, StackSlot(nextTempID + 1))
DeclareLocal(x, sym) ==
    scopes' = [scopes EXCEPT ![Len(scopes)][x] = sym]
Alloca(sym) == Op("alloca", sym.slot, <<Immediate(<<"type", sym.type>>)>>)
Store(slot, value) == Op("store", NoOperand, <<slot, value>>)

DeclarationError(x, type) ==
    CASE type = Void -> "void objects"
      [] type # Void /\ scopes[Len(scopes)][x] # Undeclared -> "redeclared"
      [] OTHER -> NoDiagnostic

(***************************************************************************)
(* The parameters.                                                         *)
(***************************************************************************)
LowerParameter ==
    /\ mode = "params" /\ params # <<>>
    /\ LET p   == Head(params)
           sym == NewVariable(LowerType(p.type))
           err == DeclarationError(p.name, sym.type)
       IN IF err # NoDiagnostic THEN Reject(err)
          ELSE /\ DeclareLocal(p.name, sym)
               /\ Emit(<<Alloca(sym), Store(sym.slot, Param(p.name))>>)
               /\ nextTempID' = nextTempID + 2
               /\ params' = Tail(params)
               /\ UNCHANGED <<header, nextLabelID, frames, vals, mode, reachable,
                              diagnostic, nodes>>

ParametersDone ==
    /\ mode = "params" /\ params = <<>>
    /\ mode' = "after"
    /\ UNCHANGED <<header, params, code, nextTempID, nextLabelID, scopes, frames, vals,
                   reachable, diagnostic, nodes>>

(***************************************************************************)
(* Statements.                                                             *)
(***************************************************************************)

MayAddNode == nodes < MaxNodes

\* The next statement of a block, or the one statement a then, an else or a
\* loop needs.  A block lowers no statement after one that cannot complete.
InBlock  == mode = "after" /\ reachable /\ top.kind \in BlockKinds
NeedStmt == mode = "stmt"

StartStatement ==
    /\ InBlock \/ (NeedStmt /\ top.kind # "forInit")
    /\ MayAddNode
    /\ nodes' = nodes + 1

\* An expression or a declaration may also be the first clause of a for.
StartSimpleStatement ==
    /\ InBlock \/ NeedStmt
    /\ MayAddNode \/ (NeedStmt /\ top.kind = "forInit")
    /\ nodes' = nodes + 1

\* The statement on top is lowered; r tells whether it can complete.
StatementDone(r) ==
    /\ mode' = "after"
    /\ reachable' = r

unchangedByStatements == <<header, params, vals, diagnostic>>

StartBlock ==
    /\ StartStatement
    /\ PushScope
    /\ frames' = Append(frames, Frame("block"))
    /\ StatementDone(TRUE)
    /\ UNCHANGED <<unchangedByStatements, code, nextTempID, nextLabelID>>

EndBlock ==
    /\ mode = "after" /\ top.kind = "block"
    /\ PopScope
    /\ frames' = Pop
    /\ UNCHANGED <<unchangedByStatements, code, nextTempID, nextLabelID, mode, reachable, nodes>>

EmptyStatement ==
    /\ NeedStmt /\ top.kind # "forInit"
    /\ StatementDone(TRUE)
    /\ UNCHANGED <<unchangedByStatements, code, nextTempID, nextLabelID, scopes, frames, nodes>>

DeclarationAllowed == InBlock \/ top.kind = "forInit" \/ SubstatementDecls

\* Seeded bug: an initialised variable gets no slot.
DeclarationStatementWithoutAlloca(x, t, initialized) ==
    /\ StartSimpleStatement
    /\ DeclarationAllowed
    /\ nextTempID' = nextTempID + 2
    /\ LET sym == NewVariable(LowerType(t)) IN
       /\ DeclarationError(x, sym.type) = NoDiagnostic
       /\ DeclareLocal(x, sym)
       /\ Emit(IF initialized THEN <<>> ELSE <<Alloca(sym)>>)
       /\ IF initialized
          THEN /\ frames' = Append(frames, [Frame("decl") EXCEPT !.decl = sym])
               /\ mode' = "expr"
               /\ UNCHANGED reachable
          ELSE StatementDone(TRUE) /\ UNCHANGED frames
    /\ UNCHANGED <<unchangedByStatements, nextLabelID>>

\* lowerLocalDeclaration: the name is in scope before its initialiser.
DeclarationStatement(x, t, initialized) ==
    /\ StartSimpleStatement
    /\ DeclarationAllowed
    /\ nextTempID' = nextTempID + 2
    /\ LET sym == NewVariable(LowerType(t)) IN
       /\ DeclarationError(x, sym.type) = NoDiagnostic
       /\ DeclareLocal(x, sym)
       /\ Emit(<<Alloca(sym)>>)
       /\ IF initialized
          THEN /\ frames' = Append(frames, [Frame("decl") EXCEPT !.decl = sym])
               /\ mode' = "expr"
               /\ UNCHANGED reachable
          ELSE StatementDone(TRUE) /\ UNCHANGED frames
    /\ UNCHANGED <<unchangedByStatements, nextLabelID>>

BadDeclaration(x, t) ==
    /\ InBlock \/ NeedStmt
    /\ MayAddNode
    /\ DeclarationAllowed
    /\ DeclarationError(x, LowerType(t)) # NoDiagnostic
    /\ Reject(DeclarationError(x, LowerType(t)))

ExpressionStatement ==
    /\ StartSimpleStatement
    /\ frames' = Append(frames, Frame("expr"))
    /\ mode' = "expr"
    /\ UNCHANGED <<unchangedByStatements, code, nextTempID, nextLabelID, scopes, reachable>>

ReturnStatement ==
    /\ StartStatement
    /\ frames' = Append(frames, Frame("return"))
    /\ mode' = "expr"
    /\ UNCHANGED <<unchangedByStatements, code, nextTempID, nextLabelID, scopes, reachable>>

\* Seeded bug: the return type is not looked at.
BareReturnUnchecked ==
    /\ StartStatement
    /\ Emit(<<Ret(NoOperand)>>)
    /\ StatementDone(FALSE)
    /\ UNCHANGED <<unchangedByStatements, nextTempID, nextLabelID, scopes, frames>>

BareReturn ==
    /\ StartStatement
    /\ LowerType(header.ret) = Void
    /\ Emit(<<Ret(NoOperand)>>)
    /\ StatementDone(FALSE)
    /\ UNCHANGED <<unchangedByStatements, nextTempID, nextLabelID, scopes, frames>>

BadBareReturn ==
    /\ InBlock \/ (NeedStmt /\ top.kind # "forInit")
    /\ MayAddNode
    /\ LowerType(header.ret) # Void
    /\ Reject("non-void function must return a value")

(***************************************************************************)
(* if.                                                                     *)
(***************************************************************************)

IfStatement ==
    /\ StartStatement
    /\ frames' = Append(frames, Frame("ifCond"))
    /\ mode' = "expr"
    /\ UNCHANGED <<unchangedByStatements, code, nextTempID, nextLabelID, scopes, reachable>>

JmpIf(r, label) == IF r THEN <<Jmp(label)>> ELSE <<>>

ThenDone ==
    /\ mode = "after" /\ top.kind = "then"
    /\ Emit(JmpIf(reachable, top.end) \o <<Label(top.end)>>)
    /\ frames' = Pop
    /\ StatementDone(TRUE)
    /\ UNCHANGED <<unchangedByStatements, nextTempID, nextLabelID, scopes, nodes>>

\* Seeded bug: the jump over the else part is always emitted.
ThenElseDoneJumping ==
    /\ mode = "after" /\ top.kind = "thenElse"
    /\ Emit(<<Jmp(top.end), Label(top.alt)>>)
    /\ frames' = ReplaceTop([top EXCEPT !.kind = "else", !.alt = NoLabel, !.flag = reachable])
    /\ mode' = "stmt"
    /\ reachable' = TRUE
    /\ UNCHANGED <<unchangedByStatements, nextTempID, nextLabelID, scopes, nodes>>

ThenElseDone ==
    /\ mode = "after" /\ top.kind = "thenElse"
    /\ Emit(JmpIf(reachable, top.end) \o <<Label(top.alt)>>)
    /\ frames' = ReplaceTop([top EXCEPT !.kind = "else", !.alt = NoLabel, !.flag = reachable])
    /\ mode' = "stmt"
    /\ reachable' = TRUE
    /\ UNCHANGED <<unchangedByStatements, nextTempID, nextLabelID, scopes, nodes>>

\* Seeded bug: the statement completes only if both branches do.
ElseDoneBoth ==
    /\ mode = "after" /\ top.kind = "else"
    /\ Emit(JmpIf(reachable, top.end)
              \o IF top.flag \/ reachable THEN <<Label(top.end)>> ELSE <<>>)
    /\ frames' = Pop
    /\ StatementDone(top.flag /\ reachable)
    /\ UNCHANGED <<unchangedByStatements, nextTempID, nextLabelID, scopes, nodes>>

\* The end label is placed only if one of the branches gets there.
ElseDone ==
    /\ mode = "after" /\ top.kind = "else"
    /\ Emit(JmpIf(reachable, top.end)
              \o IF top.flag \/ reachable THEN <<Label(top.end)>> ELSE <<>>)
    /\ frames' = Pop
    /\ StatementDone(top.flag \/ reachable)
    /\ UNCHANGED <<unchangedByStatements, nextTempID, nextLabelID, scopes, nodes>>

(***************************************************************************)
(* while.                                                                  *)
(***************************************************************************)

WhileStatement ==
    /\ StartStatement
    /\ Emit(<<Jmp(nextLabelID), Label(nextLabelID)>>)
    /\ nextLabelID' = nextLabelID + 3
    /\ frames' = Append(frames, [Frame("whileCond") EXCEPT !.head = nextLabelID,
                                   !.body = nextLabelID + 1, !.end = nextLabelID + 2])
    /\ mode' = "expr"
    /\ UNCHANGED <<unchangedByStatements, nextTempID, scopes, reachable>>

WhileDone ==
    /\ mode = "after" /\ top.kind = "while"
    /\ Emit(JmpIf(reachable, top.head) \o <<Label(top.end)>>)
    /\ frames' = Pop
    /\ StatementDone(TRUE)
    /\ UNCHANGED <<unchangedByStatements, nextTempID, nextLabelID, scopes, nodes>>

(***************************************************************************)
(* for.                                                                    *)
(***************************************************************************)

ForStatement(hasInit) ==
    /\ StartStatement
    /\ PushScope
    /\ frames' = Append(frames, Frame("forInit"))
    /\ IF hasInit THEN mode' = "stmt" /\ UNCHANGED reachable ELSE StatementDone(TRUE)
    /\ UNCHANGED <<unchangedByStatements, code, nextTempID, nextLabelID>>

\* The first clause is a declaration or an expression and always completes.
ForInitDone(hasCond) ==
    /\ mode = "after" /\ top.kind = "forInit"
    /\ nextLabelID' = nextLabelID + 4
    /\ LET cond == nextLabelID
           body == nextLabelID + 1
           f    == [Frame("forCond") EXCEPT !.head = cond, !.body = body,
                      !.alt = nextLabelID + 2, !.end = nextLabelID + 3]
           enter == <<Jmp(cond), Label(cond)>>
       IN IF hasCond
          THEN /\ Emit(enter)
               /\ frames' = ReplaceTop(f)
               /\ mode' = "expr"
          ELSE /\ Emit(enter \o <<Jmp(body), Label(body)>>)
               /\ frames' = ReplaceTop([f EXCEPT !.kind = "forBody", !.body = NoLabel])
               /\ mode' = "stmt"
    /\ UNCHANGED <<unchangedByStatements, nextTempID, scopes, reachable, nodes>>

\* Seeded bug: the scope of the for statement stays.
LeaveForKeepingScope ==
    /\ frames' = Pop
    /\ UNCHANGED scopes
    /\ StatementDone(TRUE)

LeaveFor ==
    /\ frames' = Pop
    /\ PopScope
    /\ StatementDone(TRUE)

\* The body completes and a post expression follows.
ForBodyDoneWithPost ==
    /\ mode = "after" /\ top.kind = "forBody" /\ reachable
    /\ Emit(<<Jmp(top.alt), Label(top.alt)>>)
    /\ frames' = ReplaceTop([top EXCEPT !.kind = "forPost", !.alt = NoLabel])
    /\ mode' = "expr"
    /\ UNCHANGED <<unchangedByStatements, nextTempID, nextLabelID, scopes, reachable, nodes>>

\* There is no post expression, or the body cannot complete and the post
\* expression is not lowered at all; its label is placed all the same.
ForBodyDone ==
    /\ mode = "after" /\ top.kind = "forBody"
    /\ Emit(JmpIf(reachable, top.alt) \o <<Label(top.alt)>>
              \o JmpIf(reachable, top.head) \o <<Label(top.end)>>)
    /\ LeaveFor
    /\ UNCHANGED <<unchangedByStatements, nextTempID, nextLabelID, nodes>>

(***************************************************************************)
(* Expressions.  Operands are lowered left to right, an operator when all  *)
(* of its operands are.                                                    *)
(***************************************************************************)

Top(n)    == vals[Len(vals) - n + 1]
Below(n)  == SubSeq(vals, 1, Len(vals) - n)
HasTop(n, cat) == Len(vals) >= n /\ Top(n).cat = cat

\* The calls whose arguments are being lowered, and the innermost of them.
PendingCalls == {i \in DOMAIN vals : vals[i].cat = "call"}
innermost    == Max(PendingCalls)
Arguments    == SubSeq(vals, innermost + 1, Len(vals))
ArgumentTypes == Signatures[vals[innermost].callee].params
ArgumentsMissing == PendingCalls # {} /\ Len(Arguments) < Len(ArgumentTypes)

\* A tree that has MaxNodes nodes is completed with the literals it still needs;
\* a smaller one may grow by any operand that fits.
OperandNeeded == mode = "expr" /\ (vals = <<>> \/ ArgumentsMissing)
OperandFits   == /\ mode = "expr"
                 /\ \/ HasTop(1, "address")
                    \/ HasTop(1, "value") /\ BinaryOps \cup LogicalOps # {}
MayAddOperand == MayAddNode /\ (OperandNeeded \/ OperandFits)

unchangedByExpressions ==
    <<header, params, nextLabelID, scopes, frames, mode, reachable, diagnostic>>

Push(entry) == vals' = Append(vals, entry) /\ nodes' = nodes + 1

\* Seeded bug: the temporary is handed out again.
ComputeReusingTemp(n, op, operands, type) ==
    /\ Emit(<<Op(op, Temp(nextTempID), operands)>>)
    /\ UNCHANGED nextTempID
    /\ vals' = Append(Below(n), Value(Temp(nextTempID), type))

\* The top n operands are replaced by the result of an instruction.
Compute(n, op, operands, type) ==
    /\ Emit(<<Op(op, Temp(nextTempID), operands)>>)
    /\ nextTempID' = nextTempID + 1
    /\ vals' = Append(Below(n), Value(Temp(nextTempID), type))

Literal(c) ==
    /\ OperandNeeded \/ MayAddOperand
    /\ c <= MaxInt
    /\ Push(Value(Temp(nextTempID), I32))
    /\ Emit(<<Op("const", Temp(nextTempID), <<Immediate(<<"n", c>>)>>)>>)
    /\ nextTempID' = nextTempID + 1
    /\ UNCHANGED unchangedByExpressions

BadLiteral(c) == MayAddOperand /\ c > MaxInt /\ Reject("invalid integer literal")

Identifier(x) ==
    /\ MayAddOperand
    /\ ResolveVariable(x) # Undeclared
    /\ LET sym == ResolveVariable(x) IN
       /\ Push(Value(Temp(nextTempID), sym.type))
       /\ Emit(<<Op("load", Temp(nextTempID), <<sym.slot>>)>>)
    /\ nextTempID' = nextTempID + 1
    /\ UNCHANGED unchangedByExpressions

\* lowerAddress of an identifier.
AddressOfIdentifier(x) ==
    /\ MayAddOperand
    /\ ResolveVariable(x) # Undeclared
    /\ Push(Address(ResolveVariable(x).slot, ResolveVariable(x).type))
    /\ UNCHANGED <<unchangedByExpressions, code, nextTempID>>

UndeclaredIdentifier(x) ==
    /\ MayAddOperand
    /\ ResolveVariable(x) = Undeclared
    /\ Reject("use of undeclared identifier")

\* lowerAddress of anything but an identifier or a dereference.
BadTarget == MayAddOperand /\ Reject("assignment target")

\* Seeded bug: anything but a void* is dereferenced.
DerefErrorVoidOnly(t) ==
    IF t = PointerTo(Void) THEN "cannot dereference void* without cast" ELSE NoDiagnostic

DerefError(t) ==
    CASE ~IsPointerType(t) -> "cannot dereference non-pointer type"
      [] IsPointerType(t) /\ PointeeType(t) = Void -> "cannot dereference void* without cast"
      [] OTHER -> NoDiagnostic

Dereference ==
    /\ mode = "expr" /\ MayAddNode
    /\ HasTop(1, "value")
    /\ DerefError(Top(1).type) = NoDiagnostic
    /\ Compute(1, IF Top(1).operand.kind = "slot" THEN "load" ELSE "loadInd",
               <<Top(1).operand>>, PointeeType(Top(1).type))
    /\ nodes' = nodes + 1
    /\ UNCHANGED unchangedByExpressions

\* lowerAddress of a dereference: the value of the pointer is the address.
AddressOfDereference ==
    /\ mode = "expr" /\ MayAddNode
    /\ HasTop(1, "value")
    /\ DerefError(Top(1).type) = NoDiagnostic
    /\ vals' = Append(Below(1), Address(Top(1).operand, PointeeType(Top(1).type)))
    /\ nodes' = nodes + 1
    /\ UNCHANGED <<unchangedByExpressions, code, nextTempID>>

BadDereference ==
    /\ mode = "expr" /\ MayAddNode
    /\ HasTop(1, "value")
    /\ DerefError(Top(1).type) # NoDiagnostic
    /\ Reject(DerefError(Top(1).type))

\* Unary &.
AddressOf ==
    /\ mode = "expr"
    /\ HasTop(1, "address")
    /\ vals' = Append(Below(1), Value(Top(1).operand, PointerTo(Top(1).type)))
    /\ UNCHANGED <<unchangedByExpressions, code, nextTempID, nodes>>

\* The operators of lowerExpr's second switch: + returns its operand as it is.
Unary(op) ==
    /\ mode = "expr" /\ MayAddNode
    /\ HasTop(1, "value")
    /\ Top(1).type = I32
    /\ IF op = "plus" THEN UNCHANGED <<code, nextTempID, vals>>
                      ELSE Compute(1, op, <<Top(1).operand>>, I32)
    /\ nodes' = nodes + 1
    /\ UNCHANGED unchangedByExpressions

BadUnary ==
    /\ mode = "expr" /\ MayAddNode
    /\ UnaryOps # {}
    /\ HasTop(1, "value")
    /\ Top(1).type # I32
    /\ Reject("unary operator")

TwoValues == mode = "expr" /\ HasTop(1, "value") /\ HasTop(2, "value")
NonVoid   == Top(1).type # Void /\ Top(2).type # Void

\* The type of the result is that of the left operand, pointers included.
Binary(op) ==
    /\ TwoValues /\ NonVoid
    /\ Compute(2, op, <<Top(2).operand, Top(1).operand>>,
               IF op \in CompareOpcodes THEN I32 ELSE Top(2).type)
    /\ UNCHANGED <<unchangedByExpressions, nodes>>

\* && and ||: both operands are computed, normalised to 0 or 1 and combined.
Logical(op) ==
    /\ TwoValues /\ NonVoid
    /\ LET zero == Immediate(<<"n", 0>>)
           lhs == Temp(nextTempID)
           rhs == Temp(nextTempID + 1)
           res == Temp(nextTempID + 2)
       IN /\ Emit(<<Op("ne", lhs, <<Top(2).operand, zero>>),
                    Op("ne", rhs, <<Top(1).operand, zero>>),
                    Op(op, res, <<lhs, rhs>>)>>)
          /\ vals' = Append(Below(2), Value(res, I32))
    /\ nextTempID' = nextTempID + 3
    /\ UNCHANGED <<unchangedByExpressions, nodes>>

BadBinary ==
    /\ TwoValues /\ ~NonVoid
    /\ BinaryOps \cup LogicalOps # {}
    /\ Reject("binary operator requires non-void operands")

\* Seeded bug: the types are not compared.
AssignUnchecked ==
    /\ mode = "expr"
    /\ HasTop(1, "value") /\ HasTop(2, "address")
    /\ Top(1).type # Void
    /\ Emit(<<Op(IF Top(2).operand.kind = "slot" THEN "store" ELSE "storeInd", NoOperand,
                 <<Top(2).operand, Top(1).operand>>)>>)
    /\ vals' = Append(Below(2), Top(1))
    /\ UNCHANGED <<unchangedByExpressions, nextTempID, nodes>>

\* storeAddress; the value of the assignment is that of its right side.
Assign ==
    /\ mode = "expr"
    /\ HasTop(1, "value") /\ HasTop(2, "address")
    /\ Top(1).type = Top(2).type
    /\ Emit(<<Op(IF Top(2).operand.kind = "slot" THEN "store" ELSE "storeInd", NoOperand,
                 <<Top(2).operand, Top(1).operand>>)>>)
    /\ vals' = Append(Below(2), Top(1))
    /\ UNCHANGED <<unchangedByExpressions, nextTempID, nodes>>

BadAssign ==
    /\ mode = "expr"
    /\ HasTop(1, "value") /\ HasTop(2, "address")
    /\ Top(1).type # Top(2).type
    /\ Reject("assignment type mismatch")

\* The callee is resolved and the arguments are counted before any is lowered.
StartCall(f) ==
    /\ MayAddOperand
    /\ Push(PendingCall(f))
    /\ UNCHANGED <<unchangedByExpressions, code, nextTempID>>

BadCall ==
    /\ MayAddOperand
    /\ \/ UndeclaredFunctions # {} /\ Reject("call to undeclared function")
       \/ Functions # {} /\ Reject("wrong number of arguments")

\* Every argument is lowered.  Each is checked as soon as it is; checking all of
\* them here rejects the same calls.
ArgumentsDone ==
    /\ mode = "expr"
    /\ PendingCalls # {}
    /\ Len(Arguments) = Len(ArgumentTypes)
    /\ \A i \in DOMAIN Arguments : Arguments[i].cat = "value"

ArgumentsMatch == \A i \in DOMAIN Arguments : Arguments[i].type = ArgumentTypes[i]

FinishCall ==
    /\ ArgumentsDone
    /\ ArgumentsMatch
    /\ LET f    == vals[innermost].callee
           ret  == Signatures[f].ret
           dst  == IF ret = Void THEN NoOperand ELSE Temp(nextTempID)
           args == [i \in DOMAIN Arguments |-> Arguments[i].operand]
       IN /\ Emit(<<Call(f, dst, args)>>)
          /\ nextTempID' = nextTempID + IF ret = Void THEN 0 ELSE 1
          /\ vals' = Append(SubSeq(vals, 1, innermost - 1), Value(dst, ret))
    /\ UNCHANGED <<unchangedByExpressions, nodes>>

BadArguments ==
    /\ ArgumentsDone
    /\ ~ArgumentsMatch
    /\ Reject("argument type mismatch")

(***************************************************************************)
(* The statement around a complete expression.                             *)
(***************************************************************************)

ExpressionDone(kind) ==
    /\ mode = "expr"
    /\ Len(vals) = 1 /\ Top(1).cat = "value"
    /\ top.kind = kind

unchangedByContinuations == <<header, params, nextTempID, diagnostic, nodes>>

ExpressionStatementDone ==
    /\ ExpressionDone("expr")
    /\ vals' = <<>>
    /\ frames' = Pop
    /\ StatementDone(TRUE)
    /\ UNCHANGED <<unchangedByContinuations, code, nextLabelID, scopes>>

InitializerDone ==
    /\ ExpressionDone("decl")
    /\ IF Top(1).type # top.decl.type THEN Reject("initializer type mismatch")
       ELSE /\ Emit(<<Store(top.decl.slot, Top(1).operand)>>)
            /\ vals' = <<>>
            /\ frames' = Pop
            /\ StatementDone(TRUE)
            /\ UNCHANGED <<unchangedByContinuations, nextLabelID, scopes>>

ReturnDone ==
    /\ ExpressionDone("return")
    /\ IF Top(1).type # LowerType(header.ret) \/ Top(1).type = Void
       THEN Reject("return type mismatch")
       ELSE /\ Emit(<<Ret(Top(1).operand)>>)
            /\ vals' = <<>>
            /\ frames' = Pop
            /\ StatementDone(FALSE)
            /\ UNCHANGED <<unchangedByContinuations, nextLabelID, scopes>>

VoidCondition ==
    /\ \E kind \in {"ifCond", "whileCond", "forCond"} : ExpressionDone(kind)
    /\ Top(1).type = Void
    /\ Reject("condition cannot have void type")

\* The condition branches to a new body, which is lowered next.
EnterBody(falseLabel, bodyLabel, f) ==
    /\ Top(1).type # Void
    /\ Emit(<<Br(Top(1).operand, bodyLabel, falseLabel), Label(bodyLabel)>>)
    /\ vals' = <<>>
    /\ frames' = ReplaceTop(f)
    /\ mode' = "stmt"
    /\ UNCHANGED <<unchangedByContinuations, scopes, reachable>>

IfConditionDone ==
    /\ ExpressionDone("ifCond")
    /\ nextLabelID' = nextLabelID + 2
    /\ EnterBody(nextLabelID + 1, nextLabelID, [Frame("then") EXCEPT !.end = nextLabelID + 1])

IfElseConditionDone ==
    /\ ExpressionDone("ifCond")
    /\ nextLabelID' = nextLabelID + 3
    /\ EnterBody(nextLabelID + 2, nextLabelID,
                 [Frame("thenElse") EXCEPT !.end = nextLabelID + 1, !.alt = nextLabelID + 2])

WhileConditionDone ==
    /\ ExpressionDone("whileCond")
    /\ EnterBody(top.end, top.body, [top EXCEPT !.kind = "while", !.body = NoLabel])
    /\ UNCHANGED nextLabelID

ForConditionDone ==
    /\ ExpressionDone("forCond")
    /\ EnterBody(top.end, top.body, [top EXCEPT !.kind = "forBody", !.body = NoLabel])
    /\ UNCHANGED nextLabelID

ForPostDone ==
    /\ ExpressionDone("forPost")
    /\ Emit(<<Jmp(top.head), Label(top.end)>>)
    /\ vals' = <<>>
    /\ LeaveFor
    /\ UNCHANGED <<unchangedByContinuations, nextLabelID>>

\* Seeded bug: nothing is made of a body that can complete.
EndFunctionWithoutRet ==
    /\ mode = "after" /\ top.kind = "function"
    /\ frames' = Pop
    /\ PopScope
    /\ mode' = "lowered"
    /\ UNCHANGED <<unchangedByStatements, code, nextTempID, nextLabelID, reachable, nodes>>

(***************************************************************************)
(* The end of the function body.  Whether falling off the end is allowed   *)
(* is decided by the specifier of the return type alone.                   *)
(***************************************************************************)
EndFunction ==
    /\ mode = "after" /\ top.kind = "function"
    /\ IF reachable /\ header.ret.spec # "void"
       THEN Reject("may reach end without return")
       ELSE /\ Emit(IF reachable THEN <<Ret(NoOperand)>> ELSE <<>>)
            /\ frames' = Pop
            /\ PopScope
            /\ mode' = "lowered"
            /\ UNCHANGED <<unchangedByStatements, nextTempID, nextLabelID, reachable, nodes>>

Terminated == mode \in {"lowered", "rejected"} /\ UNCHANGED vars

Next ==
    \/ LowerParameter \/ ParametersDone
    \/ StartBlock \/ EndBlock \/ EmptyStatement
    \/ \E x \in Names, t \in DeclTypes, i \in BOOLEAN : DeclarationStatement(x, t, i)
    \/ \E x \in Names, t \in DeclTypes : BadDeclaration(x, t)
    \/ ExpressionStatement \/ ReturnStatement \/ BareReturn \/ BadBareReturn
    \/ IfStatement \/ ThenDone \/ ThenElseDone \/ ElseDone
    \/ WhileStatement \/ WhileDone
    \/ \E hasInit \in BOOLEAN : ForStatement(hasInit)
    \/ \E hasCond \in BOOLEAN : ForInitDone(hasCond)
    \/ ForBodyDoneWithPost \/ ForBodyDone
    \/ \E c \in Literals : Literal(c) \/ BadLiteral(c)
    \/ \E x \in Names : Identifier(x) \/ AddressOfIdentifier(x) \/ UndeclaredIdentifier(x)
    \/ BadTarget
    \/ Dereference \/ AddressOfDereference \/ BadDereference \/ AddressOf
    \/ \E op \in UnaryOps : Unary(op)
    \/ BadUnary
    \/ \E op \in BinaryOps : Binary(op)
    \/ \E op \in LogicalOps : Logical(op)
    \/ BadBinary
    \/ Assign \/ BadAssign
    \/ \E f \in Functions : StartCall(f)
    \/ BadCall \/ FinishCall \/ BadArguments
    \/ ExpressionStatementDone \/ InitializerDone \/ ReturnDone \/ VoidCondition
    \/ IfConditionDone \/ IfElseConditionDone \/ WhileConditionDone
    \/ ForConditionDone \/ ForPostDone
    \/ EndFunction
    \/ Terminated

Spec == Init /\ [][Next]_vars

(***************************************************************************)
(* Properties.                                                             *)
(***************************************************************************)

Modes == {"params", "after", "stmt", "expr", "lowered", "rejected"}

Slots    == [kind : {"slot"}, text : {"s"} \X Nat]
Operands == Slots \cup [kind : {"temp"}, text : {"t"} \X Nat]
              \cup [kind : {"param"}, text : Names]
              \cup [kind : {"imm"}, text : ({"n"} \X Nat) \cup ({"type"} \X Types)]
              \cup {NoOperand}
Symbols  == [type : Types, slot : Slots \cup {NoOperand}]
LabelIDs == Nat \cup {NoLabel}
FrameSet == [kind : FrameKinds, head : LabelIDs, body : LabelIDs, alt : LabelIDs,
             end : LabelIDs, flag : BOOLEAN, decl : Symbols]
Diagnostics ==
    {NoDiagnostic, "void objects", "redeclared", "non-void function must return a value",
     "may reach end without return", "invalid integer literal", "use of undeclared identifier",
     "assignment target", "cannot dereference non-pointer type",
     "cannot dereference void* without cast", "unary operator",
     "binary operator requires non-void operands", "assignment type mismatch",
     "call to undeclared function", "wrong number of arguments", "argument type mismatch",
     "initializer type mismatch", "return type mismatch", "condition cannot have void type"}
Entries  == [cat : {"value", "address", "call"}, operand : Operands, type : Types,
             callee : Functions \cup {NoCallee}]

\* Types of the state.
TypeOK ==
    /\ header \in Headers
    /\ params \in Seq(Parameters)
    /\ code \in Seq(Instructions(Operands, Nat, Functions))
    /\ nextTempID \in Nat /\ nextLabelID \in Nat /\ nodes \in Nat
    /\ scopes \in Seq([Names -> Symbols])
    /\ frames \in Seq(FrameSet)
    /\ vals \in Seq(Entries)
    /\ mode \in Modes
    /\ reachable \in BOOLEAN
    /\ diagnostic \in Diagnostics

\* Every scope pushed for a block, a for or the function is popped with it,
\* however the statement in it ended.
ScopesMatchFrames ==
    Len(scopes) = Cardinality({i \in DOMAIN frames : frames[i].kind \in ScopeKinds})

\* Code that Lower returns passes the validation Lower itself never performs
\* (it appends to the module without AddFunction), and is not empty.
LoweredIsValid == mode = "lowered" => code # <<>> /\ ValidateFunctionIR(code)

\* No instruction is emitted behind a terminator: unreachable statements are
\* dropped, and every continuation point is given a label first.
TerminatorsAreFollowedByLabels ==
    \A i \in 1..(Len(code) - 1) : IsTerminator(code[i]) => code[i + 1].kind = "label"

\* A statement is reported unable to complete only if control cannot get
\* behind it: the code ends in a return.
UnreachableMeansReturned ==
    mode = "after" /\ ~reachable => code # <<>> /\ code[Len(code)].kind = "ret"

\* Every return of a function with a value carries one, and no other does.
ReturnsMatchSignature ==
    mode = "lowered" =>
        \A i \in DOMAIN code : code[i].kind = "ret" =>
            (code[i].value = NoOperand <=> LowerType(header.ret) = Void)

\* The texts an instruction reads, and the positions that define a text.
TextsOf(operands) == {o.text : o \in {p \in operands : p.kind \in {"temp", "slot"}}}
UsedBy(i) ==
    CASE i.kind = "op"  -> TextsOf({i.operands[k] : k \in DOMAIN i.operands})
      [] i.kind = "br"  -> TextsOf({i.cond})
      [] i.kind = "ret" -> TextsOf({i.value})
      [] OTHER          -> {}
DefinitionsOf(c, text) == {i \in DOMAIN c : c[i].kind = "op" /\ c[i].dst.text = text}

\* The program counters a run can get to without executing a member of avoid.
ReachedWithout(c, avoid) ==
    LET after[n \in 0..Len(c)] ==
          IF n = 0 THEN {1}
          ELSE LET before == after[n - 1] IN
               before \cup UNION {NextPCs(c, i) : i \in (before \ avoid) \cap DOMAIN c}
    IN after[Len(c)]

\* Every temporary and every stack slot is defined on every path to its use,
\* so the evaluator never meets an unknown value.
DefinitionsDominateUses ==
    mode = "lowered" =>
        \A text \in UNION {UsedBy(code[i]) : i \in DOMAIN code} :
            \A i \in ReachedWithout(code, DefinitionsOf(code, text)) \cap DOMAIN code :
                text \notin UsedBy(code[i])

\* Lowering succeeds on a tree only with code every consumer takes: the backend
\* view, built by cfg.Build, accepts what the validator accepts.
BackendAcceptsLowered == mode = "lowered" => BuildAccepts(code)

\* A name is defined once, counting a parameter as defined on entry; so the
\* argument a parameter's slot is filled from is still the one passed.
SingleDefinition ==
    /\ \A i, j \in DOMAIN code :
          /\ code[i].kind = "op" /\ code[j].kind = "op"
          /\ code[i].dst # NoOperand
          /\ code[i].dst = code[j].dst
          => i = j
    /\ mode # "rejected" => \A i \in DOMAIN code, k \in DOMAIN header.params :
          code[i].kind = "op" => code[i].dst.text # header.params[k].name

(***************************************************************************)
(* The types a reader of the emitted code alone would infer: a slot points *)
(* to what was allocated, a load yields what its address points to, a call *)
(* what the callee returns, and an operator what its first operand is.     *)
(***************************************************************************)
DefinedAt(c, text) == CHOOSE i \in DefinitionsOf(c, text) : TRUE

ParameterType(text) ==
    LowerType((CHOOSE p \in {header.params[k] : k \in DOMAIN header.params} :
                  p.name = text).type)

ResultTypes(c) ==
    LET result[i \in {j \in DOMAIN c : c[j].kind = "op" /\ c[j].dst # NoOperand}] ==
          LET first == c[i].operands[1]
              typeOfFirst == IF first.kind = "imm" THEN I32
                             ELSE result[DefinedAt(c, first.text)]
          IN CASE c[i].opcode = "alloca" -> PointerTo(first.text[2])
               [] c[i].opcode \in CompareOpcodes \cup {"const", "lnot"} -> I32
               [] c[i].opcode \in {"load", "loadInd"} -> PointeeType(typeOfFirst)
               [] c[i].opcode = "call" -> Signatures[c[i].callee].ret
               [] OTHER -> typeOfFirst
    IN result

OperandType(c, o) ==
    CASE o.kind = "imm"   -> I32
      [] o.kind = "param" -> ParameterType(o.text)
      [] OTHER            -> ResultTypes(c)[DefinedAt(c, o.text)]

WellTyped(c, i) ==
    CASE c[i].kind = "ret" /\ c[i].value # NoOperand ->
            OperandType(c, c[i].value) = LowerType(header.ret)
      [] c[i].kind = "op" /\ c[i].opcode \in {"store", "storeInd"} ->
            OperandType(c, c[i].operands[1]) = PointerTo(OperandType(c, c[i].operands[2]))
      [] c[i].kind = "op" /\ c[i].opcode = "loadInd" ->
            IsPointerType(OperandType(c, c[i].operands[1]))
      [] c[i].kind = "op" /\ c[i].opcode = "call" ->
            /\ Len(c[i].operands) = Len(Signatures[c[i].callee].params)
            /\ \A k \in DOMAIN c[i].operands :
                  OperandType(c, c[i].operands[k]) = Signatures[c[i].callee].params[k]
      [] OTHER -> TRUE

\* The types sema checked are those of the emitted code: what is stored has
\* the type of the cell, arguments that of the parameters, results that of
\* the function.
CodeIsWellTyped == mode = "lowered" => \A i \in DOMAIN code : WellTyped(code, i)

\* Operators and conditions only ever meet integers: a pointer operand is
\* rejected here and not left to fail in the evaluator or the backend.
OperatorsTakeIntegers ==
    mode = "lowered" => \A i \in DOMAIN code :
        CASE code[i].kind = "br" -> OperandType(code, code[i].cond) = I32
          [] code[i].kind = "op" /\ code[i].opcode \in UnaryOpcodes \cup BinaryOpcodes ->
               \A k \in DOMAIN code[i].operands : OperandType(code, code[i].operands[k]) = I32
          [] OTHER -> TRUE

=============================================================================
