------------------------------ MODULE Symbols -------------------------------
(***************************************************************************)
(* Types and function signatures of internal/sema/lower.go, and the first  *)
(* half of Lower: the table of function signatures it builds from the      *)
(* prototypes and the definitions of a translation unit before it lowers   *)
(* the bodies (module Lowering).                                           *)
(***************************************************************************)
EXTENDS Naturals, SequencesExt

(***************************************************************************)
(* Types.  A source type is a specifier and a pointer depth, a lowered     *)
(* type a base and a depth; char lowers to i32.                            *)
(***************************************************************************)

SourceTypes == [spec : {"int", "char", "void"}, depth : Nat]
Types       == [base : {"i32", "void"}, depth : Nat]

I32  == [base |-> "i32", depth |-> 0]
Void == [base |-> "void", depth |-> 0]

LowerType(t) == [base |-> IF t.spec = "void" THEN "void" ELSE "i32", depth |-> t.depth]

IsPointerType(t) == t.depth > 0
PointeeType(t)   == [t EXCEPT !.depth = @ - 1]
PointerTo(t)     == [t EXCEPT !.depth = @ + 1]

(***************************************************************************)
(* Signatures.  A prototype or a definition is [name, ret, params], a      *)
(* parameter [name, type].                                                 *)
(***************************************************************************)

\* signatureForFunction returns an error: a void parameter, or a name twice.
HasSignature(f) ==
    /\ \A k \in DOMAIN f.params : LowerType(f.params[k].type) # Void
    /\ \A j, k \in DOMAIN f.params : f.params[j].name = f.params[k].name => j = k

SignatureForFunction(f) ==
    [ret    |-> LowerType(f.ret),
     params |-> [k \in DOMAIN f.params |-> LowerType(f.params[k].type)]]

(***************************************************************************)
(* The two loops of Lower over the maps prototypes and definitions.  The   *)
(* first error ends both.                                                  *)
(***************************************************************************)

EmptyTable == [prototypes |-> <<>>, definitions |-> <<>>, ok |-> TRUE]
Conflict(table) == [table EXCEPT !.ok = FALSE]

Has(map, name)         == name \in DOMAIN map
With(map, name, value) == [n \in DOMAIN map \cup {name} |->
                               IF n = name THEN value ELSE map[n]]

\* A repeated prototype is dropped, if it says the same.
AddPrototype(table, f) ==
    LET sig == SignatureForFunction(f) IN
    CASE ~table.ok -> table
      [] table.ok /\ ~HasSignature(f) -> Conflict(table)
      [] table.ok /\ HasSignature(f) /\ Has(table.prototypes, f.name) ->
            IF table.prototypes[f.name] = sig THEN table ELSE Conflict(table)
      [] OTHER -> [table EXCEPT !.prototypes = With(@, f.name, sig)]

\* Seeded bug: a definition hides the prototype of its name.
AddDefinitionHidingPrototype(table, f) ==
    IF ~table.ok \/ ~HasSignature(f) \/ Has(table.definitions, f.name)
    THEN Conflict(table)
    ELSE [table EXCEPT !.definitions = With(@, f.name, SignatureForFunction(f))]

\* A second definition is an error whatever it says.
AddDefinition(table, f) ==
    LET sig == SignatureForFunction(f)
        agrees == Has(table.prototypes, f.name) => table.prototypes[f.name] = sig
    IN  IF ~table.ok \/ ~HasSignature(f) \/ Has(table.definitions, f.name) \/ ~agrees
        THEN Conflict(table)
        ELSE [table EXCEPT !.definitions = With(@, f.name, sig)]

\* Lower, up to the bodies: the map functions, and whether it got that far.
FunctionTable(prototypes, definitions) ==
    LET declared == FoldLeft(AddPrototype, EmptyTable, prototypes)
        table    == FoldLeft(AddDefinition, declared, definitions)
    IN  [ok |-> table.ok,
         functions |->
            [n \in DOMAIN table.prototypes \cup DOMAIN table.definitions |->
                IF Has(table.definitions, n) THEN table.definitions[n]
                                             ELSE table.prototypes[n]]]

=============================================================================
