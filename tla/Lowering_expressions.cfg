\* Expressions: pointers, assignments, operators, calls.
CONSTANTS
    Names <- MCNamesX
    Functions = {"f", "g"}
    Signatures <- MCSignatures
    UndeclaredFunctions = {"h"}
    Headers <- MCExprHeaders
    DeclTypes <- MCInt
    Literals = {1, 128}
    MaxInt = 127
    UnaryOps = {"neg", "plus"}
    BinaryOps = {"lt"}
    LogicalOps = {"and"}
    SubstatementDecls = FALSE
    MaxNodes = 5
SPECIFICATION Spec
INVARIANT TypeOK
INVARIANT CodeIsWellTyped
INVARIANT SingleDefinition
INVARIANT LoweredReadsBack
INVARIANT SignaturesAreDeclared
