\* Statements: every nesting of five statements, declarations and operands.
CONSTANTS
    Names <- MCNamesX
    Functions = {}
    Signatures <- MCNoSignatures
    UndeclaredFunctions = {}
    Headers <- MCControlHeaders
    DeclTypes <- MCInt
    Literals = {1}
    MaxInt = 127
    UnaryOps = {}
    BinaryOps = {}
    LogicalOps = {}
    SubstatementDecls = FALSE
    MaxNodes = 5
SPECIFICATION Spec
INVARIANT LoweredIsValid
INVARIANT TerminatorsAreFollowedByLabels
INVARIANT UnreachableMeansReturned
INVARIANT ReturnsMatchSignature
INVARIANT ScopesMatchFrames
INVARIANT DefinitionsDominateUses
