\* A for statement whose body returns.
CONSTANTS
    Names = {}
    Functions = {}
    Signatures <- MCNoSignatures
    UndeclaredFunctions = {}
    Headers <- MCControlHeaders
    DeclTypes <- MCInt
    Literals = {1}
    MaxInt = 127
    UnaryOps = {}
    BinaryOps = {}
    LogicalOps = {}
    SubstatementDecls = FALSE
    MaxNodes = 5
SPECIFICATION Spec
INVARIANT BackendAcceptsLowered
