\* The operands of &&.
CONSTANTS
    Names <- MCNames
    Functions = {"f"}
    Signatures <- MCSignatures
    UndeclaredFunctions = {}
    Headers <- MCHeaders
    DeclTypes <- MCInt
    Literals = {1}
    MaxInt = 7
    UnaryOps = {}
    BinaryOps = {}
    LogicalOps = {"and"}
    SubstatementDecls = FALSE
    MaxNodes = 4
    Self = "f"
    ArgumentLists <- MCArguments
    StepLimit = 12
    MaxCallDepth = 2
    Width = 4
    ByteWidth = 4
SPECIFICATION CompileRunSpec
INVARIANT RightOperandIsLazy
