\* int f(int x): every body of five nodes, compiled and run.
CONSTANTS
    Names <- MCNames
    Functions = {"f"}
    Signatures <- MCSignatures
    UndeclaredFunctions = {}
    Headers <- MCHeaders
    DeclTypes <- MCIntPtr
    Literals = {1}
    MaxInt = 7
    UnaryOps = {"neg"}
    BinaryOps = {"div"}
    LogicalOps = {}
    SubstatementDecls = FALSE
    MaxNodes = 5
    Self = "f"
    ArgumentLists <- MCArguments
    StepLimit = 25
    MaxCallDepth = 2
    Width = 4
    ByteWidth = 4
SPECIFICATION CompileRunSpec
INVARIANT AcceptedProgramsRun
INVARIANT CellsHoldTheirType
