\* Every function of up to four instructions over two labels.
CONSTANTS
    Labels <- MCLabels
    Values <- MCValues
    ClientOpcodes = {"copy", "alloca"}
    Callees = {"f"}
    MaxInstructions = 4
    MaxFunctions = 1
SPECIFICATION Spec
INVARIANT TypeOK
INVARIANT ValidatorIsExact
INVARIANT GraphIsControlFlow
INVARIANT OnlyEmptyFunctionsLackRet
INVARIANT DestinationsUnique
INVARIANT SetBlockNeverSucceeds
INVARIANT TextIsExact
CHECK_DEADLOCK FALSE
