\* The programs of the tests, every operator on every pair of words, every fault.
CONSTANTS
    Modules <- MCModules
    Mains <- MCMains
    ArgumentLists <- MCArguments
    StepLimit = 170
    MaxCallDepth = 6
    Width = 4
    ByteWidth = 3
SPECIFICATION FairSpec
INVARIANT TypeOK
INVARIANT LimitsHold
INVARIANT ControlStaysInside
INVARIANT CallersWaitAtCalls
INVARIANT ProgramsComputeTheirFunction
INVARIANT OperatorsAreWordOperators
PROPERTY CallersUntouched
PROPERTY Terminates
