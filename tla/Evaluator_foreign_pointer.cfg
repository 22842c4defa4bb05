\* The address of a local passed to another function.
CONSTANTS
    Modules <- Pointers
    Mains <- MCMainOnly
    ArgumentLists <- MCNoArguments
    StepLimit = 20
    MaxCallDepth = 3
    Width = 4
    ByteWidth = 3
SPECIFICATION FairSpec
PROPERTY ForeignAccessFails
