\* Short texts of every class of token, read in every way, with failing reads.
CONSTANTS
    Texts <- MCTexts
    BufferSize = 3
SPECIFICATION FairSpec
INVARIANT TokensIgnoreChunking
PROPERTY ScannerIsStream
PROPERTY FaultsSurface
PROPERTY Terminates
CHECK_DEADLOCK FALSE
