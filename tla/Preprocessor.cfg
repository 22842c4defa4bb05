\* All files of three lines, read by Next and by Peek in every order.
CONSTANTS
    Files <- MCFiles
    Identifiers <- MCIdentifiers
SPECIFICATION FairSpec
INVARIANT LookaheadLosesNothing
INVARIANT BodiesAreOneLine
INVARIANT TameFilesPreprocessed
PROPERTY CallsReturn
CHECK_DEADLOCK FALSE
