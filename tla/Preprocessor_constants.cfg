\* Files of two lines without comments: a #define and its use.
CONSTANTS
    Files <- PlainFiles
    Identifiers <- MCIdentifiers
SPECIFICATION Spec
INVARIANT DefinesConstants
CHECK_DEADLOCK FALSE
