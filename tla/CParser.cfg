\* Texts of every construct, right and wrong ones, and lexical errors anywhere.
CONSTANT Files <- MCFiles
SPECIFICATION FairSpec
INVARIANT AcceptsTheLanguage
INVARIANT UnsupportedReportedOnce
INVARIANT FatalLexerErrorWins
PROPERTY Terminates
CHECK_DEADLOCK FALSE
