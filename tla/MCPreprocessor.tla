--------------------------- MODULE MCPreprocessor ---------------------------
(***************************************************************************)
(* Files of up to three lines for the preprocessor, and what a C           *)
(* preprocessor makes of their #define lines.                              *)
(***************************************************************************)
EXTENDS Preprocessor, SequencesExt

MCIdentifiers == {"define", "A", "B", "x"}

Lines == {<<>>, <<"1">>, <<"x">>, <<"A">>, <<"x", "A">>, <<"A", "x", "B">>, <<"..">>, <<"A", "B", "..">>,
          <<"#", "define", "A">>, <<"#", "define", "A", "1">>, <<"#", "define", "A", "x", "1">>,
          <<"#", "define", "B", "A">>, <<"#", "define", "B", "1">>, <<"#", "define", "1">>,
          <<"#", "define">>, <<"#", "x">>, <<"#">>, <<"x", "#", "define", "B", "1">>,
          <<"#", "#", "x">>}
CommentLines == {<<>>, <<"x">>, <<"A">>, <<"#", "define", "A", "1">>, <<"#", "define", "B", "A">>,
                 <<"#", "define", "B">>, <<"#", "x">>}
FilesOf(words, comments, n) ==
    [1..n -> {[words |-> w, comment |-> c] : w \in words, c \in comments}]

PlainFiles == FilesOf(Lines, {FALSE}, 2)
MCFiles    == FilesOf(Lines, {FALSE}, 3) \cup FilesOf(CommentLines, {FALSE, TRUE}, 3)

-----------------------------------------------------------------------------
\* The reference: one line after the other, up to the first error.

IsDirective(words) == words # <<>> /\ words[1] = "#"
IsDefine(words) ==
    /\ Len(words) >= 3
    /\ SubSeq(words, 1, 2) = <<"#", "define">>
    /\ words[3] \in Identifiers
    /\ \A i \in 4..Len(words) : words[i] \notin {"#", ".."}

PutWord(acc, w) ==
    CASE acc.failed               -> acc
      [] w \in {"#", ".."}        -> [acc EXCEPT !.failed = TRUE, !.words = Append(@, "error")]
      [] w \in DOMAIN acc.defined -> [acc EXCEPT !.words = @ \o acc.defined[w]]
      [] OTHER                    -> [acc EXCEPT !.words = Append(@, w)]

PutLine(acc, line) ==
    IF acc.failed \/ ~IsDirective(line.words) THEN FoldLeft(PutWord, acc, line.words)
    ELSE IF ~IsDefine(line.words)
    THEN [acc EXCEPT !.failed = TRUE, !.words = Append(@, "error")]
    ELSE LET name == line.words[3]
             body == SubSeq(line.words, 4, Len(line.words))
         IN  [acc EXCEPT !.defined = [w \in DOMAIN @ \cup {name} |-> IF w = name THEN body ELSE @[w]]]

Preprocessed(f) ==
    LET acc == FoldLeft(PutLine, [defined |-> <<>>, words |-> <<>>, failed |-> FALSE], f)
    IN  IF acc.failed THEN acc.words ELSE Append(acc.words, "EOF")

PreprocessedFile == [f \in Files |-> Preprocessed(f)]

\* The words of the results up to the first error.
Delivered ==
    LET stops == {i \in DOMAIN results : ~IsToken(results[i])}
        last  == IF stops = {} THEN Len(results) ELSE CHOOSE i \in stops : \A j \in stops : i <= j
    IN  [i \in 1..last |-> results[i].word]

-----------------------------------------------------------------------------
\* The files on which the two agree.

Directives(f) == {r \in DOMAIN f : IsDirective(f[r].words)}
Defines(f)    == {r \in DOMAIN f : IsDefine(f[r].words)}
Macros(f)     == {f[r].words[3] : r \in Defines(f)}

\* Every name is defined once, and is used in no directive.
DefinedOnce(f) ==
    /\ \A r, s \in Defines(f) : f[r].words[3] = f[s].words[3] => r = s
    /\ \A r \in Directives(f) : \A i \in DOMAIN f[r].words :
           f[r].words[i] \in Macros(f) => r \in Defines(f) /\ i = 3

\* The first line of text behind a directive begins with no macro.
TextIsPlain(f) ==
    \A r \in Directives(f), s \in DOMAIN f :
        /\ r < s /\ f[s].words # <<>> /\ s \notin Directives(f)
        /\ \A q \in r..(s - 1) : f[q].words = <<>> \/ q \in Directives(f)
        => f[s].words[1] \notin Macros(f)

\* White space follows the comment of a directive, and one before a directive.
CommentsAreApart(f) ==
    \A r \in DOMAIN f :
        f[r].comment /\ f[r].words # <<>> =>
            \/ r = Len(f)
            \/ f[r + 1].words = <<>> /\ ~f[r + 1].comment
            \/ f[r + 1].words # <<>> /\ {r, r + 1} \cap Directives(f) = {}

\* A directive that its line cuts short is followed by text.
DirectivesAreWhole(f) ==
    \A r \in Directives(f) \ Defines(f) :
        f[r].words = <<"#", "x">> \/ f[r].words = <<"#", "define", "1">>
            \/ \E s \in DOMAIN f \ Directives(f) : s > r /\ f[s].words # <<>> /\ f[s].words[1] \notin Macros(f)

Tame(f) == DefinedOnce(f) /\ TextIsPlain(f) /\ CommentsAreApart(f) /\ DirectivesAreWhole(f)
TameFiles == {f \in Files : Tame(f)}

\* Of a file without the known pitfalls the caller gets the tokens of a C
\* preprocessor, with every macro replaced by its body from the line behind its
\* #define on, and an error where one is due, however #define lines, blank lines
\* and comments follow each other (handleDirective, handleDefineName,
\* handleSubstitution, lastSeenLine).
TameFilesPreprocessed ==
    file \in TameFiles =>
        /\ IsPrefix(Delivered, PreprocessedFile[file])
        /\ Ended => Delivered = PreprocessedFile[file]

\* #define NAME value replaces the name from the next line on
\* (docs/language-v0.md:12, constants that use no other macro).
DefinesConstants ==
    /\ Ended /\ DefinedOnce(file)
    /\ \A r \in Directives(file) : r \in Defines(file) /\ Len(file[r].words) = 4
    => Delivered = PreprocessedFile[file]

=============================================================================
