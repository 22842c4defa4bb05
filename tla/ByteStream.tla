----------------------------- MODULE ByteStream -----------------------------
(***************************************************************************)
(* What the scanner promises to the tokenizer: the bytes of a text, in     *)
(* order and each once, the line and the column of the next one, and an    *)
(* error of the reader only behind the bytes that came before it.  How the *)
(* reader cuts the text into pieces is not part of the promise.            *)
(***************************************************************************)
EXTENDS Naturals, Sequences, FiniteSetsExt

CONSTANTS
    NewLine,    \* the byte that ends a line
    NoError,    \* the absence of an error
    EOF,        \* io.EOF
    Errors      \* the errors a reader can return, EOF among them

VARIABLES
    text,       \* the bytes the reader will return
    given,      \* how many the reader has returned
    taken,      \* how many were taken out of the stream
    line, column,   \* of the next byte, counted from 1
    reported    \* the error of the last call, or NoError

vars == <<text, given, taken, line, column, reported>>

LineBreaks(n) == {i \in 1..n : text[i] = NewLine}
LineAt(n)     == Cardinality(LineBreaks(n)) + 1
ColumnAt(n)   == n + 1 - Max(LineBreaks(n) \cup {0})

Init ==
    /\ given = 0 /\ taken = 0
    /\ line = 1 /\ column = 1
    /\ reported = NoError

\* The reader returns more bytes.
Give ==
    /\ given' \in given..Len(text)
    /\ reported' = NoError
    /\ UNCHANGED <<text, taken, line, column>>

\* Some of the returned bytes are taken.
Take ==
    /\ taken' \in taken..given
    /\ line' = LineAt(taken')
    /\ column' = ColumnAt(taken')
    /\ reported' = NoError
    /\ UNCHANGED <<text, given>>

\* An error reaches the caller: no returned byte is left, and the end of the
\* input is the end of the text.
Report ==
    /\ taken = given
    /\ reported' \in Errors
    /\ reported' = EOF => given = Len(text)
    /\ UNCHANGED <<text, given, taken, line, column>>

Next == Give \/ Take \/ Report

Spec == Init /\ [][Next]_vars

=============================================================================
