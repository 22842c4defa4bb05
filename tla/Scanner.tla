------------------------------ MODULE Scanner -------------------------------
(***************************************************************************)
(* lexer/scanner.go: the bytes of a reader behind a buffer.  The reader is *)
(* the environment: a call of Read returns any number of the next bytes    *)
(* that fits the buffer, and may return an error with them.                *)
(*                                                                         *)
(* The operators are the calls of the scanner; the module that makes them  *)
(* says when.  A call that returns an error leaves it in failure until the *)
(* caller has seen it.  The reader returns a byte or an error: io.Reader   *)
(* discourages returning neither.                                          *)
(***************************************************************************)
EXTENDS Naturals, Sequences, FiniteSetsExt

CONSTANT BufferSize     \* buffSize

ASSUME BufferAssumption == BufferSize \in Nat \ {0}

NewLine == "\n"
NoError == "none"
EOF     == "EOF"
Fault   == "fault"
Errors  == {EOF, Fault}

VARIABLES
    text,           \* all bytes of the file
    fed,            \* the number of bytes Read has returned
    buff,           \* buff[:max], the bytes of the last successful Read
    pos,            \* the number of them that were taken
    err,            \* the error stored by fillBuffer
    line, column,
    failure         \* the error the last call returned

scannerVars == <<text, fed, buff, pos, err, line, column, failure>>

ScannerInit ==
    /\ fed = 0 /\ buff = <<>> /\ pos = 0
    /\ err = NoError /\ failure = NoError
    /\ line = 1 /\ column = 1

remaining == Len(buff) - pos

\* What a call of Read may return: a number of bytes and an error.
ReadResults ==
    {r \in (0..BufferSize) \X (Errors \cup {NoError}) :
        /\ fed + r[1] <= Len(text)
        /\ r[2] = EOF => fed + r[1] = Len(text)
        /\ r # <<0, NoError>>}

\* Seeded bug: a stored error is taken for the end of the file.
ReturnStoredEnd ==
    /\ err # NoError
    /\ failure' = EOF
    /\ err' = NoError
    /\ UNCHANGED <<text, fed, buff, pos, line, column>>

\* A stored error is returned before Read is called again.
ReturnStoredError ==
    /\ err # NoError
    /\ failure' = err
    /\ err' = NoError
    /\ UNCHANGED <<text, fed, buff, pos, line, column>>

\* Seeded bug: bytes that come with an error are dropped.
ReadReaderDroppingBytes ==
    /\ err = NoError
    /\ \E r \in ReadResults :
        /\ fed' = fed + r[1]
        /\ IF r[2] # NoError
           THEN failure' = r[2] /\ UNCHANGED <<buff, pos>>
           ELSE buff' = SubSeq(text, fed + 1, fed + r[1]) /\ pos' = 0 /\ failure' = NoError
    /\ UNCHANGED <<text, err, line, column>>

\* An error that comes with bytes is stored.
ReadReader ==
    /\ err = NoError
    /\ \E r \in ReadResults :
        IF r[1] = 0 /\ r[2] # NoError
        THEN failure' = r[2] /\ UNCHANGED <<fed, buff, pos, err>>
        ELSE /\ buff' = SubSeq(text, fed + 1, fed + r[1])
             /\ fed' = fed + r[1]
             /\ pos' = 0
             /\ err' = r[2]
             /\ failure' = NoError
    /\ UNCHANGED <<text, line, column>>

FillBuffer == ReturnStoredError \/ ReadReader

\* The caller goes on without taking a byte.
Keep == failure' = NoError /\ UNCHANGED <<text, fed, buff, pos, err, line, column>>

\* n bytes leave the buffer; popOneFromBuffer for n = 1, advanceLineColumn
\* for the bytes of a class.
Pop(n) ==
    LET breaks == {i \in 1..n : buff[pos + i] = NewLine}
    IN  /\ pos' = pos + n
        /\ line' = line + Cardinality(breaks)
        /\ column' = IF breaks = {} THEN column + n ELSE n + 1 - Max(breaks)
        /\ failure' = NoError
        /\ UNCHANGED <<text, fed, buff, err>>

\* Seeded bug: nothing read is taken for a continued token.
IsPartialOrNothing(n) == n = remaining

\* readBytesInClass: how many bytes of the buffer it takes, and whether they
\* are all that is left.
InClass(cls) ==
    Max({n \in 0..remaining : \A i \in 1..n : buff[pos + i] \in cls})
IsPartial(n) == n > 0 /\ n = remaining

=============================================================================
