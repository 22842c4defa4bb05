---------------------------- MODULE MCIRBuilder ----------------------------
(***************************************************************************)
(* Bounded instance of IRBuilder: two labels and one numeral as operand.   *)
(* A function handed to a module is also written and read back.            *)
(***************************************************************************)
EXTENDS IRBuilder, TacText

MCLabels == {0, 1}
MCValues == {Immediate(<<"n", 1>>)}

Named(name) == [name |-> name, params |-> <<>>, ret |-> "i32", code |-> code]
Modules     == {<<Named("f"), Named("g")>>, <<Named("f"), Named("f")>>}

NamesUnique(m) == \A j, k \in DOMAIN m : m[j].name = m[k].name => j = k

\* The reader accepts the text of exactly the modules whose functions
\* Module.AddFunction accepts and whose names differ, and reads them back; and
\* a text with one line lost is refused or is the text of what is read: no line
\* is skipped, merged or taken for another one.
TextIsExact ==
    lastCall.name = "AddFunction" => \A m \in Modules : Writable(m) =>
        LET text == WriteModule(m) IN
        /\ Accepted(text) <=> lastCall.ok /\ NamesUnique(m)
        /\ Accepted(text) => ReadModule(text).functions = m
        /\ \A k \in DOMAIN text : Accepted(RemoveAt(text, k)) =>
              LET read == WriteModule(ReadModule(RemoveAt(text, k)).functions)
                  lines(t) == SelectSeq(t, LAMBDA line : line # BlankLine)
              IN  lines(read) = lines(RemoveAt(text, k))

=============================================================================
