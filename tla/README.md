# Formal models of wihajster

TLA+ specifications, TLC model checking and TLAPS proofs for the wihajster C
compiler: its front end from the bytes of a file to the syntax tree, the lowering
of C to three-address code (TAC), the code itself with its validator and its text
format, and the evaluator that runs it.

The program is sequential: no goroutines, no network, nothing persisted. What is
hard about it is the number of trees, call orders and programs that must all
come out right, and the agreement between parts that each have their own idea
of the same code: the lowering that emits it, the validator that accepts it, the
graph builder that cuts it into blocks, the evaluator that follows it.

## The system

| Part | Source | State | Operations | Correct when |
|---|---|---|---|---|
| Scanner | `internal/lexer/scanner.go` | buffer, position, stored error, line and column | refill, peek, read, read a class | bytes come in order, once, whatever the reader's chunks; an error follows the last byte |
| Tokenizer | `internal/lexer/tokenizer*.go` | shared one-byte buffers | one function per token kind | a token does not depend on where a buffer ends |
| Preprocessor, lexer | `internal/lexer/preprocesor*.go`, `lexer.go` | ready tokens, macros, last line seen, one token of lookahead | next, directives, substitution | a `#define` ends with its line, unless a comment is behind it; a macro stands for its body |
| C parser | `internal/parser/parser.go` | lookahead, diagnostics, fatal error | recursive descent, resynchronisation | it ends, and every error is reported |
| Lowering | `internal/sema/lower.go` | instructions, counters, scopes, reachability | one case per statement and expression | what it accepts is valid, well typed, defined before use |
| TAC and validator | `internal/tac/types.go`, `validate.go` | none | verify an instruction, validate a function | exactly the functions that cannot be run off their end are accepted |
| IR builder | `internal/tac/builder.go` | instructions, counter, module | the `Add...` operations, `SetBlock`, `AddFunction` | fresh destinations, only valid functions in a module |
| CFG builder, backend view | `internal/tac/cfg`, `internal/backend` | blocks and edges | `Build`, `BuildFunctionView` | the edges are the control flow |
| Evaluator | `internal/tac/evaluator.go` | call stack, values and memory per call, step count | `EvaluateFunction`, one case per instruction | limits hold, calls nest, faults are reported |
| TAC text | `internal/tac/parser.go`, `writer.go` | line number | read and write a module | what is written reads back |
| Command line | `main.go` | none | open, parse, lower, write | (straight-line I/O) |

Bytes flow from the scanner to the parser by calls (`Peek`, `Next`), the syntax
tree goes to `sema.Lower`, which calls the builder operations and returns a
module; the module goes to the text writer, to `cfg.Build` through the backend
view, or to the evaluator. The only callbacks are the token build functions of
the tokenizer. The hard behaviours, each at its line, are the hazards of
`PROJECT.json`.

## Modules

| Module | Models | |
|---|---|---|
| `ByteStream` | what the scanner promises | abstract specification |
| `Scanner` | `lexer/scanner.go` | the calls of the scanner, over a reader that is the environment |
| `Tokenizer` | `lexer/tokenizer*.go` above `Scanner` | one step per place that may wait for a byte |
| `Preprocessor` | `lexer/preprocesor*.go`, `lexer.go` | a stack of the functions that wait for a token |
| `CParser` | `parser/parser.go` | a pushdown of goals over token classes |
| `Symbols` | types and the signature table of `Lower` | operators only |
| `Lowering` | `lowerFunction` and below | one step per node of the tree |
| `TacIR` | instructions, `VerifyInstruction`, `ValidateFunctionIR`, `cfg.Build` | operators only |
| `TacText` | `tac/writer.go`, `tac/parser.go` | operators only |
| `IRBuilder` | `tac/builder.go` | a client calls the operations in any order |
| `Evaluator` | `tac/evaluator.go` | one step per instruction |
| `CompileRun` | `Lowering` followed by `Evaluator` | composition by `INSTANCE` |
| `MC...` | bounded instances of these for TLC, with their references | |
| `...Proofs` | theorems | |

Each front-end module takes the output of the one before it as an input of its
own, chosen freely: `Preprocessor` works on words where `Tokenizer` makes tokens,
`CParser` on token classes, `Lowering` on trees. So every module is checked
against more inputs than the module before it can make.

**Scanner and Tokenizer.** A call of `Read` returns any number of the next bytes
that fits the buffer, and possibly `EOF` or a fault with them; it returns a byte
or an error, never neither. `fn` is the place in `lex` that waits for a byte.
Where the Go code recurses (`lexIdentifier` continuing itself behind a refill, a
comment calling `lex`), the place is entered again. The run-of-bytes read
(`readBytesInClass`) and the single-byte reads share `Pop`, and differ in how
they advance the column, as in the code. Upper-case letters are left out.

**ByteStream.** A text, how much of it the reader has returned, how much was
taken, and the line and column of the next byte, defined from the text. It has
three actions: bytes are given, bytes are taken, an error is reported behind all
bytes that came before it. `Tokenizer` refines it (`ScannerIsStream`) with
`given <- fed` and `taken <- fed - remaining`.

**Preprocessor.** `next` calls itself through `nextPPToken` while a directive is
read, so its callers are the stack `frames`: a directive that waits for its name,
a `#define` that waits for the macro's name, one that collects the body. Keywords
are words that are no identifiers. A comment delays the beginning of the call of
`lex` to the line it stands on (`begun`), because `lexCommentSingleLine` calls
`lex` within the same token. A token has the line that the code records, which
behind a comment is the comment's, and next to it the line its word stands in
(`at`); no action reads `at`, the property about bodies does. `Peek` and `Next`
may be called in any order.

**CParser.** A function that has read a token replaces its goal by the goals of
what it will call, so the stack is the Go stack read from the top; returning
false unwinds it to the block that resynchronises, or to the top level. A token
the lexer refuses reads once as the end of the file and sets `fatal`. There is
one identifier, a number, and one operator for each of the ten precedences of
`infixPrecedence`, of which `-`, `*` and `&` are prefix operators too; `out` is
the tree in postfix order.

**Symbols, Lowering.** The Go code recurses over a tree that already exists. The
model keeps the recursion as a stack of frames (one per statement being lowered,
with the labels it still has to place) and a stack of operands, and chooses the
next node when it gets to it, so that one behaviour is one tree and TLC visits
all trees up to `MaxNodes` nodes. When the bound is reached, open expressions are
completed with literals and open statements with empty ones, so every tree begun
can be finished. `mode` says what comes next: `params`, `stmt` (a sub-statement
is needed), `expr`, `after` (a statement was lowered, `reachable` is what
lowerStatement returned), `lowered`, `rejected`. A diagnostic abandons the
function, as in the code, and is kept only as its kind. Where `lowerExpr` meets
`&` or the left side of `=` it calls `lowerAddress`; here the operand is lowered
as an address and consumed by `AddressOf` or `Assign`. Literals are their values;
character literals behave as integers and are not distinguished.
`SubstatementDecls` says whether a declaration may be the body of an `if`,
`while` or `for`. In C it may not; the parser accepts it.

**TacIR.** A function body is a sequence of instruction records. A value is
named by its text, the string the Go maps are keyed with, as a tagged tuple:
`<<"t", 3>>` for `%t3`, `<<"s", 1>>` for `%s1`, `<<"v", "a">>` for `%a`,
`<<"n", 5>>` for a numeral. Indices start at 1. `BlockStarts` and `Leaders` are
kept apart because the two Go analyses differ: the validator starts a block
after a `ret`, the graph builder does not. `NextPCs`, which follows evalCall and
knows no blocks, is what both are compared with. Labels are integers, and
`NoLabel` is the empty string that `VerifyInstruction` refuses.

**TacText.** A text is a sequence of lines, a line an instruction without the
kinds of its operands: the writer does not write them and the reader infers them
from the spelling and the opcode. `ReadModule` is a fold over the lines.

**IRBuilder.** The client may append anything the interface lets it append,
and call `SetBlock` and `AddFunction` at any time, several times.

**Evaluator.** The recursion of `evalCall` is the stack `frames`. A frame has
the program counter, the map of values, the memory and the next address. Memory
holds initialised cells only, since a load treats an allocated cell without a
value and a cell never allocated alike. A pointer is a cell number, as in the
code; its `owner` is never read by an action and only serves the properties. A
word has `Width` bits.

**CompileRun.** `Lowering` runs to `lowered`, then the function is evaluated, in
a module that holds it alone. `SingleIntegerFunction` says which programs that is
meant for: integers in, an integer out, one name to call.

Operators with a comment that begins "Seeded bug" are variants of the definition
that follows them, wrong on purpose. No specification uses them. For each
property of each passing run, `PROJECT.json` names a variant that violates it.

## What the runs show

Deadlock is checked except where the system stops by itself: the client of
`IRBuilder` may stop, the lexer stops at an error, the parser at its result.

| Run | Instance | Shows |
|---|---|---|
| `Tokenizer` | texts of up to five bytes over small alphabets, one for each class of token; buffer of 3 bytes; reads of 0 to 3 bytes with or without `EOF` or a fault | tokens, their places and refusals are those of a longest-match reference, whatever the pieces; the scanner is the byte stream; a fault of the reader surfaces; `lex` ends |
| `Preprocessor` | all files of three lines from 19 lines without comments, or 14 with and without | Peek and Next lose and repeat nothing; the words of a macro's body stand in one line unless comments end all lines between them; files without a known pitfall come out as from a C preprocessor; every call returns |
| `CParser` | token sequences of up to about ten tokens for each construct, in and out of the language, with refused tokens at every place | what is accepted, and which tree, is what a grammar over spans says; an unsupported construct is reported once, and nothing else is, in the places described below; a refused token wins; the parser ends |
| `IRBuilder` | 4 instructions, 2 labels, 2 opcodes, one module entry | types; the validator accepts exactly the well-formed functions; a graph that is built is the control flow; of a module's functions only the empty one, which `AddFunction` accepts, can be left without a `ret`; destinations are unique; `SetBlock` fails on every call; a text reads back exactly, and one that lost a line as nothing else |
| `Lowering_statements` | `int f()` and `void f()`, one name, 5 nodes | what is returned validates and is not empty; no instruction follows a terminator without a label; a statement said not to complete ends in a `ret`; returns agree with the return type; scopes are popped on every path; definitions dominate uses |
| `Lowering_expressions` | `int f(int *x)`, two callees, 5 nodes | types; the emitted code alone has the types sema computed; each name is defined once; the code is written and read back as it is; the signature table is that of the declarations, in any order |
| `Evaluator` | 44 modules, 4-bit words, 170 steps, 6 calls | limits; the program counter stays inside; callers wait at their calls and are not disturbed; factorial, Fibonacci and maximum are computed; every operator has its mathematical value on every pair of words, comparisons and negative shift amounts included, and fails only when it divides by zero; every evaluation ends |
| `CompileRun_integers` | `int f(int x)`, 5 nodes, recursion to depth 2 | an accepted function with integer operands stops for no reason but its own division, uninitialised variable or non-termination; cells hold the type they were allocated for |

The bounds. A buffer of three bytes is shorter than most texts of the instance,
so a refill falls at every place of every token, also twice in one. Three lines
are a directive, a second one or a blank line or a comment, and a use. The
sequences for the parser hold each construct with its neighbours and what may
come wrongly in its place, and any three binary operators in a row, so every two
precedences meet in both orders. For recovery they hold 22 broken expressions in
each statement that has one, every unsupported statement and declaration, and
sound and broken ones in rows, blocks and branches. Five nodes are enough for each statement to contain
each other and for a declaration, its scope's end and a use to interact; every
action and every diagnostic occurs. Four instructions are enough for a branch,
both its labels and what follows a terminator. Four-bit words have all the edges
of 32-bit ones: the smallest value divided by -1, shifts by the width and more,
negative shift amounts. 170 steps let the Fibonacci loop finish for every
argument used and stop the endless ones; six calls let the factorial finish or
overflow the depth.

The references. `MCTokenizer` says what a lexeme is and takes the longest one at
each place; it knows no buffer. `MCPreprocessor` goes through a file line by line
and knows no lookahead and no stack. `MCParser` states a grammar over spans of
tokens, with the operators of C on a ladder of its own; it knows neither order nor
lookahead. Where the code is known to differ from C, the reference follows the
code (an assignment may have any expression on its left), or the input is listed:
`ContinuedTexts` in `MCTokenizer` are those whose comments the documented
continuation would carry into the next line, for which `TokensIgnoreChunking`
says what the code does instead, and `MCPreprocessor` excludes what is not `Tame`.

What is reported once. `UnsupportedReportedOnce` speaks of the constructs where
the parser looks for them: a `?`, a comma or a compound assignment behind a whole
expression, a `?` behind an argument, a prefix `++`, a cast, an unsupported
statement, declarator or type. Behind the construct the statement has no brace,
no further semicolon (so in a `for` it is the last of the three clauses) and no
`else`, since recovery stops at the first semicolon or closing brace; a broken
declaration has no supported type behind the construct, where recovery at the
top level stops, and no declaration of an unsupported type comes next.

Fairness. The program is one goroutine without waiting, so weak fairness of the
step relation says only that code that can run does. `Tokenizer` in addition
assumes that the caller asks for tokens until it is given an error, which the
parser does, and that a read of a file returns. In `Preprocessor` only the steps
within a call are fair: nobody has to call.

## Disagreements between the code and its documents

These end in a counterexample of their run.

| Run | Counterexample |
|---|---|
| `Lowering_for_return` | `for (...) return 1;` lowers to valid code that `cfg.Build` refuses: the post label stands behind the `ret` in what `cfg.Build` takes for one block |
| `Evaluator_foreign_pointer` | `set(&x)` stores into a cell of the callee |
| `Preprocessor_constants` | the `A` of the line behind `#define A 1` is not replaced |
| `CompileRun_logical` | `x && y` evaluates `y` when `x` is 0 |

These were met while modelling and have no run:

- A declaration as the body of an `if` enters the enclosing scope:
  `if (1) int x; x;` reads a slot that exists on one path only.
  `DefinitionsDominateUses` fails with `SubstatementDecls = TRUE`.
- In `int f(int x, int s3)` the slot of a parameter is named `%s3`, the name of
  the other parameter. A parameter whose name begins with `t` or `s` reads back
  from text as a temporary or a slot.
- A pointer as a condition or an operand of arithmetic is accepted by sema and
  refused by the evaluator.
- A function without instructions validates, `AddFunction` accepts it, and the
  evaluator leaves it without a `ret`. `docs/tac-format.md:221` wants "`ret`
  appears in all exit paths (or explicit verifier error)".
  `OnlyEmptyFunctionsLackRet` says that it is the only such function.
- A backslash at the end of a line comment does not continue it:
  `tokenizer_comment.go:29` takes the backslash, and the class of bytes read next
  stops at the line break, which ends the comment. `tokenizer_comment.go:16` says
  "single line comment can at \n with exception of line continuation" and `:34`
  "line continuation, caling self recursively".
- In `#define A 1 // one` followed by a line `x`, the token `x` carries the line of
  the comment, which lexed it (`tokenizer_comment.go:38`, `preprocesor.go:78`), so
  it becomes a part of `A`. `docs/language-v0.md:12` supports "minimal object-like
  `#define NAME value` constants only".
- A literal or a comment cut off by the end of the file is reported as the plain
  end of the file, so the parser sees no lexical error.
- A `#define` whose name is a macro redefines another name or fails; a macro in
  the body of a `#define` ends that body; a directive behind a commented line is
  taken for one in the middle of a line.
- Unsupported constructs without the explicit diagnostic that
  `docs/parser-v0-matrix.md` claims for them. Ternary, comma and compound
  assignment (its line 20) get the general "expected ')'" within parentheses and,
  the ternary apart, within arguments: `(a ? b : c)` at `parser.go:622`, `f(a += 1)`
  at `parser.go:584`. `union`, `enum` and floating types (line 11) get "expected
  expression" inside a function. A declaration of an unsupported type right behind
  a failed one is not reported: recovery at the top level skips to `int`, `char`
  or `void`.
- One construct with several diagnostics: an unsupported statement with braces, a
  construct in the first two clauses of a `for`, and one in an `if` without braces
  that has an `else`, since recovery stops at the first semicolon or brace.
  `expect` takes the token it refuses.

## What is proved

The proofs hold for every value of the constants that meets the named
assumptions, which TLC evaluates in the runs.

- `ScannerProofs`. *ScannerImplementsStream*: `Spec => ScannerIsStream`, for
  every text, buffer size and reader. The invariant says that the buffer holds
  the bytes read last and that line and column are those of the byte that is
  taken next. Its core is `BreaksAddUp`: the line breaks of a text are those of
  its beginning and those of the rest, moved (a bijection), so counting them
  piece by piece counts them all; `LastBreak` says the same of the column. Every
  action of the tokenizer is shown to take what is in the buffer or nothing
  (`Uses`); a refill happens only on an empty buffer, which is what makes an
  error come last.
- `PreprocessorProofs`. *LookaheadKept*: not inductive alone, since `Peek` may
  keep a token only if none is kept; strengthened by `CallsReadAhead`.
  *MacroBodiesAreOneLine* in two parts. `MacrosHaveOneLabel`: the tokens of a body
  have one recorded line, strengthened by `CollectsOneLine`, which says what
  the nested loops hold while they wait. The body being collected lies on
  `ppLine`, or a directive within has moved `ppLine` and the token that is being
  returned to the loop is on another line, so that it ends the loop.
  `TokensPlaced`: comments end all lines from the recorded line of a token to the
  one before its own, which holds for the call of `lex` in progress (`begun`) and
  for every token kept. Two tokens of a body are behind the same recorded line, so
  comments end the lines between them.
- `CParserProofs`. *RefusedTokensEndTheParse*: `fatal` says whether a refused
  token was read, since no function takes the end of the file; for `expect` this
  needs that no goal on the stack expects it, hence the type of the stack.
- `TacIRProofs`. *ValidatorExactness*: for every non-empty code, the block
  analysis of the validator accepts exactly the well-formed functions.
  The argument: block starts lie inside the code, every start has a block end
  (the least index before another start), so a terminator that is not last is
  followed by a start and never lies inside a block, and only the last block can
  end the code. *ValidatedCodeIsClosed*: no instruction of validated code leads
  out of it. *GraphExactness*: the blocks of `cfg.Build`, which a `ret` does not
  end, and their successors are the control flow; an index that starts no block
  is never looked up, as every jump target is a leader.
- `IRBuilderProofs`. The type invariant, the exactness of the validator and of
  the graph (*GraphCorrect*) on every function built, *SetBlockFails* (code that ends in a
  label is not well formed), *EmptyFunctionsAloneLackRet* (validated code with an
  instruction is left by a `ret` only; without one it is left at once) and *DestinationsDistinct*. The last is not
  inductive: it is strengthened by `NamesBelowCounter`, every destination's
  number is smaller than the counter.
- `EvaluatorProofs`. *ControlInside*, *CallersWait*, *LimitsRespected* and
  *CallersIsolated*. The inductive invariant `Inv` says that the call stack is a
  sequence of frames, each inside the code of its function, each but the last at
  a call of the next, and that a running evaluation has a valid module. Inside
  alone is not inductive: a return moves the caller to the instruction after
  its call, which exists because the caller is at a call, calls are not
  terminators, and validated code is closed. Every action is shown to be one of
  five kinds of stack change (`StepCases`), and the invariants are proved from
  those. `Inv` was checked with TLC before it was proved. *EvaluatorTypes*: every
  value of a call is a word or a pointer. The powers of two are counted, as
  numbers of subsets, since the provers know nothing of exponents; wrapping,
  truncated division, its remainder and the shifts stay in the words by division
  with remainder; a set of bits is that of a word because words with the same
  bits are equal (`BitsDetermineWord`: above the bits nothing is left of a word,
  and each bit more agrees) and there are as many words as sets of bits. The
  proof needs words of two bits at least, for 1 to be one, and arguments that
  are words.
- `LoweringProofs`, for every tree. Each step is summarised once and the
  invariants are proved from the summaries. *NamesDefinedOnce*: every number in
  a name lies below `nextTempID`, the one counter of temporaries and slots, and
  a step appends only names it counted (`Builds`); parameters are assumed to be
  named like variables (`ParametersAreVariables`). *ScopesBalanced*: the count
  of scopes alone does not survive a pop, since it depends on the frame that
  ends; `FramesNest` adds that the function's frame lies at the bottom only,
  that a `forInit` is waiting only below its declaration or expression, and that
  there is one scope for each frame that opened one (`MovesFrames`: a step
  pushes, pops or replaces one frame). *LabelsFollowTerminators* and
  *UnreachableEndsReturn*: what decides whether code may be appended is not the
  code but the mode, so `LayoutInv` says that wherever lowering continues the
  code does not end in a terminator, and where it reports the statement not to
  complete it ends in a return; that the first holds behind the initialiser of
  a `for` needs `FramesNest`.
  *LoweringTypes*: `TypeOK` does not survive a step, since it does not say that
  an operand that is not void is a value, that a pending call is of a declared
  function, that a variable in scope has a slot, or that each kind of frame has
  the labels its statement will place; `TypeInv` adds these, and that
  `VerifyInstruction` takes every instruction emitted.
  *LoweredCodeIsValid*: Lower never calls the validator, yet what it returns
  passes it. That no jump dangles is an agreement between what was emitted and
  the statements still in progress: `LabelInv` says that labels are placed once
  and lie below `nextLabelID`, that a jump in the code goes to a label placed
  or to one that a frame on the stack will place (`AwaitedLabels`; the end of an
  `if` with an `else` is awaited only once the then part was found to complete),
  that the labels of different frames differ and none of them is placed yet,
  and that the head of a loop is. One lemma (`LabelsOfEmission`) covers a list
  appended under the frame on top, and each action is an instance of pushing,
  replacing or popping a frame. With `TypeInv` and `EndInv` (a lowered function
  has an empty stack and ends in a return) that is `WellFormed`, and
  *ValidatorExactness* does the rest. *LoweredReturnsMatch*: every list of
  instructions emitted has only matching returns (`Matching`); assumed is that
  no function returns `void*` (`VoidReturnsNothing`), for which the code breaks
  the property. *DefinitionsDominate*: dominance is about all paths of the
  finished code, while lowering appends, and code appended later can jump back.
  The invariant gives every name a region (`Region`): a set of positions that
  holds all its uses, and that control enters behind a definition only, whether it
  falls in or jumps in. `DominanceInv` says that such regions exist and how they
  may still grow (`Held`): while a variable is in scope, what is appended joins its
  region, so the labels that the frames from its block on will place may only be
  reached from inside (`OpenFrom`), and the heads of the loops around the block,
  which later code may jump to, are not inside (`HeadsBelow`); when the scope is
  left the region is closed, and no head of a loop still open is inside. The
  operands of the expression in progress are held the same way until their value is
  used. Every step is one of four changes of the stack (`StayShifts`,
  `PushShifts`, `ReplaceShifts`, `PopShifts`) with an operation that uses only what
  is held, and control that uses nothing (`Emission`). That names are fresh when
  defined comes from `NamesBelowCounter`, that labels are from `LabelInv`. In the
  finished code `ReachedWithout` then never enters a region: a least round in
  which it did would step into it from outside without a definition. It is proved
  for trees in which a declaration is not the body of an `if`, `while` or
  `for` (`SubstatementDecls = FALSE`); for the others the code breaks the
  property, as said above.
- `LoweredCodeProofs`, about the finished code of every tree, and its evaluation.
  *LoweredCodeIsWellTyped*: sema checks types on the tree and never looks at the
  code again, so the invariant has to relate the two. `Explained` says that one
  assignment of types to names (`Typings`) satisfies every instruction emitted
  (`Rule`), every name being defined before it is read, and everything the walk
  believes of its operands (`Claims`): the type of each value on the expression
  stack, of the address each lvalue will be stored through, of the slot of each
  variable in scope and of the variable being initialised. A step that emits a
  definition extends the assignment at a name not used so far
  (`DefinitionTenable`), one that only reads keeps it (`UseTenable`); what a scope
  or a frame takes with it is a claim less. A parameter's type is looked up by
  its name in the code, hence `ParametersInv`: the names of the parameters lowered
  differ, since `declareLocal` refuses a second one. `ResultTypes`, which
  the property uses, infers the types from the finished code alone; it is the
  assignment, for a least instruction where they differ would read an earlier one
  (`ResultTypesAreThese`). No assumption is made on the tree.
  *CellsKeepTheirType* and *AcceptedProgramsKeepRunning* take that to the running
  program, for one function on integers that may call itself
  (`SingleIntegerFunction`, which TLC evaluates on the instances), whatever its
  body, the arguments, the width of a word and the limits. The value of a cell
  has no type in the evaluator, so the invariant finds one: for every call in
  progress there is a type for each cell allocated (`CellTypes`) such that every
  value of the call has the type sema gave its name, a pointer leading to a cell
  of the type it points to, and every initialised cell holds a value of its type
  (`FrameTyped`; calls that wait do so at a call, `StackTyped`). Each
  instruction keeps this by its `Rule`; an allocation adds a cell of the type it
  names, and a call is entered with integers and returns one. Every step of the
  evaluator is one of four changes of the stack (`RunSteps`). That alone allows a
  value to be missing, so *AcceptedProgramsKeepRunning* adds, from the regions of
  *DefinitionsDominate*, that a call inside the region of a name has its value
  (`AvailableInv`): control enters a region behind a definition only. Then no
  instruction finds a value missing, of the wrong kind or out of range, a label or
  a destination absent, or a wrong number of arguments, if the operators of the
  code are on integers, which sema does not check (`OperatorsTakeIntegers`). It
  inherits `SubstatementDecls = FALSE`, which the run has too.

Assumptions: texts are sequences of bytes, files sequences of lines or tokens,
the buffer is not empty; modules are made of the five kinds of instruction, the
limits are positive, words have two bits or more, no label is the empty label's number where the builder is
concerned, opcodes are those of the language.

Only model-checked: everything about `Symbols` and `TacText`; that
tokens, preprocessed files and trees are those of the references; what the
evaluator computes with words (that they are words is proved). Out of the prover's reach: liveness under fairness
(`Terminates`, `FaultsSurface`, `CallsReturn`), and whatever needs induction over
the data, such as what the folds of `TacText` and `Symbols` compute.

## Not modelled, and why

- The command line: straight-line I/O.
- `EnsureLabel` and `BlockByLabel` of `cfg`: only tests call them.
- The tables of keywords: data. Their words are words that are no identifiers.
- Values of literals: spellings in `Tokenizer`, values in `Lowering`, nothing
  joins them. The prefix of a literal is ignored by `strconv.ParseInt` in base
  10; this is listed as a hazard.
- Texts and places of diagnostics, and everything about their wording.
- `.meta` lines, comments, blanks and malformed lines of the TAC text: the texts
  are those the writer writes, whole or with a line missing.
- A reader that returns neither a byte nor an error, which `io.Reader`
  discourages: the scanner would call it again.
- Two refused tokens next to each other, of which `peekTok` sees the second one
  only when it looks again: the files of `CParser` have one.

## Left to do

1. The evaluation of several functions, and of functions that take pointers:
   `CompileRun` holds one function on integers, since a cell of one call means
   nothing in another (`Evaluator_foreign_pointer`).
2. A composition of `Preprocessor` above `Tokenizer`, to check words against
   tokens.
