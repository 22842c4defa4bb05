------------------------ MODULE PreprocessorProofs ------------------------
(***************************************************************************)
(* Theorems about the preprocessor and its lookahead, for all files, read  *)
(* by Next and Peek in every order.                                        *)
(***************************************************************************)
EXTENDS Preprocessor, SequenceTheorems, TLAPS

Words  == STRING \cup {"none", "EOF", "error"}
Tokens == [word : Words, line : Nat, at : Nat]
Frames == [kind : {"directive", "name", "body"}, name : Words, body : Seq(Tokens)]

(***************************************************************************)
(* Types.                                                                  *)
(***************************************************************************)

TypeOK ==
    /\ file \in Files
    /\ row \in Nat \ {0} /\ col \in Nat \ {0} /\ begun \in Nat
    /\ macros \in [DOMAIN macros -> Seq(Tokens)]
    /\ readyTokens \in Seq(Tokens)
    /\ lastSeenLine \in Nat /\ ppLine \in Nat
    /\ frames \in Seq(Frames)
    /\ returned \in Tokens /\ nextTok \in Tokens
    /\ produced \in Seq(Tokens) /\ results \in Seq(Tokens)

\* The constants of the preprocessor are tokens and frames.
LEMMA ConstantsTyped ==
    /\ NoToken \in Tokens /\ EOF \in Tokens /\ Error \in Tokens
    /\ \A w \in STRING, n, m \in Nat : Token(w, n, m) \in Tokens
    /\ DirectiveFrame \in Frames /\ NameFrame \in Frames
    /\ \A w \in Words : BodyFrame(w) \in Frames
<1>1. /\ NoToken \in Tokens /\ EOF \in Tokens /\ Error \in Tokens
      /\ \A w \in STRING, n, m \in Nat : Token(w, n, m) \in Tokens
  BY DEF NoToken, EOF, Error, Token, Tokens, Words
<1>2. /\ DirectiveFrame \in Frames /\ NameFrame \in Frames
      /\ \A w \in Words : BodyFrame(w) \in Frames
  <2>1. "none" \in Words
    BY DEF Words
  <2> QED BY <2>1, EmptySeq DEF DirectiveFrame, NameFrame, BodyFrame, Frames
<1> QED BY <1>1, <1>2

\* What is read from a file is a word.
LEMMA WordTyped ==
    ASSUME TypeOK, AtWord
    PROVE  word \in STRING
<1>1. file \in Seq([words : Seq(STRING), comment : BOOLEAN])
  BY FilesAssumption DEF TypeOK
<1>2. row \in 1..Len(file)
  BY <1>1 DEF TypeOK, AtWord, AtEnd
<1>3. file[row] \in [words : Seq(STRING), comment : BOOLEAN]
  BY <1>1, <1>2, ElementOfSeq
<1>4. file[row].words \in Seq(STRING)
  BY <1>3
<1>5. col \in 1..Len(file[row].words)
  BY <1>4 DEF TypeOK, AtWord
<1> QED BY <1>4, <1>5 DEF word

\* The frames without the top, and with another one instead.
LEMMA FramesTyped ==
    ASSUME TypeOK, frames # <<>>
    PROVE  /\ Top \in Frames /\ Below \in Seq(Frames)
           /\ \A f \in Frames : Append(Below, f) \in Seq(Frames)
<1>1. Len(frames) \in 1..Len(frames)
  BY EmptySeq DEF TypeOK
<1> QED BY <1>1 DEF TypeOK, Top, Below

\* A call that returns keeps the types.
LEMMA ReturnsTyped ==
    ASSUME TypeOK, NEW r \in Tokens, Returns(r)
    PROVE  produced' \in Seq(Tokens) /\ results' \in Seq(Tokens) /\ nextTok' \in Tokens
<1>1. Append(produced, r) \in Seq(Tokens) /\ Append(results, r) \in Seq(Tokens)
  BY AppendProperties DEF TypeOK
<1> QED BY <1>1 DEF TypeOK, Returns

\* So does one that fails.
LEMMA FailTyped ==
    ASSUME TypeOK, NEW r \in Tokens, Fail(r), UNCHANGED file,
           row' \in Nat \ {0}, col' \in Nat \ {0}, begun' \in Nat
    PROVE  TypeOK'
<1>1. Returns(r) /\ frames' = <<>> /\ returned' = NoToken
      /\ UNCHANGED <<macros, readyTokens, lastSeenLine, ppLine>>
  BY DEF Fail
<1>2. produced' \in Seq(Tokens) /\ results' \in Seq(Tokens) /\ nextTok' \in Tokens
  BY <1>1, ReturnsTyped
<1> QED BY <1>1, <1>2, ConstantsTyped DEF TypeOK

LEMMA TypeInvariant == Spec => []TypeOK
<1>1. Init => TypeOK
  BY ConstantsTyped DEF Init, TypeOK
<1>2. TypeOK /\ [Next]_vars => TypeOK'
  <2> SUFFICES ASSUME TypeOK, [Next]_vars PROVE TypeOK'
    OBVIOUS
  <2>0. AtWord => word \in STRING
    BY WordTyped
  <2>t. TakeWord => /\ UNCHANGED <<file, row>>
                    /\ row' \in Nat \ {0} /\ col' \in Nat \ {0} /\ begun' \in Nat
    BY DEF TakeWord, TypeOK
  <2>1. CASE Peek
    BY <2>1 DEF Peek, TypeOK, lexState, ppState
  <2>2. CASE NextToken
    <3>1. Append(results, nextTok) \in Seq(Tokens)
      BY AppendProperties DEF TypeOK
    <3> QED BY <2>2, <3>1, ConstantsTyped DEF NextToken, TypeOK, lexState, ppState
  <2>3. CASE Return
    <3>1. returned \in Tokens
      BY DEF TypeOK
    <3>2. produced' \in Seq(Tokens) /\ results' \in Seq(Tokens) /\ nextTok' \in Tokens
      BY <2>3, <3>1, ReturnsTyped DEF Return
    <3> QED BY <2>3, <3>2, ConstantsTyped DEF Return, TypeOK, lexState
  <2>4. CASE PopFromReady
    <3>1. Head(readyTokens) \in Tokens /\ Tail(readyTokens) \in Seq(Tokens)
      BY <2>4, HeadTailProperties DEF PopFromReady, TypeOK
    <3> QED BY <2>4, <3>1 DEF PopFromReady, TypeOK, lexState
  <2>5. CASE ReadEnd
    BY <2>5, FailTyped, ConstantsTyped DEF ReadEnd, TypeOK
  <2>6. CASE ReadLineEnd
    BY <2>6 DEF ReadLineEnd, TypeOK, ppState, tokenLine
  <2>7. CASE ReadToken
    <3>1. word \in STRING /\ tokenLine \in Nat /\ row \in Nat
      BY <2>7, <2>0 DEF ReadToken, TakeWord, tokenLine, TypeOK
    <3>2. Token(word, tokenLine, row) \in Tokens
      BY <3>1, ConstantsTyped
    <3> QED BY <2>7, <2>t, <3>2 DEF ReadToken, TypeOK
  <2>8. CASE ReadMacro
    <3>1. macros[word] \in Seq(Tokens)
      BY <2>8 DEF ReadMacro, TypeOK
    <3>2. returned' \in Tokens /\ readyTokens' \in Seq(Tokens)
      BY <2>8, <3>1, HeadTailProperties DEF ReadMacro, TypeOK
    <3> QED BY <2>8, <2>t, <3>2 DEF ReadMacro, TypeOK
  <2>9. CASE ReadDots
    BY <2>9, <2>t, FailTyped, ConstantsTyped DEF ReadDots
  <2>10. CASE ReadDirective
    <3>1. CASE lastSeenLine >= tokenLine
      BY <2>10, <3>1, <2>t, FailTyped, ConstantsTyped DEF ReadDirective
    <3>2. CASE ~(lastSeenLine >= tokenLine)
      <4>1. frames' \in Seq(Frames)
        <5>1. DirectiveFrame \in Frames /\ frames \in Seq(Frames)
          BY ConstantsTyped DEF TypeOK
        <5>2. Append(frames, DirectiveFrame) \in Seq(Frames)
          BY <5>1, AppendProperties
        <5> QED BY <2>10, <3>2, <5>2 DEF ReadDirective
      <4> QED BY <2>10, <3>2, <4>1, <2>t DEF ReadDirective, TypeOK
    <3> QED BY <3>1, <3>2
  <2>11. CASE Directive
    <3>1. CASE sameLine /\ returned.word = "define"
      BY <2>11, <3>1, FramesTyped, ConstantsTyped DEF Directive, Waits, TypeOK, lexState
    <3>2. CASE ~(sameLine /\ returned.word = "define")
      BY <2>11, <3>2, FailTyped, ConstantsTyped DEF Directive, TypeOK, lexState
    <3> QED BY <3>1, <3>2
  <2>12. CASE DefineName
    <3>1. CASE sameLine /\ IsIdentifier(returned)
      <4>1. BodyFrame(returned.word) \in Frames
        BY ConstantsTyped DEF TypeOK, Tokens
      <4> QED BY <2>12, <3>1, <4>1, FramesTyped, ConstantsTyped
              DEF DefineName, Waits, TypeOK, lexState
    <3>2. CASE ~(sameLine /\ IsIdentifier(returned))
      BY <2>12, <3>2, FailTyped, ConstantsTyped DEF DefineName, TypeOK, lexState
    <3> QED BY <3>1, <3>2
  <2>13. CASE DefineBody
    <3>1. Top \in Frames /\ Below \in Seq(Frames) /\ \A f \in Frames : Append(Below, f) \in Seq(Frames)
      BY <2>13, FramesTyped DEF DefineBody, Waits
    <3>2. CASE sameLine
      <4>1. [Top EXCEPT !.body = Append(@, returned)] \in Frames
        <5>1. Append(Top.body, returned) \in Seq(Tokens)
          BY <3>1 DEF Frames, TypeOK
        <5> QED BY <3>1, <5>1 DEF Frames
      <4> QED BY <2>13, <3>1, <3>2, <4>1, ConstantsTyped DEF DefineBody, TypeOK, lexState
    <3>3. CASE ~sameLine
      <4>1. macros' \in [DOMAIN macros' -> Seq(Tokens)]
        BY <2>13, <3>1, <3>3 DEF DefineBody, TypeOK, Frames
      <4> QED BY <2>13, <3>1, <3>3, <4>1 DEF DefineBody, TypeOK, lexState
    <3> QED BY <3>2, <3>3
  <2>14. CASE UNCHANGED vars
    BY <2>14 DEF vars, TypeOK, lexState, ppState
  <2> QED BY <2>1, <2>2, <2>3, <2>4, <2>5, <2>6, <2>7, <2>8, <2>9, <2>10, <2>11, <2>12, <2>13, <2>14
          DEF Next, Step
<1> QED BY <1>1, <1>2, PTL DEF Spec

(***************************************************************************)
(* The lookahead.                                                          *)
(***************************************************************************)

\* Nothing is read ahead while a call runs, and the preprocessor rests while
\* none does.  The first is what makes LookaheadLosesNothing inductive.
CallsReadAhead ==
    /\ call # "none" => nextTok = NoToken
    /\ call = "none" => frames = <<>> /\ returned = NoToken

Pending == IF nextTok = NoToken THEN <<>> ELSE <<nextTok>>

\* A call that returns hands what it returns to its caller, or keeps it.
LEMMA ReturnsLosesNothing ==
    ASSUME TypeOK, LookaheadLosesNothing, nextTok = NoToken,
           NEW r \in Tokens, r # NoToken, Returns(r)
    PROVE  LookaheadLosesNothing'
<1>1. produced = results
  BY ConcatEmptySeq DEF LookaheadLosesNothing, TypeOK
<1>2. produced' = Append(results, r) /\ Append(results, r) \in Seq(Tokens)
  BY <1>1, AppendProperties DEF Returns, TypeOK
<1>3. CASE call = "Peek" /\ IsToken(r)
  BY <1>2, <1>3, AppendIsConcat DEF Returns, LookaheadLosesNothing, TypeOK
<1>4. CASE ~(call = "Peek" /\ IsToken(r))
  <2>1. results' = Append(results, r) /\ nextTok' = NoToken
    BY <1>4 DEF Returns
  <2> QED BY <1>2, <2>1, ConcatEmptySeq DEF LookaheadLosesNothing
<1> QED BY <1>3, <1>4

\* What the preprocessor returns reaches the caller of Next once and in order,
\* for every file and every sequence of calls of Next and Peek.
THEOREM LookaheadKept == Spec => []LookaheadLosesNothing
<1> DEFINE Inv == LookaheadLosesNothing /\ CallsReadAhead
<1>1. Init => Inv
  BY ConcatEmptySeq, EmptySeq DEF Init, LookaheadLosesNothing, CallsReadAhead
<1>2. TypeOK /\ Inv /\ [Next]_vars => Inv'
  <2> SUFFICES ASSUME TypeOK, Inv, [Next]_vars PROVE Inv'
    OBVIOUS
  <2> USE DEF CallsReadAhead
  <2>f. ASSUME NEW r \in {EOF, Error}, Fail(r), call # "none" PROVE Inv'
    <3>1. Returns(r) /\ frames' = <<>> /\ returned' = NoToken
      BY <2>f DEF Fail
    <3>2. r \in Tokens /\ r # NoToken /\ ~IsToken(r)
      BY ConstantsTyped DEF IsToken, EOF, Error, NoToken, Token
    <3>3. call' = "none"
      BY <3>1 DEF Returns
    <3>4. LookaheadLosesNothing'
      BY <2>f, <3>1, <3>2, ReturnsLosesNothing
    <3> QED BY <3>1, <3>3, <3>4
  <2>k. ASSUME call # "none", UNCHANGED <<call, nextTok, produced, results>> PROVE Inv'
    BY <2>k DEF LookaheadLosesNothing
  <2>1. CASE Peek
    BY <2>1 DEF Peek, LookaheadLosesNothing
  <2>2. CASE NextToken
    <3>1. CASE nextTok = NoToken
      BY <2>2, <3>1 DEF NextToken, LookaheadLosesNothing, ppState
    <3>2. CASE nextTok # NoToken
      <4>1. produced = Append(results, nextTok) /\ produced \in Seq(Tokens)
        BY <3>2, AppendIsConcat DEF LookaheadLosesNothing, TypeOK
      <4>2. /\ results' = Append(results, nextTok) /\ nextTok' = NoToken
            /\ UNCHANGED <<produced, call, frames, returned>>
        BY <2>2, <3>2 DEF NextToken, ppState
      <4>3. produced' = results' \o <<>>
        BY <4>1, <4>2, ConcatEmptySeq
      <4> QED BY <2>2, <4>2, <4>3 DEF NextToken, LookaheadLosesNothing
    <3> QED BY <3>1, <3>2
  <2>3. CASE Return
    <3>1. Returns(returned) /\ returned # NoToken /\ returned' = NoToken /\ frames' = <<>>
      BY <2>3 DEF Return
    <3>2. nextTok = NoToken /\ returned \in Tokens
      BY <3>1 DEF TypeOK
    <3>3. LookaheadLosesNothing'
      BY <3>1, <3>2, ReturnsLosesNothing
    <3>4. call' = "none"
      BY <3>1 DEF Returns
    <3> QED BY <3>1, <3>3, <3>4
  <2>4. CASE PopFromReady
    BY <2>4, <2>k DEF PopFromReady
  <2>5. CASE ReadEnd
    BY <2>5, <2>f DEF ReadEnd, ReadsFile
  <2>6. CASE ReadLineEnd
    BY <2>6, <2>k DEF ReadLineEnd, ReadsFile
  <2>7. CASE ReadToken
    BY <2>7, <2>k DEF ReadToken, TakeWord, ReadsFile
  <2>8. CASE ReadMacro
    BY <2>8, <2>k DEF ReadMacro, TakeWord, ReadsFile
  <2>9. CASE ReadDots
    BY <2>9, <2>f DEF ReadDots, TakeWord, ReadsFile
  <2>10. CASE ReadDirective
    BY <2>10, <2>f, <2>k DEF ReadDirective, TakeWord, ReadsFile
  <2>11. CASE Directive
    BY <2>11, <2>f, <2>k DEF Directive, Waits
  <2>12. CASE DefineName
    BY <2>12, <2>f, <2>k DEF DefineName, Waits
  <2>13. CASE DefineBody
    BY <2>13, <2>k DEF DefineBody, Waits
  <2>14. CASE UNCHANGED vars
    BY <2>14 DEF vars, LookaheadLosesNothing, ppState
  <2> QED BY <2>1, <2>2, <2>3, <2>4, <2>5, <2>6, <2>7, <2>8, <2>9, <2>10, <2>11, <2>12, <2>13, <2>14
          DEF Next, Step
<1> QED BY <1>1, <1>2, TypeInvariant, PTL DEF Spec

(***************************************************************************)
(* The bodies of macros.                                                   *)
(***************************************************************************)

OneLine(body) == \A i, j \in DOMAIN body : body[i].line = body[j].line
OnLine(body, n) == \A i \in DOMAIN body : body[i].line = n

LabelsAgree == \A name \in DOMAIN macros : OneLine(macros[name])

\* What is collected is on the line it is compared with; when a directive within
\* has moved that line, the token that ended it is on neither.
CollectsOneLine ==
    /\ \A k \in DOMAIN frames : OneLine(frames[k].body)
    /\ frames # <<>> /\ Top.kind = "body" =>
           \/ OnLine(Top.body, ppLine)
           \/ returned # NoToken /\ returned.line # ppLine

\* One more frame, or another one at the top, with the lines of its body.
LEMMA PushKeepsLines ==
    ASSUME NEW fs \in Seq(Frames), NEW f \in Frames, OneLine(f.body),
           \A k \in DOMAIN fs : OneLine(fs[k].body)
    PROVE  /\ Append(fs, f) # <<>>
           /\ Append(fs, f)[Len(Append(fs, f))] = f
           /\ \A k \in DOMAIN Append(fs, f) : OneLine(Append(fs, f)[k].body)
<1>1. /\ Len(Append(fs, f)) = Len(fs) + 1
      /\ DOMAIN Append(fs, f) = 1..(Len(fs) + 1)
      /\ \A k \in 1..Len(fs) : Append(fs, f)[k] = fs[k]
      /\ Append(fs, f)[Len(fs) + 1] = f
      /\ DOMAIN fs = 1..Len(fs) /\ Len(fs) \in Nat
      /\ Append(fs, f) # <<>>
  BY AppendProperties, LenProperties
<1>2. ASSUME NEW k \in DOMAIN Append(fs, f) PROVE OneLine(Append(fs, f)[k].body)
  <2>1. CASE k \in 1..Len(fs)
    BY <1>1, <2>1
  <2>2. CASE k = Len(fs) + 1
    BY <1>1, <2>2
  <2> QED BY <1>1, <1>2, <2>1, <2>2
<1> QED BY <1>1, <1>2

LEMMA BelowKeepsLines ==
    ASSUME TypeOK, frames # <<>>, \A k \in DOMAIN frames : OneLine(frames[k].body)
    PROVE  \A k \in DOMAIN Below : OneLine(Below[k].body)
<1>1. Len(frames) \in Nat \ {0} /\ DOMAIN frames = 1..Len(frames)
  BY EmptySeq, LenProperties DEF TypeOK
<1>2. \A i \in 1..(Len(frames) - 1) : frames[i] \in Frames
  BY <1>1, ElementOfSeq DEF TypeOK
<1>3. /\ Below \in Seq(Frames)
      /\ Len(Below) = Len(frames) - 1
      /\ \A i \in 1..(Len(frames) - 1) : Below[i] = frames[i]
  BY <1>1, <1>2 DEF Below
<1>4. DOMAIN Below = 1..(Len(frames) - 1)
  BY <1>3, LenProperties
<1> QED BY <1>1, <1>3, <1>4

\* The tokens of every macro have one recorded line, whatever directives follow
\* each other in the loops that collect them.
LEMMA MacrosHaveOneLabel == Spec => []LabelsAgree
<1> DEFINE Inv == LabelsAgree /\ CollectsOneLine
<1>1. Init => Inv
  BY DEF Init, LabelsAgree, CollectsOneLine
<1>2. TypeOK /\ Inv /\ [Next]_vars => Inv'
  <2> SUFFICES ASSUME TypeOK, Inv, [Next]_vars PROVE Inv'
    OBVIOUS
  <2>f. ASSUME NEW r, Fail(r) PROVE Inv'
    BY <2>f DEF Fail, LabelsAgree, CollectsOneLine
  <2>k. ASSUME UNCHANGED <<macros, frames, ppLine>>, returned' = returned \/ returned = NoToken
        PROVE  Inv'
    BY <2>k DEF LabelsAgree, CollectsOneLine, Top
  <2>e. OneLine(DirectiveFrame.body) /\ OneLine(NameFrame.body)
        /\ \A w : OneLine(BodyFrame(w).body) /\ OnLine(BodyFrame(w).body, ppLine)
    BY DEF DirectiveFrame, NameFrame, BodyFrame, OneLine, OnLine
  <2>1. CASE Peek \/ NextToken
    BY <2>1, <2>k DEF Peek, NextToken, ppState
  <2>3. CASE Return
    BY <2>3 DEF Return, LabelsAgree, CollectsOneLine
  <2>4. CASE PopFromReady
    BY <2>4, <2>k DEF PopFromReady
  <2>5. CASE ReadEnd
    BY <2>5, <2>f DEF ReadEnd
  <2>6. CASE ReadLineEnd
    BY <2>6, <2>k DEF ReadLineEnd, ppState
  <2>7. CASE ReadToken
    BY <2>7, <2>k DEF ReadToken, TakeWord, ReadsFile
  <2>8. CASE ReadMacro
    BY <2>8, <2>k DEF ReadMacro, TakeWord, ReadsFile
  <2>9. CASE ReadDots
    BY <2>9, <2>f DEF ReadDots
  <2>10. CASE ReadDirective
    <3>1. CASE lastSeenLine >= tokenLine
      BY <2>10, <3>1, <2>f DEF ReadDirective
    <3>2. CASE ~(lastSeenLine >= tokenLine)
      <4>1. frames' = Append(frames, DirectiveFrame) /\ UNCHANGED macros
        BY <2>10, <3>2 DEF ReadDirective
      <4>2. /\ frames' # <<>> /\ frames'[Len(frames')] = DirectiveFrame
            /\ \A k \in DOMAIN frames' : OneLine(frames'[k].body)
        BY <4>1, <2>e, PushKeepsLines, ConstantsTyped DEF TypeOK, CollectsOneLine
      <4> QED BY <4>1, <4>2 DEF LabelsAgree, CollectsOneLine, Top, DirectiveFrame
    <3> QED BY <3>1, <3>2
  <2>b. ASSUME frames # <<>>
        PROVE  /\ Below \in Seq(Frames) /\ Top \in Frames
               /\ \A k \in DOMAIN Below : OneLine(Below[k].body)
    BY <2>b, FramesTyped, BelowKeepsLines DEF CollectsOneLine
  <2>11. CASE Directive
    <3>1. CASE sameLine /\ returned.word = "define"
      <4>1. frames # <<>> /\ frames' = Append(Below, NameFrame) /\ UNCHANGED macros
        BY <2>11, <3>1 DEF Directive, Waits
      <4>2. /\ frames' # <<>> /\ frames'[Len(frames')] = NameFrame
            /\ \A k \in DOMAIN frames' : OneLine(frames'[k].body)
        BY <4>1, <2>b, <2>e, PushKeepsLines, ConstantsTyped
      <4> QED BY <4>1, <4>2 DEF LabelsAgree, CollectsOneLine, Top, NameFrame
    <3> QED BY <2>11, <3>1, <2>f DEF Directive
  <2>12. CASE DefineName
    <3>1. CASE sameLine /\ IsIdentifier(returned)
      <4> DEFINE f == BodyFrame(returned.word)
      <4>1. frames # <<>> /\ frames' = Append(Below, f) /\ UNCHANGED <<macros, ppLine>>
        BY <2>12, <3>1 DEF DefineName, Waits
      <4>2. f \in Frames
        BY ConstantsTyped DEF TypeOK, Tokens
      <4>3. OneLine(f.body) /\ OnLine(f.body, ppLine)
        BY <2>e
      <4> HIDE DEF f
      <4>4. /\ frames' # <<>> /\ frames'[Len(frames')] = f
            /\ \A k \in DOMAIN frames' : OneLine(frames'[k].body)
        BY <4>1, <4>2, <4>3, <2>b, PushKeepsLines
      <4>5. OnLine(f.body, ppLine')
        BY <4>1, <4>3
      <4>6. Top' = f
        BY <4>4 DEF Top
      <4> QED BY <4>1, <4>4, <4>5, <4>6 DEF LabelsAgree, CollectsOneLine
    <3> QED BY <2>12, <3>1, <2>f DEF DefineName
  <2>13. CASE DefineBody
    <3>1. frames # <<>> /\ Top.kind = "body" /\ returned # NoToken
      BY <2>13 DEF DefineBody, Waits
    <3>2. Top \in Frames /\ OneLine(Top.body)
      <4>1. Len(frames) \in DOMAIN frames
        BY <3>1, EmptySeq, LenProperties DEF TypeOK
      <4> QED BY <3>1, <4>1, <2>b DEF CollectsOneLine, Top
    <3>3. CASE sameLine
      <4> DEFINE body == Append(Top.body, returned)
                 f == [Top EXCEPT !.body = body]
      <4>1. frames' = Append(Below, f) /\ UNCHANGED <<macros, ppLine>>
        BY <2>13, <3>3 DEF DefineBody
      <4>2. OnLine(Top.body, ppLine) /\ returned.line = ppLine
        BY <3>1, <3>3 DEF CollectsOneLine, sameLine
      <4>3. Top.body \in Seq(Tokens) /\ returned \in Tokens
        BY <3>2 DEF Frames, TypeOK
      <4>4. /\ body \in Seq(Tokens) /\ DOMAIN body = 1..(Len(Top.body) + 1)
            /\ DOMAIN Top.body = 1..Len(Top.body) /\ Len(Top.body) \in Nat
            /\ \A i \in 1..Len(Top.body) : body[i] = Top.body[i]
            /\ body[Len(Top.body) + 1] = returned
        BY <4>3, AppendProperties, LenProperties
      <4>5. ASSUME NEW i \in DOMAIN body PROVE body[i].line = ppLine
        <5>1. CASE i \in 1..Len(Top.body)
          BY <4>2, <4>4, <5>1 DEF OnLine
        <5>2. CASE i = Len(Top.body) + 1
          BY <4>2, <4>4, <5>2
        <5> QED BY <4>4, <5>1, <5>2
      <4>6. OnLine(body, ppLine) /\ OneLine(body)
        BY <4>5 DEF OnLine, OneLine
      <4>7. f \in Frames /\ f.body = body
        BY <3>2, <4>4 DEF Frames
      <4> HIDE DEF f, body
      <4>8. /\ frames' # <<>> /\ frames'[Len(frames')] = f
            /\ \A k \in DOMAIN frames' : OneLine(frames'[k].body)
        BY <4>1, <4>6, <4>7, <3>1, <2>b, PushKeepsLines
      <4>9. Top' = f
        BY <4>8 DEF Top
      <4>10. OnLine(f.body, ppLine')
        BY <4>1, <4>6, <4>7
      <4> QED BY <4>1, <4>8, <4>9, <4>10 DEF LabelsAgree, CollectsOneLine
    <3>4. CASE ~sameLine
      <4>1. /\ frames' = Below /\ UNCHANGED <<returned, ppLine>>
            /\ macros' = [w \in DOMAIN macros \cup {Top.name} |->
                             IF w = Top.name THEN Top.body ELSE macros[w]]
        BY <2>13, <3>4 DEF DefineBody
      <4>2. CollectsOneLine'
        BY <4>1, <3>1, <3>4, <2>b DEF CollectsOneLine, sameLine
      <4>3. LabelsAgree'
        BY <4>1, <3>2 DEF LabelsAgree
      <4> QED BY <4>2, <4>3
    <3> QED BY <3>3, <3>4
  <2>14. CASE UNCHANGED vars
    BY <2>14, <2>k DEF vars, ppState
  <2> QED BY <2>1, <2>3, <2>4, <2>5, <2>6, <2>7, <2>8, <2>9, <2>10, <2>11, <2>12, <2>13, <2>14
          DEF Next, Step
<1> QED BY <1>1, <1>2, TypeInvariant, PTL DEF Spec

(***************************************************************************)
(* The recorded lines and those of the file.                               *)
(***************************************************************************)

\* Comments end all lines from n to the one before m.
Commented(n, m) == n <= m /\ \A r \in n..(m - 1) : file[r].comment

Placed(t) == Commented(t.line, t.at)
AllPlaced(ts) == \A i \in DOMAIN ts : Placed(ts[i])
FramesPlaced(fs) == \A k \in DOMAIN fs : AllPlaced(fs[k].body)

\* The call of lex began where a comment did, and only comments lie between that
\* line and this one; so it was for every token kept anywhere.
PlacesInv ==
    /\ begun # 0 => Commented(begun, row)
    /\ \A w \in DOMAIN macros : AllPlaced(macros[w])
    /\ AllPlaced(readyTokens) /\ Placed(returned)
    /\ FramesPlaced(frames)

\* The first of some tokens, and the others.
LEMMA FirstAndOthersPlaced ==
    ASSUME NEW ts \in Seq(Tokens), ts # <<>>, AllPlaced(ts)
    PROVE  Placed(Head(ts)) /\ AllPlaced(Tail(ts))
<1>1. /\ Len(ts) \in Nat \ {0} /\ DOMAIN ts = 1..Len(ts) /\ Head(ts) = ts[1]
  BY EmptySeq, LenProperties
<1>2. /\ Tail(ts) \in Seq(Tokens) /\ Len(Tail(ts)) = Len(ts) - 1
      /\ \A i \in 1..Len(Tail(ts)) : Tail(ts)[i] = ts[i + 1]
  BY HeadTailProperties
<1>3. DOMAIN Tail(ts) = 1..(Len(ts) - 1)
  BY <1>2, LenProperties
<1>4. 1 \in DOMAIN ts /\ \A i \in DOMAIN Tail(ts) : i + 1 \in DOMAIN ts /\ Tail(ts)[i] = ts[i + 1]
  BY <1>1, <1>2, <1>3
<1> QED BY <1>1, <1>4 DEF AllPlaced

\* One more token.
LEMMA AppendedPlaced ==
    ASSUME NEW ts \in Seq(Tokens), NEW t \in Tokens, AllPlaced(ts), Placed(t)
    PROVE  AllPlaced(Append(ts, t))
<1>1. /\ DOMAIN Append(ts, t) = 1..(Len(ts) + 1) /\ DOMAIN ts = 1..Len(ts) /\ Len(ts) \in Nat
      /\ \A i \in 1..Len(ts) : Append(ts, t)[i] = ts[i]
      /\ Append(ts, t)[Len(ts) + 1] = t
  BY AppendProperties, LenProperties
<1>2. ASSUME NEW i \in DOMAIN Append(ts, t) PROVE Placed(Append(ts, t)[i])
  <2>1. CASE i \in 1..Len(ts)
    BY <1>1, <2>1 DEF AllPlaced
  <2>2. CASE i = Len(ts) + 1
    BY <1>1, <2>2
  <2> QED BY <1>1, <2>1, <2>2
<1> QED BY <1>2 DEF AllPlaced

\* One more frame.
LEMMA PushedPlaced ==
    ASSUME NEW fs \in Seq(Frames), NEW f \in Frames, FramesPlaced(fs), AllPlaced(f.body)
    PROVE  FramesPlaced(Append(fs, f))
<1>1. /\ DOMAIN Append(fs, f) = 1..(Len(fs) + 1) /\ DOMAIN fs = 1..Len(fs) /\ Len(fs) \in Nat
      /\ \A k \in 1..Len(fs) : Append(fs, f)[k] = fs[k]
      /\ Append(fs, f)[Len(fs) + 1] = f
  BY AppendProperties, LenProperties
<1>2. ASSUME NEW k \in DOMAIN Append(fs, f) PROVE AllPlaced(Append(fs, f)[k].body)
  <2>1. CASE k \in 1..Len(fs)
    BY <1>1, <2>1 DEF FramesPlaced
  <2>2. CASE k = Len(fs) + 1
    BY <1>1, <2>2
  <2> QED BY <1>1, <2>1, <2>2
<1> QED BY <1>2 DEF FramesPlaced

\* The frames below the top, and the top.
LEMMA PoppedPlaced ==
    ASSUME TypeOK, frames # <<>>, FramesPlaced(frames)
    PROVE  FramesPlaced(Below) /\ AllPlaced(Top.body)
<1>1. Len(frames) \in Nat \ {0} /\ DOMAIN frames = 1..Len(frames)
  BY EmptySeq, LenProperties DEF TypeOK
<1>2. \A i \in 1..(Len(frames) - 1) : frames[i] \in Frames
  BY <1>1, ElementOfSeq DEF TypeOK
<1>3. /\ Below \in Seq(Frames)
      /\ Len(Below) = Len(frames) - 1
      /\ \A i \in 1..(Len(frames) - 1) : Below[i] = frames[i]
  BY <1>1, <1>2 DEF Below
<1>4. DOMAIN Below = 1..(Len(frames) - 1)
  BY <1>3, LenProperties
<1>5. /\ Len(frames) \in DOMAIN frames
      /\ \A k \in DOMAIN Below : k \in DOMAIN frames /\ Below[k] = frames[k]
  BY <1>1, <1>3, <1>4
<1> QED BY <1>5 DEF FramesPlaced, Top

LEMMA TokensPlaced == Spec => []PlacesInv
<1>1. Init => PlacesInv
  BY DEF Init, PlacesInv, AllPlaced, FramesPlaced, Placed, Commented, NoToken, Token
<1>2. TypeOK /\ PlacesInv /\ [Next]_vars => PlacesInv'
  <2> SUFFICES ASSUME TypeOK, PlacesInv, [Next]_vars PROVE PlacesInv'
    OBVIOUS
  <2>0. file' = file
    BY DEF Next, Step, vars, Peek, NextToken, Return, PopFromReady, ReadEnd, ReadLineEnd, ReadToken,
           ReadMacro, ReadDots, ReadDirective, Directive, DefineName, DefineBody, TakeWord
  <2>n. Placed(NoToken)
    BY DEF Placed, Commented, NoToken, Token
  <2>k. Commented(tokenLine, row)
    BY DEF tokenLine, PlacesInv, Commented, TypeOK
  <2>p. ASSUME begun' # 0 => Commented(begun', row'),
               \A w \in DOMAIN macros' : AllPlaced(macros'[w]),
               AllPlaced(readyTokens'), Placed(returned'), FramesPlaced(frames')
        PROVE  PlacesInv'
    BY <2>p, <2>0 DEF PlacesInv, AllPlaced, FramesPlaced, Placed, Commented
  <2>b. begun' = 0 \/ UNCHANGED <<begun, row>> => (begun' # 0 => Commented(begun', row'))
    BY DEF PlacesInv
  <2>s. ASSUME UNCHANGED <<macros, readyTokens, returned, frames, begun, row>> PROVE PlacesInv'
    BY <2>s, <2>p DEF PlacesInv
  <2>f. ASSUME NEW r, Fail(r), begun' = 0 \/ UNCHANGED <<begun, row>> PROVE PlacesInv'
    <3>1. frames' = <<>> /\ returned' = NoToken /\ UNCHANGED <<macros, readyTokens>>
      BY <2>f DEF Fail
    <3>2. FramesPlaced(frames')
      BY <3>1 DEF FramesPlaced
    <3> QED BY <2>f, <3>1, <3>2, <2>n, <2>b, <2>p DEF PlacesInv
  <2>u. ASSUME NEW f \in Frames, NEW fs \in Seq(Frames), AllPlaced(f.body), FramesPlaced(fs),
               frames' = Append(fs, f), begun' = 0 \/ UNCHANGED <<begun, row>>,
               returned' \in {NoToken, returned}, UNCHANGED <<macros, readyTokens>>
        PROVE  PlacesInv'
    <3>1. FramesPlaced(frames')
      BY <2>u, PushedPlaced
    <3> QED BY <2>u, <3>1, <2>n, <2>b, <2>p DEF PlacesInv
  <2>e. /\ AllPlaced(DirectiveFrame.body) /\ AllPlaced(NameFrame.body)
        /\ \A w : AllPlaced(BodyFrame(w).body)
    BY DEF DirectiveFrame, NameFrame, BodyFrame, AllPlaced
  <2>1. CASE Peek \/ NextToken
    BY <2>1, <2>s DEF Peek, NextToken, ppState, lexState
  <2>3. CASE Return
    BY <2>3, <2>n, <2>b, <2>p DEF Return, PlacesInv, lexState
  <2>4. CASE PopFromReady
    <3>1. Placed(returned') /\ AllPlaced(readyTokens')
      BY <2>4, FirstAndOthersPlaced DEF PopFromReady, PlacesInv, TypeOK
    <3> QED BY <2>4, <3>1, <2>b, <2>p DEF PopFromReady, PlacesInv, lexState
  <2>5. CASE ReadEnd
    BY <2>5, <2>f DEF ReadEnd
  <2>6. CASE ReadLineEnd
    <3>1. CASE file[row].comment
      <4>1. begun' = tokenLine /\ row' = row + 1 /\ tokenLine \in Nat /\ row \in Nat
        BY <2>6, <3>1 DEF ReadLineEnd, TypeOK, tokenLine
      <4>2. Commented(tokenLine, row + 1)
        BY <4>1, <2>k, <3>1 DEF Commented
      <4> QED BY <2>6, <4>1, <4>2, <2>p DEF ReadLineEnd, PlacesInv, ppState
    <3>2. CASE ~file[row].comment
      BY <2>6, <3>2, <2>p DEF ReadLineEnd, PlacesInv, ppState
    <3> QED BY <3>1, <3>2
  <2>7. CASE ReadToken
    <3>1. Placed(Token(word, tokenLine, row))
      BY <2>k DEF Placed, Token
    <3> QED BY <2>7, <3>1, <2>p DEF ReadToken, TakeWord, PlacesInv
  <2>8. CASE ReadMacro
    <3>1. macros[word] \in Seq(Tokens) /\ AllPlaced(macros[word])
      BY <2>8 DEF ReadMacro, TypeOK, PlacesInv
    <3>2. Placed(returned') /\ AllPlaced(readyTokens')
      BY <2>8, <3>1, FirstAndOthersPlaced DEF ReadMacro, PlacesInv
    <3> QED BY <2>8, <3>2, <2>p DEF ReadMacro, TakeWord, PlacesInv
  <2>9. CASE ReadDots
    BY <2>9, <2>f DEF ReadDots, TakeWord
  <2>10. CASE ReadDirective
    <3>1. CASE lastSeenLine >= tokenLine
      BY <2>10, <3>1, <2>f DEF ReadDirective, TakeWord
    <3>2. CASE ~(lastSeenLine >= tokenLine)
      <4>1. /\ frames' = Append(frames, DirectiveFrame) /\ begun' = 0
            /\ UNCHANGED <<macros, readyTokens, returned>>
        BY <2>10, <3>2 DEF ReadDirective, TakeWord
      <4>2. frames \in Seq(Frames) /\ FramesPlaced(frames)
        BY DEF TypeOK, PlacesInv
      <4> QED BY <4>1, <4>2, <2>e, <2>u, ConstantsTyped
    <3> QED BY <3>1, <3>2
  <2>t. ASSUME frames # <<>>
        PROVE  /\ Below \in Seq(Frames) /\ Top \in Frames
               /\ FramesPlaced(Below) /\ AllPlaced(Top.body)
    BY <2>t, FramesTyped, PoppedPlaced DEF PlacesInv
  <2>11. CASE Directive
    <3>1. CASE sameLine /\ returned.word = "define"
      <4>1. /\ frames # <<>> /\ frames' = Append(Below, NameFrame) /\ returned' = NoToken
            /\ UNCHANGED <<macros, readyTokens, begun, row>>
        BY <2>11, <3>1 DEF Directive, Waits, lexState
      <4> QED BY <4>1, <2>t, <2>e, <2>u, ConstantsTyped
    <3> QED BY <2>11, <3>1, <2>f DEF Directive, lexState
  <2>12. CASE DefineName
    <3>1. CASE sameLine /\ IsIdentifier(returned)
      <4>1. /\ frames # <<>> /\ frames' = Append(Below, BodyFrame(returned.word))
            /\ returned' = NoToken /\ UNCHANGED <<macros, readyTokens, begun, row>>
        BY <2>12, <3>1 DEF DefineName, Waits, lexState
      <4>2. BodyFrame(returned.word) \in Frames /\ AllPlaced(BodyFrame(returned.word).body)
        BY <2>e, ConstantsTyped DEF TypeOK, Tokens
      <4> QED BY <4>1, <4>2, <2>t, <2>u
    <3> QED BY <2>12, <3>1, <2>f DEF DefineName, lexState
  <2>13. CASE DefineBody
    <3>1. frames # <<>> /\ UNCHANGED <<readyTokens, begun, row>>
      BY <2>13 DEF DefineBody, Waits, lexState
    <3>2. CASE sameLine
      <4> DEFINE f == [Top EXCEPT !.body = Append(@, returned)]
      <4>1. frames' = Append(Below, f) /\ returned' = NoToken /\ UNCHANGED macros
        BY <2>13, <3>2 DEF DefineBody
      <4>2. Top \in Frames /\ Top.body \in Seq(Tokens) /\ returned \in Tokens
        BY <3>1, <2>t DEF Frames, TypeOK
      <4>3. Append(Top.body, returned) \in Seq(Tokens) /\ AllPlaced(Append(Top.body, returned))
        BY <4>2, <3>1, <2>t, AppendProperties, AppendedPlaced DEF PlacesInv
      <4>4. f \in Frames /\ f.body = Append(Top.body, returned)
        BY <4>2, <4>3 DEF Frames
      <4> HIDE DEF f
      <4> QED BY <3>1, <4>1, <4>3, <4>4, <2>t, <2>u
    <3>3. CASE ~sameLine
      <4>1. /\ frames' = Below /\ UNCHANGED returned
            /\ macros' = [w \in DOMAIN macros \cup {Top.name} |->
                             IF w = Top.name THEN Top.body ELSE macros[w]]
        BY <2>13, <3>3 DEF DefineBody
      <4>2. \A w \in DOMAIN macros' : AllPlaced(macros'[w])
        BY <3>1, <4>1, <2>t DEF PlacesInv
      <4> QED BY <3>1, <4>1, <4>2, <2>t, <2>b, <2>p DEF PlacesInv
    <3> QED BY <3>2, <3>3
  <2>14. CASE UNCHANGED vars
    BY <2>14, <2>s DEF vars, ppState, lexState
  <2> QED BY <2>1, <2>3, <2>4, <2>5, <2>6, <2>7, <2>8, <2>9, <2>10, <2>11, <2>12, <2>13, <2>14
          DEF Next, Step
<1> QED BY <1>1, <1>2, TypeInvariant, PTL DEF Spec

\* Wherever the tokens of a macro stand in the file, comments end all the lines
\* from the first to the last of them: without comments a body is one line.
THEOREM MacroBodiesAreOneLine == Spec => []BodiesAreOneLine
<1>1. TypeOK /\ LabelsAgree /\ PlacesInv => BodiesAreOneLine
  <2> SUFFICES ASSUME TypeOK, LabelsAgree, PlacesInv,
                      NEW name \in DOMAIN macros,
                      NEW i \in DOMAIN macros[name], NEW j \in DOMAIN macros[name],
                      NEW r \in macros[name][i].at..(macros[name][j].at - 1)
               PROVE  file[r].comment
    BY DEF BodiesAreOneLine
  <2> DEFINE t == macros[name][i]
             u == macros[name][j]
  <2>1. macros[name] \in Seq(Tokens)
    BY DEF TypeOK
  <2>2. t \in Tokens /\ u \in Tokens
    BY <2>1, ElementOfSeq, LenProperties
  <2>3. t.line \in Nat /\ t.at \in Nat /\ u.line \in Nat /\ u.at \in Nat
    BY <2>2 DEF Tokens
  <2>4. t.line = u.line
    BY DEF LabelsAgree, OneLine
  <2>5. Commented(t.line, t.at) /\ Commented(u.line, u.at)
    BY DEF PlacesInv, AllPlaced, Placed
  <2>6. r \in t.at..(u.at - 1)
    OBVIOUS
  <2> HIDE DEF t, u
  <2>7. r \in u.line..(u.at - 1)
    BY <2>3, <2>4, <2>5, <2>6 DEF Commented
  <2> QED BY <2>5, <2>7 DEF Commented
<1> QED BY <1>1, TypeInvariant, MacrosHaveOneLabel, TokensPlaced, PTL

=============================================================================
