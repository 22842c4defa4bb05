---------------------------- MODULE TacIRProofs ----------------------------
(***************************************************************************)
(* Facts about the three-address code and its validator, for code of any   *)
(* length over any operands, labels and function symbols.                  *)
(***************************************************************************)
EXTENDS TacIR, WellFoundedInduction, TLAPS

\* A non-empty set of naturals has a least element.
LEMMA LeastNatural ==
    ASSUME NEW T \in SUBSET Nat, T # {}
    PROVE  \E m \in T : \A k \in T : m <= k
<1>1. PICK m \in T : \A k \in T : ~ (<<k, m>> \in OpToRel(<, Nat))
  BY WFMin, NatLessThanWellFounded
<1>2. \A k \in T : m <= k
  <2> TAKE k \in T
  <2>1. ~ (k < m)
    BY <1>1 DEF OpToRel
  <2> QED BY <2>1
<1> QED BY <1>2

\* A non-empty set of naturals below a bound has a greatest element.
LEMMA GreatestNatural ==
    ASSUME NEW n \in Nat, NEW T \in SUBSET (0..n), T # {}
    PROVE  \E m \in T : \A k \in T : k <= m
<1> DEFINE U == {n - k : k \in T}
<1>1. U \in SUBSET Nat
  <2> SUFFICES ASSUME NEW k \in T PROVE n - k \in Nat
    OBVIOUS
  <2> QED BY k \in 0..n
<1>2. U # {}
  <2> PICK k \in T : TRUE
    OBVIOUS
  <2> n - k \in U
    OBVIOUS
  <2> QED OBVIOUS
<1>3. PICK u \in U : \A k \in U : u <= k
  <2> HIDE DEF U
  <2> QED BY <1>1, <1>2, LeastNatural
<1>4. PICK m \in T : u = n - m
  OBVIOUS
<1>5. ASSUME NEW k \in T PROVE k <= m
  <2>1. n - m <= n - k
    BY <1>3, <1>4
  <2> QED BY <2>1, k \in 0..n, m \in 0..n
<1> QED BY <1>5

\* A sequence is one of its own elements.
LEMMA SequenceOfItsElements ==
    ASSUME NEW S, NEW s \in Seq(S)
    PROVE  s \in Seq({s[i] : i \in DOMAIN s})
<1> DEFINE T == {s[i] : i \in DOMAIN s}
<1>1. Len(s) \in Nat /\ DOMAIN s = 1..Len(s) /\ s = [i \in 1..Len(s) |-> s[i]]
  OBVIOUS
<1>2. \A i \in 1..Len(s) : s[i] \in T
  BY <1>1
<1> HIDE DEF T
<1>3. [i \in 1..Len(s) |-> s[i]] \in Seq(T)
  BY <1>1, <1>2
<1> QED BY <1>1, <1>3 DEF T

(***************************************************************************)
(* Blocks.                                                                 *)
(***************************************************************************)

\* The end BlockEnd chooses exists for every start: the first instruction from
\* s on that is the last of the code or comes before another start.
LEMMA BlockEndExists ==
    ASSUME NEW code, Len(code) \in Nat, NEW starts, NEW s \in 1..Len(code)
    PROVE  LET e == BlockEnd(code, starts, s) IN
           /\ e \in s..Len(code)
           /\ e = Len(code) \/ e + 1 \in starts
           /\ \A k \in (s + 1)..e : k \notin starts
<1> DEFINE n == Len(code)
           Ends == {e \in s..n : e = n \/ e + 1 \in starts}
           P(e) == /\ e = n \/ e + 1 \in starts
                   /\ \A k \in (s + 1)..e : k \notin starts
<1>1. PICK m \in Ends : \A k \in Ends : m <= k
  <2>1. Ends \in SUBSET Nat /\ n \in Ends
    OBVIOUS
  <2> QED BY <2>1, LeastNatural
<1>2. m \in s..n /\ P(m)
  <2>1. ASSUME NEW k \in (s + 1)..m, k \in starts PROVE FALSE
    <3>1. k - 1 \in s..n /\ (k - 1) + 1 = k /\ k - 1 < m
      OBVIOUS
    <3>2. k - 1 \in Ends
      BY <3>1, <2>1
    <3>3. m <= k - 1
      <4> HIDE DEF Ends
      <4> QED BY <1>1, <3>2
    <3>4. m \in Nat /\ k - 1 \in Nat
      BY <3>1
    <3> QED BY <3>1, <3>3, <3>4
  <2> QED BY <2>1
<1>3. BlockEnd(code, starts, s) = CHOOSE e \in s..n : P(e)
  BY DEF BlockEnd
<1> HIDE DEF P
<1>4. BlockEnd(code, starts, s) \in s..n /\ P(BlockEnd(code, starts, s))
  BY <1>2, <1>3
<1> QED BY <1>4 DEF P

\* A defined label has an index, where it is defined.
LEMMA LabelIndexDefined ==
    ASSUME NEW code, NEW l \in Defined(code)
    PROVE  /\ LabelIndex(code, l) \in DOMAIN code
           /\ code[LabelIndex(code, l)].kind = "label"
           /\ code[LabelIndex(code, l)].label = l
BY DEF Defined, LabelIndex, LabelAt

\* Block starts are positions of the code.
LEMMA BlockStartsInside ==
    ASSUME NEW code, IsCode(code), code # <<>>, TargetsDefined(code)
    PROVE  BlockStarts(code) \subseteq 1..Len(code) /\ 1 \in BlockStarts(code)
<1>1. 1 \in 1..Len(code)
  BY DEF IsCode
<1>2. JumpTargets(code) \subseteq 1..Len(code)
  BY LabelIndexDefined DEF JumpTargets, TargetsDefined, IsCode
<1>3. After(code, TerminatorKinds) \subseteq 1..Len(code)
  BY DEF After, IsCode
<1> QED BY <1>1, <1>2, <1>3 DEF BlockStarts

(***************************************************************************)
(* The validator.                                                          *)
(***************************************************************************)

\* The block analysis of ValidateFunctionIR decides exactly whether the code
\* is well formed, whatever its length: the search for terminators inside
\* blocks never finds one, and the check of block ends is that of the last
\* instruction alone.
THEOREM ValidatorExactness ==
    ASSUME NEW code, IsCode(code), code # <<>>
    PROVE  ValidateFunctionIR(code) <=> WellFormed(code)
<1> DEFINE n == Len(code)
           starts == BlockStarts(code)
<1>1. n \in Nat \ {0} /\ DOMAIN code = 1..n
  BY DEF IsCode
<1>2. ASSUME ValidateFunctionIR(code) PROVE WellFormed(code)
  <2>1. TargetsDefined(code)
    BY <1>2 DEF ValidateFunctionIR
  <2>2. starts \subseteq 1..n /\ 1 \in starts
    BY <2>1, BlockStartsInside
  <2>3. PICK s \in starts : \A k \in starts : k <= s
    <3>1. starts \in SUBSET (0..n) /\ starts # {}
      BY <2>2
    <3> HIDE DEF starts
    <3> QED BY <1>1, <3>1, GreatestNatural
  <2>4. s \in 1..n
    BY <2>2, <2>3
  <2>5. BlockEnd(code, starts, s) = n
    <3> DEFINE e == BlockEnd(code, starts, s)
    <3>1. e \in s..n /\ (e = n \/ e + 1 \in starts)
      BY <1>1, <2>4, BlockEndExists
    <3> HIDE DEF e
    <3>2. e + 1 \notin starts
      BY <2>3, <2>4, <3>1
    <3> QED BY <3>1, <3>2 DEF e
  <2>6. code[n].kind \notin {"op", "label"}
    BY <1>2, <2>3, <2>5 DEF ValidateFunctionIR
  <2>7. IsTerminator(code[n])
    BY <1>1, <2>6 DEF IsTerminator, IsCode, InstructionKinds
  <2> QED BY <1>2, <2>7 DEF ValidateFunctionIR, WellFormed
<1>3. ASSUME WellFormed(code) PROVE ValidateFunctionIR(code)
  <2>1. starts \subseteq 1..n
    BY <1>3, BlockStartsInside DEF WellFormed
  <2>2. ASSUME NEW s \in starts,
               NEW k \in s..(BlockEnd(code, starts, s) - 1), IsTerminator(code[k])
        PROVE  FALSE
    <3> DEFINE e == BlockEnd(code, starts, s)
    <3>1. s \in 1..n
      BY <2>1
    <3>2. e \in s..n /\ \A j \in (s + 1)..e : j \notin starts
      BY <1>1, <3>1, BlockEndExists
    <3> HIDE DEF e
    <3>3. k + 1 \in 2..n /\ (k + 1) - 1 = k /\ k + 1 \in (s + 1)..e
      BY <3>1, <3>2 DEF e
    <3>4. k + 1 \in After(code, TerminatorKinds)
      BY <2>2, <3>3 DEF After, IsTerminator
    <3> QED BY <3>2, <3>3, <3>4 DEF BlockStarts
  <2>3. NoTerminatorInside(code, starts)
    BY <2>2 DEF NoTerminatorInside
  <2>4. code[n].kind \notin {"op", "label"}
    BY <1>3 DEF WellFormed, IsTerminator, TerminatorKinds
  <2> QED BY <1>3, <2>3, <2>4 DEF ValidateFunctionIR, WellFormed
<1> QED BY <1>2, <1>3

\* In code the validator accepts, control never leaves: every instruction but a
\* return leads to instructions of the same function.
THEOREM ValidatedCodeIsClosed ==
    ASSUME NEW code, IsCode(code), ValidateFunctionIR(code)
    PROVE  IsClosed(code)
<1> SUFFICES ASSUME NEW i \in DOMAIN code PROVE NextPCs(code, i) \subseteq DOMAIN code
  BY DEF IsClosed
<1>1. code # <<>>
  OBVIOUS
<1>2. WellFormed(code)
  BY <1>1, ValidatorExactness
<1>3. CASE code[i].kind \in {"jmp", "br"}
  <2>1. \A l \in Targets(code[i]) : LabelIndex(code, l) \in DOMAIN code
    BY <1>2, LabelIndexDefined DEF WellFormed, TargetsDefined
  <2>2. NextPCs(code, i) = {LabelIndex(code, l) : l \in Targets(code[i])}
    BY <1>3 DEF NextPCs
  <2> QED BY <2>1, <2>2
<1>4. CASE code[i].kind = "ret"
  BY <1>4 DEF NextPCs
<1>5. CASE code[i].kind \in {"label", "op"}
  <2>1. i # Len(code)
    BY <1>2, <1>5 DEF WellFormed, IsTerminator, TerminatorKinds
  <2>2. i + 1 \in DOMAIN code
    BY <2>1 DEF IsCode
  <2> QED BY <1>5, <2>2 DEF NextPCs
<1> QED BY <1>3, <1>4, <1>5 DEF IsCode, InstructionKinds, TerminatorKinds

(***************************************************************************)
(* The graph of cfg.Build.                                                 *)
(***************************************************************************)

\* In a graph cfg.Build returns, whatever the function, control leaves a block
\* only at its last instruction, and from there to the starts of exactly its
\* successor blocks.
THEOREM GraphExactness ==
    ASSUME NEW code, IsCode(code), code # <<>>, BuildAccepts(code),
           NEW s \in Leaders(code)
    PROVE  LET e == BlockEnd(code, Leaders(code), s) IN
           /\ NextPCs(code, e) = Successors(code, s)
           /\ \A i \in s..(e - 1) : NextPCs(code, i) = {i + 1}
<1> DEFINE n == Len(code)
           e == BlockEnd(code, Leaders(code), s)
<1>1. n \in Nat \ {0} /\ DOMAIN code = 1..n
  BY DEF IsCode
<1>2. WellFormed(code)
  BY ValidatorExactness DEF BuildAccepts
<1>3. s \in 1..n
  <2>1. JumpTargets(code) \subseteq 1..n
    BY <1>1, <1>2, LabelIndexDefined DEF JumpTargets, WellFormed, TargetsDefined
  <2>2. After(code, {"jmp", "br"}) \subseteq 1..n
    BY <1>1 DEF After
  <2> QED BY <1>1, <2>1, <2>2 DEF Leaders
<1>4. e \in s..n /\ (e = n \/ e + 1 \in Leaders(code))
  BY <1>1, <1>3, BlockEndExists
<1>5. e \in 1..n
  BY <1>1, <1>3, <1>4
<1>6. Successors(code, s) =
         CASE code[e].kind \in {"jmp", "br"} ->
                 {BlockAt(code, LabelIndex(code, l)) : l \in Targets(code[e])}
           [] code[e].kind = "ret" -> {}
           [] OTHER                -> {e + 1} \cap Leaders(code)
  BY DEF Successors
<1>7. \A k \in s..(e - 1) : code[k].kind \in InstructionKinds \ TerminatorKinds
  <2>1. \A k \in s..(e - 1) : ~IsTerminator(code[k])
    BY DEF BuildAccepts, NoTerminatorInside
  <2>2. \A k \in s..(e - 1) : k \in 1..n
    BY <1>3, <1>5
  <2> QED BY <1>1, <2>1, <2>2 DEF IsTerminator, IsCode
<1> HIDE DEF e
<1>8. NextPCs(code, e) = Successors(code, s)
  <2>1. CASE code[e].kind \in {"jmp", "br"}
    <3>1. \A l \in Targets(code[e]) : LabelIndex(code, l) \in Leaders(code)
      BY <1>1, <1>5 DEF Leaders, JumpTargets
    <3>2. \A l \in Targets(code[e]) :
             BlockAt(code, LabelIndex(code, l)) = LabelIndex(code, l)
      BY <3>1 DEF BlockAt
    <3> QED BY <1>6, <2>1, <3>2 DEF NextPCs
  <2>2. CASE code[e].kind = "ret"
    BY <1>6, <2>2 DEF NextPCs
  <2>3. CASE code[e].kind \notin {"jmp", "br", "ret"}
    <3>1. e # n
      BY <1>2, <2>3 DEF WellFormed, IsTerminator, TerminatorKinds
    <3> QED BY <1>4, <1>6, <2>3, <3>1 DEF NextPCs
  <2> QED BY <2>1, <2>2, <2>3
<1>9. \A i \in s..(e - 1) : NextPCs(code, i) = {i + 1}
  BY <1>7 DEF NextPCs, InstructionKinds, TerminatorKinds
<1> QED BY <1>8, <1>9 DEF e

=============================================================================
