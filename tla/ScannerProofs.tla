--------------------------- MODULE ScannerProofs ---------------------------
(***************************************************************************)
(* The scanner implements the stream of bytes, for every text, every size  *)
(* of the buffer and everything the reader may return.                     *)
(***************************************************************************)
EXTENDS Tokenizer, SequenceTheorems, FiniteSetTheorems, WellFoundedInduction, TLAPS

(***************************************************************************)
(* Line breaks.                                                            *)
(***************************************************************************)

Breaks(n) == {i \in 1..n : text[i] = NewLine}
taken == fed - remaining

\* The line breaks among the n bytes behind the first t, counted from there.
BreaksBehind(t, n) == {i \in 1..n : text[t + i] = NewLine}

LEMMA StreamPositions ==
    \A n : /\ Stream!LineAt(n) = Cardinality(Breaks(n)) + 1
           /\ Stream!ColumnAt(n) = n + 1 - Max(Breaks(n) \cup {0})
BY DEF Stream!LineAt, Stream!ColumnAt, Stream!LineBreaks, Breaks, Stream!Max, Max,
       Stream!Cardinality, Cardinality

\* The greatest element of a set of naturals, where there is one.
LEMMA MaxIs ==
    ASSUME NEW S \in SUBSET Nat, NEW m \in S, \A k \in S : k <= m
    PROVE  Max(S) = m
<1>1. m \in S /\ \A k \in S : m >= k
  OBVIOUS
<1>2. ASSUME NEW x \in S, \A k \in S : x >= k PROVE x = m
  BY <1>1, <1>2
<1> QED BY <1>1, <1>2 DEF Max

\* A non-empty set of naturals has a least element.
LEMMA LeastNatural ==
    ASSUME NEW T \in SUBSET Nat, T # {}
    PROVE  \E m \in T : \A k \in T : m <= k
<1>1. PICK m \in T : \A k \in T : ~ (<<k, m>> \in OpToRel(<, Nat))
  BY WFMin, NatLessThanWellFounded
<1>2. \A k \in T : m <= k
  <2> TAKE k \in T
  <2>1. ~ (k < m)
    BY <1>1 DEF OpToRel
  <2> QED BY <2>1
<1> QED BY <1>2

\* A non-empty set of naturals below a bound has a greatest element.
LEMMA GreatestNatural ==
    ASSUME NEW n \in Nat, NEW T \in SUBSET (0..n), T # {}
    PROVE  \E m \in T : \A k \in T : k <= m
<1> DEFINE U == {n - k : k \in T}
<1>1. U \in SUBSET Nat
  <2> SUFFICES ASSUME NEW k \in T PROVE n - k \in Nat
    OBVIOUS
  <2> QED BY k \in 0..n
<1>2. U # {}
  <2> PICK k \in T : TRUE
    OBVIOUS
  <2> n - k \in U
    OBVIOUS
  <2> QED OBVIOUS
<1>3. PICK u \in U : \A k \in U : u <= k
  <2> HIDE DEF U
  <2> QED BY <1>1, <1>2, LeastNatural
<1>4. PICK m \in T : u = n - m
  OBVIOUS
<1>5. ASSUME NEW k \in T PROVE k <= m
  <2>1. n - m <= n - k
    BY <1>3, <1>4
  <2> QED BY <2>1, k \in 0..n, m \in 0..n
<1> QED BY <1>5

LEMMA MaxExists ==
    ASSUME NEW n \in Nat, NEW S \in SUBSET (0..n), S # {}
    PROVE  Max(S) \in S /\ \A k \in S : k <= Max(S)
<1>1. PICK m \in S : \A k \in S : k <= m
  BY GreatestNatural
<1>2. Max(S) = m
  BY <1>1, MaxIs
<1> QED BY <1>1, <1>2

LEMMA BreaksFinite ==
    ASSUME NEW n \in Nat
    PROVE  IsFiniteSet(Breaks(n)) /\ Cardinality(Breaks(n)) \in Nat /\ Breaks(n) \in SUBSET (1..n)
<1>1. Breaks(n) \in SUBSET (1..n) /\ IsFiniteSet(1..n)
  BY FS_Interval DEF Breaks
<1> QED BY <1>1, FS_Subset, FS_CardinalityType

\* Where n bytes follow t others, their line breaks add up.
LEMMA BreaksAddUp ==
    ASSUME NEW t \in Nat, NEW n \in Nat
    PROVE  /\ Cardinality(Breaks(t + n)) = Cardinality(Breaks(t)) + Cardinality(BreaksBehind(t, n))
           /\ Breaks(t + n) = Breaks(t) \cup {t + i : i \in BreaksBehind(t, n)}
           /\ Cardinality(BreaksBehind(t, n)) \in Nat
<1> DEFINE B == BreaksBehind(t, n)
           C == {t + i : i \in B}
<1>0. B \in SUBSET (1..n) /\ \A i \in 1..n : i \in B <=> text[t + i] = NewLine
  BY DEF BreaksBehind
<1>1. IsFiniteSet(B) /\ Cardinality(B) \in Nat
  <2>1. IsFiniteSet(1..n)
    BY FS_Interval
  <2> QED BY <1>0, <2>1, FS_Subset, FS_CardinalityType
<1> HIDE DEF B
<1>2. Breaks(t + n) = Breaks(t) \cup C
  <2>1. ASSUME NEW j \in Breaks(t + n) PROVE j \in Breaks(t) \cup C
    <3>1. j \in 1..(t + n) /\ text[j] = NewLine
      BY DEF Breaks
    <3>2. CASE j <= t
      BY <3>1, <3>2 DEF Breaks
    <3>3. CASE j > t
      <4>1. j - t \in 1..n /\ t + (j - t) = j
        BY <3>1, <3>3
      <4>2. j - t \in B
        BY <1>0, <3>1, <4>1
      <4> QED BY <4>1, <4>2
    <3> QED BY <3>1, <3>2, <3>3
  <2>2. ASSUME NEW j \in Breaks(t) PROVE j \in Breaks(t + n)
    BY DEF Breaks
  <2>3. ASSUME NEW i \in B PROVE t + i \in Breaks(t + n)
    BY <1>0 DEF Breaks
  <2> QED BY <2>1, <2>2, <2>3
<1>3. Breaks(t) \cap C = {}
  <2> SUFFICES ASSUME NEW i \in B, t + i \in Breaks(t) PROVE FALSE
    OBVIOUS
  <2> QED BY <1>0, i \in 1..n DEF Breaks
<1>4. IsFiniteSet(C) /\ Cardinality(C) = Cardinality(B)
  <2> DEFINE f == [i \in B |-> t + i]
  <2>1. f \in Bijection(B, C)
    <3>1. f \in [B -> C]
      OBVIOUS
    <3>2. \A i, j \in B : f[i] = f[j] => i = j
      <4> SUFFICES ASSUME NEW i \in B, NEW j \in B, t + i = t + j PROVE i = j
        OBVIOUS
      <4> QED BY <1>0, i \in 1..n, j \in 1..n
    <3>3. \A c \in C : \E i \in B : f[i] = c
      OBVIOUS
    <3> QED BY <3>1, <3>2, <3>3 DEF Bijection, Injection, IsInjective, Surjection
  <2>2. ExistsBijection(B, C)
    BY <2>1 DEF ExistsBijection
  <2> QED BY <1>1, <2>2, FS_Bijection
<1>5. Cardinality(Breaks(t) \cup C) = Cardinality(Breaks(t)) + Cardinality(C)
  <2>1. IsFiniteSet(Breaks(t)) /\ Cardinality(Breaks(t)) \in Nat
    BY BreaksFinite
  <2>2. Cardinality(Breaks(t) \cap C) = 0
    BY <1>3, FS_EmptySet
  <2>3. Cardinality(C) \in Nat
    BY <1>4, FS_CardinalityType
  <2>4. Cardinality(Breaks(t) \cup C) =
            Cardinality(Breaks(t)) + Cardinality(C) - Cardinality(Breaks(t) \cap C)
    BY <1>4, <2>1, FS_Union
  <2> HIDE DEF C
  <2> QED BY <2>1, <2>2, <2>3, <2>4
<1> QED BY <1>1, <1>2, <1>4, <1>5 DEF B

LEMMA LastBreak ==
    ASSUME NEW t \in Nat, NEW n \in Nat
    PROVE  t + n + 1 - Max(Breaks(t + n) \cup {0}) =
               IF BreaksBehind(t, n) = {} THEN t + 1 - Max(Breaks(t) \cup {0}) + n
               ELSE n + 1 - Max(BreaksBehind(t, n))
<1> DEFINE B == BreaksBehind(t, n)
<1>0. B \in SUBSET (1..n)
  BY DEF BreaksBehind
<1>1. Breaks(t + n) = Breaks(t) \cup {t + i : i \in B}
  BY BreaksAddUp
<1>2. Breaks(t) \cup {0} \in SUBSET (0..t)
  BY DEF Breaks
<1>3. CASE B = {}
  <2>1. Breaks(t + n) = Breaks(t)
    BY <1>1, <1>3
  <2> DEFINE m == Max(Breaks(t) \cup {0})
  <2>2. m \in 0..t
    BY <1>2, MaxExists
  <2> HIDE DEF m
  <2>3. t + n + 1 - m = t + 1 - m + n
    BY <2>2
  <2> QED BY <1>3, <2>1, <2>3 DEF m
<1>4. CASE B # {}
  <2>1. B \in SUBSET (0..n)
    BY <1>0
  <2>2. Max(B) \in B /\ \A k \in B : k <= Max(B)
    BY <1>4, <2>1, MaxExists
  <2> DEFINE S == Breaks(t + n) \cup {0}
             m == Max(B)
  <2> HIDE DEF m
  <2>3. m \in 1..n
    BY <1>0, <2>2 DEF m
  <2>4. S \in SUBSET Nat /\ t + m \in S
    BY <1>1, <2>2, <2>3 DEF Breaks, m
  <2>5. ASSUME NEW k \in S PROVE k <= t + m
    <3>1. CASE k \in Breaks(t) \cup {0}
      BY <1>2, <2>3, <3>1
    <3>2. CASE k \in {t + i : i \in B}
      <4>1. PICK i \in B : k = t + i
        BY <3>2
      <4>2. i <= m /\ i \in 1..n
        BY <1>0, <2>2 DEF m
      <4> QED BY <2>3, <4>1, <4>2
    <3> QED BY <1>1, <3>1, <3>2
  <2>6. Max(S) = t + m
    BY <2>4, <2>5, MaxIs
  <2>7. t + n + 1 - (t + m) = n + 1 - m
    BY <2>3
  <2> QED BY <1>4, <2>6, <2>7 DEF m
<1> QED BY <1>3, <1>4

(***************************************************************************)
(* The invariant of the scanner.                                           *)
(***************************************************************************)

Characters == Bytes \cup {NoByte}

\* The buffer holds the bytes that were read last, and the position is that of
\* the next byte.
ScannerInv ==
    /\ text \in Seq(Bytes) /\ buff \in Seq(Bytes)
    /\ fed \in 0..Len(text) /\ Len(buff) <= fed /\ pos \in 0..Len(buff)
    /\ \A i \in 1..Len(buff) : buff[i] = text[(fed - Len(buff)) + i]
    /\ err \in Errors \cup {NoError}
    /\ err = EOF => fed = Len(text)
    /\ line = Cardinality(Breaks(taken)) + 1
    /\ column = taken + 1 - Max(Breaks(taken) \cup {0})
    /\ raw \in Seq(Characters)

LEMMA CountersTyped ==
    ASSUME ScannerInv
    PROVE  /\ remaining \in Nat /\ remaining <= Len(buff) /\ Len(buff) \in Nat /\ Len(text) \in Nat
           /\ taken \in Nat /\ taken <= fed /\ taken = (fed - Len(buff)) + pos
           /\ pos + remaining = Len(buff)
<1>1. Len(buff) \in Nat /\ Len(text) \in Nat
  BY LenProperties DEF ScannerInv
<1> QED BY <1>1 DEF ScannerInv, remaining, taken

\* Nothing is taken.
LEMMA KeepIsGive ==
    ASSUME ScannerInv, raw' \in Seq(Characters), Keep
    PROVE  ScannerInv' /\ Stream!Next
<1>1. UNCHANGED <<text, fed, buff, pos, err, line, column>> /\ failure' = NoError
  BY DEF Keep
<1>2. fed \in fed..Len(text)
  BY CountersTyped DEF ScannerInv
<1>3. UNCHANGED taken
  BY <1>1 DEF taken, remaining
<1>4. Stream!Give
  BY <1>1, <1>2, <1>3 DEF Stream!Give, taken
<1> QED BY <1>1, <1>3, <1>4 DEF ScannerInv, Breaks, Stream!Next

\* Bytes are taken.
LEMMA PopIsTake ==
    ASSUME ScannerInv, raw' \in Seq(Characters), NEW n \in Nat, n <= remaining, Pop(n)
    PROVE  ScannerInv' /\ Stream!Next
<1> DEFINE B == {i \in 1..n : buff[pos + i] = NewLine}
           t == taken
<1>1. /\ pos' = pos + n /\ line' = line + Cardinality(B)
      /\ column' = IF B = {} THEN column + n ELSE n + 1 - Max(B)
      /\ failure' = NoError /\ UNCHANGED <<text, fed, buff, err>>
  BY DEF Pop
<1>2. /\ t \in Nat /\ t = (fed - Len(buff)) + pos /\ t <= fed
      /\ pos + remaining = Len(buff) /\ remaining \in Nat
      /\ pos \in Nat /\ fed \in Nat /\ Len(buff) \in Nat
  BY CountersTyped DEF ScannerInv
<1>3. taken' = t + n /\ t + n <= fed /\ pos + n <= Len(buff)
  BY <1>1, <1>2 DEF taken, remaining
<1> HIDE DEF t
<1>4. \A i \in 1..n : buff[pos + i] = text[t + i]
  <2> SUFFICES ASSUME NEW i \in 1..n PROVE buff[pos + i] = text[t + i]
    OBVIOUS
  <2>1. pos + i \in 1..Len(buff) /\ (fed - Len(buff)) + (pos + i) = t + i
    BY <1>2, <1>3
  <2> QED BY <2>1 DEF ScannerInv
<1>5. B = BreaksBehind(t, n)
  BY <1>4 DEF BreaksBehind
<1> HIDE DEF B
<1>6. /\ Cardinality(Breaks(t + n)) = Cardinality(Breaks(t)) + Cardinality(B)
      /\ Cardinality(B) \in Nat
      /\ t + n + 1 - Max(Breaks(t + n) \cup {0}) =
             IF B = {} THEN t + 1 - Max(Breaks(t) \cup {0}) + n ELSE n + 1 - Max(B)
  <2>1. t \in Nat /\ n \in Nat
    BY <1>1, <1>2
  <2>2. /\ Cardinality(Breaks(t + n)) = Cardinality(Breaks(t)) + Cardinality(BreaksBehind(t, n))
        /\ Cardinality(BreaksBehind(t, n)) \in Nat
    BY <2>1, BreaksAddUp
  <2>3. t + n + 1 - Max(Breaks(t + n) \cup {0}) =
            IF BreaksBehind(t, n) = {} THEN t + 1 - Max(Breaks(t) \cup {0}) + n
            ELSE n + 1 - Max(BreaksBehind(t, n))
    BY <2>1, LastBreak
  <2> QED BY <1>5, <2>2, <2>3
<1>7. Cardinality(Breaks(t)) \in Nat
  BY <1>2, BreaksFinite
<1>8. line = Cardinality(Breaks(t)) + 1 /\ column = t + 1 - Max(Breaks(t) \cup {0})
  BY DEF ScannerInv, t
<1>9. /\ line' = Cardinality(Breaks(t + n)) + 1
      /\ column' = t + n + 1 - Max(Breaks(t + n) \cup {0})
  BY <1>1, <1>6, <1>7, <1>8
<1>10. Breaks(taken)' = Breaks(t + n)
  BY <1>1, <1>3 DEF Breaks
<1>11. ScannerInv'
  <2>1. /\ line' = Cardinality(Breaks(taken)') + 1
        /\ column' = taken' + 1 - Max(Breaks(taken)' \cup {0})
    BY <1>3, <1>9, <1>10
  <2>2. pos' \in 0..Len(buff)
    BY <1>1, <1>2, <1>3
  <2> QED BY <1>1, <2>1, <2>2 DEF ScannerInv
<1>12. Stream!Take
  <2>1. taken' \in t..fed
    BY <1>2, <1>3
  <2>2. Stream!LineAt(taken') = line' /\ Stream!ColumnAt(taken') = column'
    BY <1>3, <1>9, StreamPositions
  <2> QED BY <1>1, <2>1, <2>2 DEF Stream!Take, taken, t
<1> QED BY <1>11, <1>12 DEF Stream!Next

\* The buffer is filled when it is empty.
LEMMA RefillImplements ==
    ASSUME ScannerInv, Refill
    PROVE  ScannerInv' /\ Stream!Next
<1>1. remaining = 0 /\ taken = fed /\ FillBuffer /\ UNCHANGED raw
  <2>1. remaining = 0
    BY CountersTyped DEF Refill, ready
  <2>2. fed - 0 = fed
    BY CountersTyped DEF ScannerInv
  <2> QED BY <2>1, <2>2 DEF Refill, taken, lexVars, Stop
<1>2. fed \in Nat /\ Len(text) \in Nat /\ fed <= Len(text)
  BY CountersTyped DEF ScannerInv
<1>3. CASE ReturnStoredError
  <2>1. /\ err # NoError /\ failure' = err /\ err' = NoError
        /\ UNCHANGED <<text, fed, buff, pos, line, column>>
    BY <1>3 DEF ReturnStoredError
  <2>2. UNCHANGED taken
    BY <2>1 DEF taken, remaining
  <2>3. Stream!Report
    BY <1>1, <2>1, <2>2 DEF Stream!Report, ScannerInv, taken
  <2>4. ScannerInv'
    BY <1>1, <2>1, <2>2 DEF ScannerInv, Breaks, NoError, EOF
  <2> QED BY <2>3, <2>4 DEF Stream!Next
<1>4. CASE ReadReader
  <2>1. PICK r \in ReadResults :
            IF r[1] = 0 /\ r[2] # NoError
            THEN failure' = r[2] /\ UNCHANGED <<fed, buff, pos, err>>
            ELSE /\ buff' = SubSeq(text, fed + 1, fed + r[1])
                 /\ fed' = fed + r[1]
                 /\ pos' = 0
                 /\ err' = r[2]
                 /\ failure' = NoError
    BY <1>4 DEF ReadReader
  <2>2. UNCHANGED <<text, line, column>>
    BY <1>4 DEF ReadReader
  <2>3. /\ r[1] \in Nat /\ r[2] \in Errors \cup {NoError} /\ fed + r[1] <= Len(text)
        /\ r[2] = EOF => fed + r[1] = Len(text)
    BY BufferAssumption DEF ReadResults
  <2>4. CASE r[1] = 0 /\ r[2] # NoError
    <3>1. failure' = r[2] /\ UNCHANGED <<fed, buff, pos, err>>
      BY <2>1, <2>4
    <3>2. UNCHANGED taken
      BY <3>1 DEF taken, remaining
    <3>3. failure' \in Errors /\ (failure' = EOF => fed = Len(text))
      BY <1>2, <2>3, <2>4, <3>1
    <3>4. Stream!Report
      BY <1>1, <2>2, <3>1, <3>2, <3>3 DEF Stream!Report, taken
    <3>5. ScannerInv'
      BY <1>1, <2>2, <3>1, <3>2 DEF ScannerInv, Breaks
    <3> QED BY <3>4, <3>5 DEF Stream!Next
  <2>5. CASE ~(r[1] = 0 /\ r[2] # NoError)
    <3> DEFINE n == r[1]
    <3>1. /\ buff' = SubSeq(text, fed + 1, fed + n) /\ fed' = fed + n /\ pos' = 0
          /\ err' = r[2] /\ failure' = NoError
      BY <2>1, <2>5
    <3>2. n \in Nat /\ fed + n <= Len(text)
      BY <2>3
    <3> HIDE DEF n
    <3>3. /\ buff' \in Seq(Bytes) /\ Len(buff') = n
          /\ \A i \in 1..n : buff'[i] = text[fed + i]
      <4>1. text \in Seq(Bytes) /\ fed + 1 \in Int /\ fed + n \in Int
        BY <1>2, <3>2 DEF ScannerInv
      <4>2. \A i \in (fed + 1)..(fed + n) : text[i] \in Bytes
        BY <1>2, <3>2, <4>1, ElementOfSeq
      <4>3. /\ SubSeq(text, fed + 1, fed + n) \in Seq(Bytes)
            /\ Len(SubSeq(text, fed + 1, fed + n)) =
                   IF fed + 1 <= fed + n THEN (fed + n) - (fed + 1) + 1 ELSE 0
            /\ \A i \in 1..((fed + n) - (fed + 1) + 1) :
                   SubSeq(text, fed + 1, fed + n)[i] = text[fed + 1 + i - 1]
        BY <4>1, <4>2, SubSeqProperties
      <4>4. /\ (fed + n) - (fed + 1) + 1 = n /\ (fed + 1 <= fed + n <=> n # 0)
            /\ \A i \in 1..n : fed + 1 + i - 1 = fed + i
        BY <1>2, <3>2
      <4> QED BY <3>1, <4>3, <4>4
    <3>4. taken' = fed /\ fed' \in fed..Len(text) /\ (fed + n) - n = fed
      BY <1>2, <3>1, <3>2, <3>3 DEF taken, remaining
    <3>5. Stream!Give
      BY <1>1, <2>2, <3>1, <3>4 DEF Stream!Give, taken
    <3>6. ScannerInv'
      <4>1. /\ text' \in Seq(Bytes) /\ buff' \in Seq(Bytes)
            /\ fed' \in 0..Len(text') /\ Len(buff') <= fed' /\ pos' \in 0..Len(buff')
        <5>1. text' \in Seq(Bytes) /\ buff' \in Seq(Bytes)
          BY <2>2, <3>3 DEF ScannerInv
        <5>2. fed + n \in 0..Len(text) /\ n <= fed + n /\ 0 \in 0..n
          BY <1>2, <3>2
        <5>3. fed' = fed + n /\ Len(buff') = n /\ pos' = 0 /\ text' = text
          BY <2>2, <3>1, <3>3
        <5> QED BY <5>1, <5>2, <5>3
      <4>2. \A i \in 1..Len(buff') : buff'[i] = text'[(fed' - Len(buff')) + i]
        BY <2>2, <3>1, <3>3, <3>4
      <4>3. err' \in Errors \cup {NoError} /\ (err' = EOF => fed' = Len(text'))
        BY <2>2, <2>3, <3>1 DEF n
      <4>4. Breaks(taken)' = Breaks(taken) /\ UNCHANGED taken
        BY <1>1, <2>2, <3>4 DEF Breaks
      <4> QED BY <1>1, <2>2, <4>1, <4>2, <4>3, <4>4 DEF ScannerInv
    <3> QED BY <3>5, <3>6 DEF Stream!Next
  <2> QED BY <2>4, <2>5
<1> QED BY <1>1, <1>3, <1>4 DEF FillBuffer

(***************************************************************************)
(* The tokenizer uses the scanner as it should.                            *)
(***************************************************************************)

\* What the tokenizer takes is in the buffer, or it takes nothing.
Uses ==
    /\ Keep \/ (\E n \in Nat : n <= remaining /\ Pop(n))
    /\ raw' \in Seq(Characters)

LEMMA UsesImplement ==
    ASSUME ScannerInv, Uses
    PROVE  ScannerInv' /\ Stream!Next
BY KeepIsGive, PopIsTake DEF Uses

LEMMA ByteTyped ==
    ASSUME ScannerInv
    PROVE  /\ b \in Characters /\ (b # NoByte => remaining >= 1)
           /\ Append(raw, b) \in Seq(Characters) /\ <<>> \in Seq(Characters)
<1>1. remaining > 0 => buff[pos + 1] \in Bytes
  <2> SUFFICES ASSUME remaining > 0 PROVE buff[pos + 1] \in Bytes
    OBVIOUS
  <2>1. buff \in Seq(Bytes) /\ pos + 1 \in 1..Len(buff)
    BY CountersTyped DEF ScannerInv
  <2> QED BY <2>1, ElementOfSeq
<1>2. b \in Characters /\ (b # NoByte => remaining >= 1)
  BY <1>1, CountersTyped DEF b, Characters
<1> QED BY <1>2, AppendProperties, EmptySeq DEF ScannerInv

\* A place that does not tolerate the end of the file has a byte.
LEMMA ByteThere ==
    ASSUME ScannerInv, ready, fn \notin EndTolerated
    PROVE  remaining >= 1
BY CountersTyped DEF ready, atEnd

LEMMA PopOne ==
    ASSUME ScannerInv, remaining >= 1, Pop(1), raw' \in Seq(Characters)
    PROVE  Uses
BY CountersTyped DEF Uses

LEMMA TakeOne ==
    ASSUME ScannerInv, remaining >= 1, NEW place, TakeTo(place)
    PROVE  Uses
BY PopOne, ByteTyped DEF TakeTo

LEMMA LeaveOne ==
    ASSUME ScannerInv, NEW place, LeaveTo(place)
    PROVE  Uses
BY DEF LeaveTo, Uses, ScannerInv

\* A token or an error leaves an accumulator.
LEMMA EmitClears ==
    ASSUME NEW kind, NEW spelling, Emit(kind, spelling)
    PROVE  raw' \in Seq(Characters)
BY EmptySeq DEF Emit, Restart

LEMMA StopKeeps ==
    ASSUME ScannerInv, NEW error, Stop(error)
    PROVE  raw' \in Seq(Characters)
BY DEF Stop, ScannerInv

LEMMA ConcatTyped ==
    ASSUME NEW S, NEW s \in Seq(S), NEW t \in Seq(S)
    PROVE  s \o t \in Seq(S)
BY ConcatProperties

LEMMA ReadClassUses ==
    ASSUME ScannerInv, ReadClass
    PROVE  Uses
<1> DEFINE cls == ClassOf[fn]
           n == InClass(cls)
           data == SubSeq(buff, pos + 1, pos + n)
<1>1. n \in Nat /\ n <= remaining
  <2> DEFINE S == {m \in 0..remaining : \A i \in 1..m : buff[pos + i] \in cls}
  <2>1. remaining \in Nat /\ 0 \in S /\ S \in SUBSET (0..remaining)
    BY CountersTyped
  <2>2. Max(S) \in S
    BY <2>1, MaxExists
  <2>3. n = Max(S)
    BY DEF InClass
  <2> HIDE DEF n, cls
  <2>4. n \in 0..remaining
    BY <2>1, <2>2, <2>3
  <2> QED BY <2>1, <2>4
<1> HIDE DEF n, cls
<1>2. raw \o data \in Seq(Characters)
  <2>1. /\ pos \in Nat /\ pos + n <= Len(buff) /\ Len(buff) \in Nat
        /\ buff \in Seq(Bytes) /\ raw \in Seq(Characters)
    BY <1>1, CountersTyped DEF ScannerInv
  <2>2. \A i \in (pos + 1)..(pos + n) : buff[i] \in Characters
    BY <1>1, <2>1, ElementOfSeq DEF Characters
  <2>3. data \in Seq(Characters)
    BY <1>1, <2>1, <2>2, SubSeqProperties
  <2> QED BY <2>1, <2>3, ConcatProperties
<1>3. Keep \/ Pop(n)
  BY DEF ReadClass, n, cls
<1>4. raw' = <<>> \/ raw' = raw \/ raw' = raw \o data
  BY DEF ReadClass, Restart, Emit, Stop, n, cls
<1>5. raw' \in Seq(Characters)
  BY <1>2, <1>4, EmptySeq DEF ScannerInv
<1> QED BY <1>1, <1>3, <1>5 DEF Uses

LEMMA PairsHaveTwo ==
    ASSUME NEW p \in Pairs \cup {<<"/", "/">>, <<"/", "*">>}
    PROVE  Len(p) = 2 /\ p[2] # NoByte
<1>1. CASE p \in EqualPairs
  <2>1. PICK c \in {"-", "+", "&", "*", "!", "/", "%", "<", ">", "^", "|", "="} : p = <<c, "=">>
    BY <1>1 DEF EqualPairs
  <2> QED BY <2>1 DEF NoByte
<1>2. CASE p \in Shifts \cup {<<"/", "/">>, <<"/", "*">>}
  BY <1>2 DEF Shifts, NoByte
<1>3. CASE p \in DOMAIN Digraphs
  <2>1. p \in {<<"<", ":">>, <<":", ">">>, <<"<", "%">>, <<"%", ">">>, <<"%", ":">>}
    BY <1>3 DEF Digraphs
  <2> QED BY <2>1 DEF NoByte
<1>4. CASE p \in {<<"#", "#">>, <<"-", ">">>, <<"-", "-">>, <<"+", "+">>, <<"&", "&">>, <<"|", "|">>}
  BY <1>4 DEF NoByte
<1> QED BY <1>1, <1>2, <1>3, <1>4 DEF Pairs

\* A pair of bytes has a second one.
LEMMA PairTaken ==
    ASSUME ScannerInv, Append(raw, b) \in Pairs \cup {<<"/", "/">>, <<"/", "*">>}
    PROVE  b # NoByte
<1> DEFINE p == Append(raw, b)
<1>1. Len(p) = Len(raw) + 1 /\ p[Len(raw) + 1] = b /\ Len(raw) \in Nat
  BY ByteTyped, AppendProperties, LenProperties DEF ScannerInv
<1>2. Len(p) = 2 /\ p[2] # NoByte
  BY PairsHaveTwo
<1> HIDE DEF p
<1>3. Len(raw) + 1 = 2
  BY <1>1, <1>2
<1> QED BY <1>1, <1>2, <1>3

LEMMA PunctuationUses ==
    ASSUME ScannerInv, Punctuation
    PROVE  Uses
<1> DEFINE two == Append(raw, b)
<1>1. two \in Pairs \cup {<<"/", "/">>, <<"/", "*">>} => remaining >= 1
  BY PairTaken, ByteTyped
<1>2. Shifts \subseteq Pairs
  BY DEF Pairs
<1> HIDE DEF two
<1>3. CASE two \in Pairs \ Shifts /\ Pop(1) /\ Emit(PunctuationKind(two), two)
  BY <1>1, <1>3, PopOne, EmitClears
<1>4. CASE two \in Shifts /\ TakeTo("shift")
  BY <1>1, <1>2, <1>4, TakeOne
<1>5. CASE two = <<"/", "/">> /\ Pop(1) /\ Goto("comment") /\ raw' = <<>>
  BY <1>1, <1>5, PopOne, EmptySeq
<1>6. CASE two = <<"/", "*">> /\ Pop(1) /\ Stop(Unsupported)
  BY <1>1, <1>6, PopOne, StopKeeps
<1>7. CASE Keep /\ Emit(raw, raw)
  BY <1>7, EmitClears DEF Uses
<1>8. CASE Keep /\ Stop(Unsupported)
  BY <1>8, StopKeeps DEF Uses
<1> QED BY <1>3, <1>4, <1>5, <1>6, <1>7, <1>8 DEF Punctuation, two

\* Every other action of the tokenizer.
LEMMA ActionsUse ==
    ASSUME ScannerInv,
           Lex \/ Zero \/ NumberTail \/ Suffix \/ Shift \/ CommentEnd \/ LiteralTail \/ LiteralEscape
    PROVE  Uses
<1>b. b # NoByte => remaining >= 1
  BY ByteTyped
<1>1. CASE Lex
  <2>1. remaining >= 1
    BY <1>1, ByteThere DEF Lex, At, EndTolerated
  <2>2. (\E place : LeaveTo(place)) \/ (\E place : TakeTo(place))
    BY <1>1 DEF Lex
  <2> QED BY <2>1, <2>2, TakeOne, LeaveOne
<1>2. CASE Zero
  <2>1. \/ Keep /\ Emit("integer", raw)
        \/ b = "x" /\ TakeTo("hexFirst")
        \/ LeaveTo("octal")
    BY <1>2 DEF Zero
  <2>2. "x" # NoByte
    BY DEF NoByte
  <2>3. CASE Keep /\ Emit("integer", raw)
    BY <2>3, EmitClears DEF Uses
  <2> QED BY <1>b, <2>1, <2>2, <2>3, TakeOne, LeaveOne
<1>3. CASE NumberTail
  <2>1. (Keep /\ Stop(Unsupported)) \/ LeaveTo("suffix")
    BY <1>3 DEF NumberTail
  <2> QED BY <2>1, StopKeeps, LeaveOne DEF Uses
<1>4. CASE Suffix
  <2>1. \/ b = "l" /\ \E place : TakeTo(place)
        \/ b = "u" /\ Pop(1) /\ Emit("integer", Append(raw, b))
        \/ Keep /\ Emit("integer", raw)
    BY <1>4 DEF Suffix
  <2>2. "l" # NoByte /\ "u" # NoByte
    BY DEF NoByte
  <2>3. CASE b = "l" /\ \E place : TakeTo(place)
    BY <1>b, <2>2, <2>3, TakeOne
  <2>4. CASE b = "u" /\ Pop(1) /\ Emit("integer", Append(raw, b))
    BY <1>b, <2>2, <2>4, PopOne, EmitClears
  <2>5. CASE Keep /\ Emit("integer", raw)
    BY <2>5, EmitClears DEF Uses
  <2> QED BY <2>1, <2>3, <2>4, <2>5
<1>5. CASE Shift
  <2>1. \/ b = "=" /\ Pop(1) /\ Emit(Append(raw, b), Append(raw, b))
        \/ Keep /\ Emit(raw, raw)
    BY <1>5 DEF Shift
  <2>2. "=" # NoByte
    BY DEF NoByte
  <2>3. CASE b = "=" /\ Pop(1) /\ Emit(Append(raw, b), Append(raw, b))
    BY <1>b, <2>2, <2>3, PopOne, EmitClears
  <2>4. CASE Keep /\ Emit(raw, raw)
    BY <2>4, EmitClears DEF Uses
  <2> QED BY <2>1, <2>3, <2>4
<1>6. CASE CommentEnd
  <2>1. remaining >= 1
    BY <1>6, ByteThere DEF CommentEnd, At, EndTolerated
  <2>2. Pop(1) /\ raw' \in Seq(Characters)
    BY <1>6 DEF CommentEnd, ScannerInv
  <2> QED BY <2>1, <2>2, PopOne
<1>7. CASE LiteralTail
  <2>1. remaining >= 1
    BY <1>7, ByteThere DEF LiteralTail, At, EndTolerated
  <2>2. \/ Pop(1) /\ Emit(Body, Append(raw, b))
        \/ Keep /\ Stop(Malformed)
        \/ Pop(1) /\ UNCHANGED raw
    BY <1>7 DEF LiteralTail
  <2>3. raw' \in Seq(Characters)
    BY <2>2, EmitClears, StopKeeps DEF ScannerInv
  <2> QED BY <2>1, <2>2, <2>3, PopOne DEF Uses
<1>8. CASE LiteralEscape
  <2>1. remaining >= 1
    BY <1>8, ByteThere DEF LiteralEscape, At, EndTolerated
  <2>2. \/ Pop(1) /\ UNCHANGED raw
        \/ Pop(1) /\ (raw' = raw \o <<b>> \/ raw' = raw \o <<"\\", b>>)
        \/ Keep /\ Stop(Unsupported)
    BY <1>8 DEF LiteralEscape
  <2>3. <<b>> \in Seq(Characters) /\ <<"\\", b>> \in Seq(Characters)
    <3>1. "\\" \in Characters /\ b \in Characters
      BY ByteTyped DEF Characters, Bytes
    <3> QED BY <3>1
  <2>4. raw \in Seq(Characters)
    BY DEF ScannerInv
  <2>5. CASE UNCHANGED raw
    BY <2>1, <2>2, <2>4, <2>5, PopOne DEF Uses
  <2>6. CASE Pop(1) /\ (raw' = raw \o <<b>> \/ raw' = raw \o <<"\\", b>>)
    <3>1. raw' \in Seq(Characters)
      <4>1. raw \o <<b>> \in Seq(Characters) /\ raw \o <<"\\", b>> \in Seq(Characters)
        BY <2>3, <2>4, ConcatTyped
      <4> QED BY <2>6, <4>1
    <3> QED BY <2>1, <2>6, <3>1, PopOne
  <2>7. CASE Keep /\ Stop(Unsupported)
    BY <2>7, StopKeeps DEF Uses
  <2> QED BY <2>1, <2>2, <2>5, <2>6, <2>7, PopOne
<1> QED BY <1>1, <1>2, <1>3, <1>4, <1>5, <1>6, <1>7, <1>8

(***************************************************************************)
(* The refinement.                                                         *)
(***************************************************************************)

\* The scanner under the tokenizer is the stream of bytes it promises to be, for
\* every text, every size of the buffer and every reader.
THEOREM ScannerImplementsStream == Spec => ScannerIsStream
<1>1. Init => ScannerInv /\ Stream!Init
  <2> SUFFICES ASSUME Init PROVE ScannerInv /\ Stream!Init
    OBVIOUS
  <2>1. /\ text \in Seq(Bytes) /\ Len(text) \in Nat /\ buff = <<>> /\ Len(buff) = 0
        /\ fed = 0 /\ pos = 0 /\ line = 1 /\ column = 1 /\ err = NoError /\ failure = NoError
        /\ raw = <<>>
    BY TextsAssumption, LenProperties, EmptySeq DEF Init, ScannerInit
  <2>2. taken = 0
    <3>1. remaining = 0
      BY <2>1 DEF remaining
    <3> QED BY <2>1, <3>1 DEF taken
  <2>3. Breaks(0) = {}
    BY DEF Breaks
  <2>4. Cardinality(Breaks(0)) = 0 /\ Max(Breaks(0) \cup {0}) = 0
    <3>1. Max({0}) = 0
      BY MaxIs
    <3>2. Breaks(0) \cup {0} = {0}
      BY <2>3
    <3> QED BY <2>3, <3>1, <3>2, FS_EmptySet
  <2>5. ScannerInv
    BY <2>1, <2>2, <2>4, EmptySeq DEF ScannerInv, NoError, EOF
  <2> QED BY <2>1, <2>2, <2>5 DEF Stream!Init, taken
<1>2. ScannerInv /\ [Next]_vars => ScannerInv' /\ [Stream!Next]_(Stream!vars)
  <2> SUFFICES ASSUME ScannerInv, [Next]_vars
               PROVE  ScannerInv' /\ [Stream!Next]_(Stream!vars)
    OBVIOUS
  <2>1. CASE Refill
    BY <2>1, RefillImplements
  <2>2. CASE ReadClass
    BY <2>2, ReadClassUses, UsesImplement
  <2>3. CASE Punctuation
    BY <2>3, PunctuationUses, UsesImplement
  <2>4. CASE Lex \/ Zero \/ NumberTail \/ Suffix \/ Shift \/ CommentEnd \/ LiteralTail \/ LiteralEscape
    BY <2>4, ActionsUse, UsesImplement
  <2>5. CASE UNCHANGED vars
    <3>1. UNCHANGED <<text, fed, buff, pos, err, line, column, failure, raw>>
      BY <2>5 DEF vars, scannerVars, lexVars
    <3>2. UNCHANGED taken
      BY <3>1 DEF taken, remaining
    <3>3. UNCHANGED Stream!vars
      BY <3>1, <3>2 DEF Stream!vars, taken
    <3> QED BY <3>1, <3>2, <3>3 DEF ScannerInv, Breaks
  <2> QED BY <2>1, <2>2, <2>3, <2>4, <2>5 DEF Next
<1> QED BY <1>1, <1>2, PTL DEF Spec, ScannerIsStream, Stream!Spec

=============================================================================
