------------------------ MODULE DependencyListProofs ------------------------
(***************************************************************************)
(* Proofs about DependencyList: for any names and lists of any length.     *)
(*                                                                         *)
(* What a loop over a slice computes is proved by induction.  The library  *)
(* states induction for an operator; here it is stated for a set, of the   *)
(* naturals or of the sequences for which the claim holds, which is the    *)
(* same thing and can be instantiated by every prover.                     *)
(***************************************************************************)
EXTENDS DependencyList, SequenceTheorems, FiniteSetTheorems, TLAPS

-----------------------------------------------------------------------------
(* Induction.                                                              *)

LEMMA SetInduction ==
    ASSUME NEW S, 0 \in S, \A n \in Nat : n \in S => n + 1 \in S
    PROVE  Nat \subseteq S
<1> SUFFICES ASSUME Nat \ S # {} PROVE FALSE
  OBVIOUS
<1>1. PICK x \in Nat \ S : \A y \in Nat \ S : ~(<<y, x>> \in OpToRel(<, Nat))
  BY NatLessThanWellFounded, WFMin
<1>2. x \in Nat /\ x \notin S
  OBVIOUS
<1>3. x - 1 \in Nat /\ x - 1 < x /\ (x - 1) + 1 = x
  <2> HIDE <1>1
  <2> QED
    BY <1>2
<1>4. <<x - 1, x>> \in OpToRel(<, Nat)
  BY <1>2, <1>3 DEF OpToRel
<1>5. x - 1 \in S
  BY <1>1, <1>3, <1>4
<1> QED
  BY <1>2, <1>3, <1>5

LEMMA AppendFacts ==
    ASSUME NEW T, NEW s \in Seq(T), NEW e \in T
    PROVE  /\ Append(s, e) \in Seq(T)
           /\ Len(s) \in Nat
           /\ Len(Append(s, e)) = Len(s) + 1
           /\ \A i \in 1..Len(s) : Append(s, e)[i] = s[i]
           /\ Append(s, e)[Len(s) + 1] = e
BY AppendProperties, LenProperties

\* Every sequence of length n is in P.
LEMMA SeqInduction ==
    ASSUME NEW T, NEW P, <<>> \in P,
           \A s \in Seq(T), e \in T : s \in P => Append(s, e) \in P
    PROVE  Seq(T) \subseteq P
<1> DEFINE S == {n \in Nat : \A s \in Seq(T) : Len(s) = n => s \in P}
<1>1. 0 \in S
  BY EmptySeq
<1>2. ASSUME NEW n \in Nat, n \in S PROVE n + 1 \in S
  <2>1. SUFFICES ASSUME NEW s \in Seq(T), Len(s) = n + 1 PROVE s \in P
    OBVIOUS
  <2>2. s # <<>>
    BY <2>1, EmptySeq
  <2>3. PICK front \in Seq(T), e \in T : s = Append(front, e)
    BY <2>2, SequenceEmptyOrAppend
  <2>4. Len(front) = n
    BY <2>1, <2>3, AppendFacts
  <2> QED
    BY <1>2, <2>3, <2>4
<1>3. Nat \subseteq S
  <2> HIDE DEF S
  <2> QED
    BY <1>1, <1>2, SetInduction
<1> QED
  BY <1>3, LenProperties

-----------------------------------------------------------------------------
(* removeAllFromSlice.                                                     *)

\* The states of its loop: what has been kept of the first i elements.
IsLoop(n, x, s) ==
    n = [i \in 0..Len(s) |->
            IF i = 0 THEN <<>>
            ELSE IF s[i] = x THEN n[i - 1] ELSE Append(n[i - 1], s[i])]

Loop(x, s) == CHOOSE n : IsLoop(n, x, s)

LEMMA RemoveAllIsLoop == \A x, s : RemoveAllFromSlice(x, s) = Loop(x, s)[Len(s)]
BY DEF RemoveAllFromSlice, Loop, IsLoop

LEMMA LoopValues ==
    ASSUME NEW T, NEW s \in Seq(T), NEW x, NEW n, IsLoop(n, x, s)
    PROVE  /\ n[0] = <<>>
           /\ \A i \in Nat : i + 1 \in 1..Len(s) =>
                 n[i + 1] = IF s[i + 1] = x THEN n[i] ELSE Append(n[i], s[i + 1])
<1>1. Len(s) \in Nat
  BY LenProperties
<1>2. 0 \in 0..Len(s)
  BY <1>1
<1>3. n[0] = <<>>
  BY <1>2 DEF IsLoop
<1>4. ASSUME NEW i \in Nat, i + 1 \in 1..Len(s)
      PROVE  n[i + 1] = IF s[i + 1] = x THEN n[i] ELSE Append(n[i], s[i + 1])
  <2>1. i + 1 \in 0..Len(s) /\ i + 1 # 0 /\ (i + 1) - 1 = i
    BY <1>1, <1>4
  <2> QED
    BY <2>1 DEF IsLoop
<1> QED
  BY <1>3, <1>4

\* There is one such loop, and a longer slice goes through the same states first.
LEMMA LoopPrefix ==
    ASSUME NEW T, NEW s \in Seq(T), NEW r \in Seq(T), Len(s) <= Len(r),
           \A i \in 1..Len(s) : r[i] = s[i],
           NEW x, NEW n, NEW m, IsLoop(n, x, s), IsLoop(m, x, r)
    PROVE  \A i \in 0..Len(s) : m[i] = n[i]
<1> DEFINE S == {i \in Nat : i \in 0..Len(s) => m[i] = n[i]}
<1>0. Len(s) \in Nat /\ Len(r) \in Nat
  BY LenProperties
<1>1. 0 \in S
  BY LoopValues
<1>2. ASSUME NEW i \in Nat, i \in S PROVE i + 1 \in S
  <2>1. SUFFICES ASSUME i + 1 \in 0..Len(s) PROVE m[i + 1] = n[i + 1]
    OBVIOUS
  <2>2. i \in 0..Len(s) /\ i + 1 \in 1..Len(s) /\ i + 1 \in 1..Len(r)
    BY <1>0, <2>1
  <2>3. m[i] = n[i] /\ r[i + 1] = s[i + 1]
    BY <1>2, <2>2
  <2>4. n[i + 1] = IF s[i + 1] = x THEN n[i] ELSE Append(n[i], s[i + 1])
    BY <2>2, LoopValues
  <2>5. m[i + 1] = IF r[i + 1] = x THEN m[i] ELSE Append(m[i], r[i + 1])
    BY <2>2, LoopValues
  <2> QED
    BY <2>3, <2>4, <2>5
<1>3. Nat \subseteq S
  <2> HIDE DEF S
  <2> QED
    BY <1>1, <1>2, SetInduction
<1> QED
  BY <1>0, <1>3

LEMMA LoopExtends ==
    ASSUME NEW T, NEW s \in Seq(T), NEW e \in T, NEW x, NEW n, IsLoop(n, x, s)
    PROVE  \E m : IsLoop(m, x, Append(s, e))
<1> DEFINE r == Append(s, e)
           m == [i \in 0..Len(r) |->
                    IF i = Len(r)
                    THEN IF e = x THEN n[Len(s)] ELSE Append(n[Len(s)], e)
                    ELSE n[i]]
<1>1. /\ Len(s) \in Nat /\ Len(r) = Len(s) + 1
      /\ \A i \in 1..Len(s) : r[i] = s[i]
      /\ r[Len(s) + 1] = e
  BY AppendFacts
<1>2. ASSUME NEW i \in 0..Len(r)
      PROVE  m[i] = IF i = 0 THEN <<>>
                    ELSE IF r[i] = x THEN m[i - 1] ELSE Append(m[i - 1], r[i])
  <2>1. CASE i = 0
    <3>1. m[i] = n[0]
      BY <1>1, <2>1
    <3> QED
      BY <2>1, <3>1, LoopValues
  <2>2. CASE i = Len(r)
    <3>1. i # 0 /\ i - 1 = Len(s) /\ i - 1 # Len(r) /\ i - 1 \in 0..Len(r) /\ r[i] = e
      BY <1>1, <2>2
    <3>2. m[i - 1] = n[Len(s)]
      BY <3>1
    <3> QED
      BY <2>2, <3>1, <3>2
  <2>3. CASE i # 0 /\ i # Len(r)
    <3>1. /\ i - 1 \in Nat /\ (i - 1) + 1 = i /\ (i - 1) + 1 \in 1..Len(s)
          /\ i - 1 # Len(r) /\ i - 1 \in 0..Len(r) /\ i \in 1..Len(s)
      BY <1>1, <2>3
    <3>2. m[i] = n[i] /\ m[i - 1] = n[i - 1] /\ r[i] = s[i]
      BY <1>1, <2>3, <3>1
    <3>3. n[i] = IF s[i] = x THEN n[i - 1] ELSE Append(n[i - 1], s[i])
      BY <3>1, LoopValues
    <3> QED
      BY <2>3, <3>2, <3>3
  <2> QED
    BY <2>1, <2>2, <2>3
<1>3. m = [i \in 0..Len(r) |->
              IF i = 0 THEN <<>>
              ELSE IF r[i] = x THEN m[i - 1] ELSE Append(m[i - 1], r[i])]
  BY <1>2
<1>4. IsLoop(m, x, r)
  BY <1>3 DEF IsLoop
<1> QED
  BY <1>4

LEMMA LoopExists ==
    ASSUME NEW T, NEW x
    PROVE  \A s \in Seq(T) : IsLoop(Loop(x, s), x, s)
<1> DEFINE P == {s \in Seq(T) : \E n : IsLoop(n, x, s)}
<1>1. <<>> \in P
  <2> DEFINE n == [i \in 0..0 |-> <<>>]
  <2>1. Len(<<>>) = 0 /\ <<>> \in Seq(T)
    BY EmptySeq
  <2>2. IsLoop(n, x, <<>>)
    BY <2>1 DEF IsLoop
  <2> QED
    BY <2>1, <2>2
<1>2. ASSUME NEW s \in Seq(T), NEW e \in T, s \in P PROVE Append(s, e) \in P
  BY <1>2, AppendFacts, LoopExtends
<1>3. Seq(T) \subseteq P
  <2> HIDE DEF P
  <2> QED
    BY <1>1, <1>2, SeqInduction
<1>4. ASSUME NEW s \in Seq(T) PROVE IsLoop(Loop(x, s), x, s)
  <2>1. \E n : IsLoop(n, x, s)
    BY <1>3
  <2> QED
    BY <2>1 DEF Loop
<1> QED
  BY <1>4

\* The two equations that removeAllFromSlice is known by from here on.
LEMMA RemoveAllEmpty == \A x : RemoveAllFromSlice(x, <<>>) = <<>>
<1> SUFFICES ASSUME NEW x PROVE RemoveAllFromSlice(x, <<>>) = <<>>
  OBVIOUS
<1>1. <<>> \in Seq({}) /\ Len(<<>>) = 0
  BY EmptySeq
<1>2. IsLoop(Loop(x, <<>>), x, <<>>)
  <2>1. \A s \in Seq({}) : IsLoop(Loop(x, s), x, s)
    BY LoopExists
  <2> QED
    BY <1>1, <2>1
<1>3. Loop(x, <<>>)[0] = <<>>
  <2>1. 0 \in 0..Len(<<>>)
    BY <1>1
  <2> HIDE <1>1
  <2> QED
    BY <1>2, <2>1 DEF IsLoop
<1> QED
  BY <1>1, <1>3, RemoveAllIsLoop

LEMMA RemoveAllAppend ==
    ASSUME NEW T, NEW s \in Seq(T), NEW e \in T, NEW x
    PROVE  RemoveAllFromSlice(x, Append(s, e)) =
              IF e = x THEN RemoveAllFromSlice(x, s)
              ELSE Append(RemoveAllFromSlice(x, s), e)
<1> DEFINE r == Append(s, e)
           n == Loop(x, s)
           m == Loop(x, r)
<1>1. /\ r \in Seq(T) /\ Len(s) \in Nat /\ Len(r) = Len(s) + 1
      /\ \A i \in 1..Len(s) : r[i] = s[i]
      /\ r[Len(s) + 1] = e
  BY AppendFacts
<1>2. IsLoop(n, x, s) /\ IsLoop(m, x, r)
  BY <1>1, LoopExists
<1> HIDE DEF n, m, r
<1>3. Len(s) <= Len(r) /\ Len(s) \in 0..Len(s) /\ Len(s) + 1 \in 1..Len(r)
  BY <1>1
<1>4. m[Len(s)] = n[Len(s)]
  <2>1. \A i \in 0..Len(s) : m[i] = n[i]
    BY <1>1, <1>2, <1>3, LoopPrefix
  <2> QED
    BY <1>3, <2>1
<1>5. m[Len(s) + 1] = IF r[Len(s) + 1] = x THEN m[Len(s)] ELSE Append(m[Len(s)], r[Len(s) + 1])
  <2>1. \A i \in Nat : i + 1 \in 1..Len(r) =>
           m[i + 1] = IF r[i + 1] = x THEN m[i] ELSE Append(m[i], r[i + 1])
    BY <1>1, <1>2, LoopValues
  <2> QED
    BY <1>1, <1>3, <2>1
<1>6. RemoveAllFromSlice(x, s) = n[Len(s)] /\ RemoveAllFromSlice(x, r) = m[Len(s) + 1]
  BY <1>1, RemoveAllIsLoop DEF n, m
<1> QED
  BY <1>1, <1>4, <1>5, <1>6 DEF r

-----------------------------------------------------------------------------
(* What removeAllFromSlice keeps.                                          *)

LEMMA RemoveAllType ==
    ASSUME NEW T, NEW x
    PROVE  \A s \in Seq(T) : RemoveAllFromSlice(x, s) \in Seq(T)
<1> DEFINE P == {s \in Seq(T) : RemoveAllFromSlice(x, s) \in Seq(T)}
<1>1. <<>> \in P
  BY EmptySeq, RemoveAllEmpty
<1>2. ASSUME NEW s \in Seq(T), NEW e \in T, s \in P PROVE Append(s, e) \in P
  <2>1. Append(s, e) \in Seq(T) /\ Append(RemoveAllFromSlice(x, s), e) \in Seq(T)
    BY <1>2, AppendFacts
  <2> QED
    BY <1>2, <2>1, RemoveAllAppend
<1>3. Seq(T) \subseteq P
  <2> HIDE DEF P
  <2> QED
    BY <1>1, <1>2, SeqInduction
<1> QED
  BY <1>3

LEMMA RangeFacts ==
    /\ Range(<<>>) = {}
    /\ \A T : \A s \in Seq(T) : Range(s) \subseteq T /\ (Range(s) = {} => s = <<>>)
    /\ \A T : \A s \in Seq(T), e \in T : Range(Append(s, e)) = Range(s) \cup {e}
<1>1. Range(<<>>) = {}
  BY DEF Range
<1>2. ASSUME NEW T, NEW s \in Seq(T)
      PROVE  Range(s) \subseteq T /\ (Range(s) = {} => s = <<>>)
  <2>1. Len(s) \in Nat /\ DOMAIN s = 1..Len(s) /\ \A i \in 1..Len(s) : s[i] \in T
    BY LenProperties, ElementOfSeq
  <2>2. s # <<>> => 1 \in DOMAIN s
    BY <2>1, EmptySeq
  <2> QED
    BY <2>1, <2>2 DEF Range
<1>3. ASSUME NEW T, NEW s \in Seq(T), NEW e \in T
      PROVE  Range(Append(s, e)) = Range(s) \cup {e}
  <2>1. /\ Len(s) \in Nat /\ DOMAIN s = 1..Len(s)
        /\ DOMAIN Append(s, e) = 1..(Len(s) + 1)
    BY LenProperties, AppendFacts
  <2>2. DOMAIN Append(s, e) = DOMAIN s \cup {Len(s) + 1}
    BY <2>1
  <2>3. /\ \A i \in DOMAIN s : Append(s, e)[i] = s[i]
        /\ Append(s, e)[Len(s) + 1] = e
    BY <2>1, AppendFacts
  <2> HIDE <2>1
  <2> QED
    BY <2>2, <2>3 DEF Range
<1> QED
  BY <1>1, <1>2, <1>3

LEMMA RemoveAllRange ==
    ASSUME NEW T, NEW x
    PROVE  \A s \in Seq(T) : Range(RemoveAllFromSlice(x, s)) = Range(s) \ {x}
<1> DEFINE P == {s \in Seq(T) : Range(RemoveAllFromSlice(x, s)) = Range(s) \ {x}}
<1>1. <<>> \in P
  BY EmptySeq, RemoveAllEmpty, RangeFacts
<1>2. ASSUME NEW s \in Seq(T), NEW e \in T, s \in P PROVE Append(s, e) \in P
  <2>1. RemoveAllFromSlice(x, s) \in Seq(T) /\ Append(s, e) \in Seq(T)
    BY RemoveAllType, AppendFacts
  <2>2. /\ Range(Append(s, e)) = Range(s) \cup {e}
        /\ Range(Append(RemoveAllFromSlice(x, s), e)) = Range(RemoveAllFromSlice(x, s)) \cup {e}
    BY <2>1, RangeFacts
  <2>3. Range(RemoveAllFromSlice(x, s)) = Range(s) \ {x}
    BY <1>2
  <2>4. RemoveAllFromSlice(x, Append(s, e)) =
           IF e = x THEN RemoveAllFromSlice(x, s) ELSE Append(RemoveAllFromSlice(x, s), e)
    BY RemoveAllAppend
  <2>5. Range(RemoveAllFromSlice(x, Append(s, e))) = Range(Append(s, e)) \ {x}
    BY <2>2, <2>3, <2>4
  <2> QED
    BY <2>1, <2>5
<1>3. Seq(T) \subseteq P
  <2> HIDE DEF P
  <2> QED
    BY <1>1, <1>2, SeqInduction
<1> QED
  BY <1>3

LEMMA RemoveAllTwice ==
    ASSUME NEW T, NEW x
    PROVE  \A s \in Seq(T) :
              RemoveAllFromSlice(x, RemoveAllFromSlice(x, s)) = RemoveAllFromSlice(x, s)
<1> DEFINE P == {s \in Seq(T) :
                    RemoveAllFromSlice(x, RemoveAllFromSlice(x, s)) = RemoveAllFromSlice(x, s)}
<1>1. <<>> \in P
  BY EmptySeq, RemoveAllEmpty
<1>2. ASSUME NEW s \in Seq(T), NEW e \in T, s \in P PROVE Append(s, e) \in P
  <2>1. RemoveAllFromSlice(x, s) \in Seq(T) /\ Append(s, e) \in Seq(T)
    BY RemoveAllType, AppendFacts
  <2>2. CASE e = x
    BY <1>2, <2>1, <2>2, RemoveAllAppend
  <2>3. CASE e # x
    <3> DEFINE rest == RemoveAllFromSlice(x, s)
    <3>1. RemoveAllFromSlice(x, Append(s, e)) = Append(rest, e)
      BY <2>3, RemoveAllAppend
    <3>2. RemoveAllFromSlice(x, Append(rest, e)) = Append(RemoveAllFromSlice(x, rest), e)
      BY <2>1, <2>3, RemoveAllAppend
    <3> QED
      BY <1>2, <2>1, <3>1, <3>2
  <2> QED
    BY <2>2, <2>3
<1>3. Seq(T) \subseteq P
  <2> HIDE DEF P
  <2> QED
    BY <1>1, <1>2, SeqInduction
<1> QED
  BY <1>3

\* How often a slice names a service.
LEMMA OccurrencesEmpty == \A x : Occurrences(x, <<>>) = 0
<1> SUFFICES ASSUME NEW x PROVE Occurrences(x, <<>>) = 0
  OBVIOUS
<1>1. {i \in DOMAIN <<>> : <<>>[i] = x} = {}
  OBVIOUS
<1> QED
  BY <1>1, FS_EmptySet DEF Occurrences

LEMMA PositionsAreFinite ==
    ASSUME NEW T, NEW s \in Seq(T), NEW x
    PROVE  IsFiniteSet({i \in DOMAIN s : s[i] = x}) /\ Occurrences(x, s) \in Nat
<1>1. Len(s) \in Nat /\ DOMAIN s = 1..Len(s)
  BY LenProperties
<1>2. IsFiniteSet(1..Len(s))
  BY <1>1, FS_Interval
<1>3. {i \in DOMAIN s : s[i] = x} \subseteq 1..Len(s)
  BY <1>1
<1>4. IsFiniteSet({i \in DOMAIN s : s[i] = x})
  BY <1>2, <1>3, FS_Subset
<1> QED
  BY <1>4, FS_CardinalityType DEF Occurrences

LEMMA OccurrencesAppend ==
    ASSUME NEW T, NEW s \in Seq(T), NEW e \in T, NEW x
    PROVE  Occurrences(x, Append(s, e)) =
              IF e = x THEN Occurrences(x, s) + 1 ELSE Occurrences(x, s)
<1> DEFINE before == {i \in DOMAIN s : s[i] = x}
           now == {i \in DOMAIN Append(s, e) : Append(s, e)[i] = x}
<1>1. /\ Len(s) \in Nat /\ DOMAIN s = 1..Len(s)
      /\ DOMAIN Append(s, e) = 1..(Len(s) + 1)
  BY LenProperties, AppendFacts
<1>2. /\ DOMAIN Append(s, e) = DOMAIN s \cup {Len(s) + 1}
      /\ Len(s) + 1 \notin DOMAIN s
  BY <1>1
<1>3. /\ \A i \in DOMAIN s : Append(s, e)[i] = s[i]
      /\ Append(s, e)[Len(s) + 1] = e
  BY <1>1, AppendFacts
<1>4. now = IF e = x THEN before \cup {Len(s) + 1} ELSE before
  <2> HIDE <1>1
  <2> QED
    BY <1>2, <1>3
<1>5. IsFiniteSet(before) /\ Len(s) + 1 \notin before
  BY <1>2, PositionsAreFinite
<1> HIDE DEF before, now
<1>6. Cardinality(before \cup {Len(s) + 1}) = Cardinality(before) + 1
  BY <1>5, FS_AddElement
<1>7. Occurrences(x, s) = Cardinality(before) /\ Occurrences(x, Append(s, e)) = Cardinality(now)
  BY DEF Occurrences, before, now
<1> QED
  BY <1>4, <1>6, <1>7

\* What the loop leaves out.
LEMMA RemoveAllCounts ==
    ASSUME NEW T, NEW x
    PROVE  \A s \in Seq(T) :
              /\ Len(RemoveAllFromSlice(x, s)) \in Nat
              /\ Len(s) = Len(RemoveAllFromSlice(x, s)) + Occurrences(x, s)
<1> DEFINE P == {s \in Seq(T) :
                    Len(s) = Len(RemoveAllFromSlice(x, s)) + Occurrences(x, s)}
<1>1. <<>> \in P
  BY EmptySeq, RemoveAllEmpty, OccurrencesEmpty
<1>2. ASSUME NEW s \in Seq(T), NEW e \in T, s \in P PROVE Append(s, e) \in P
  <2> DEFINE rest == RemoveAllFromSlice(x, s)
  <2>1. rest \in Seq(T) /\ Append(s, e) \in Seq(T)
    BY RemoveAllType, AppendFacts
  <2>2. /\ Len(Append(s, e)) = Len(s) + 1 /\ Len(s) \in Nat
        /\ Len(Append(rest, e)) = Len(rest) + 1 /\ Len(rest) \in Nat
    BY <2>1, AppendFacts
  <2>3. Len(s) = Len(rest) + Occurrences(x, s) /\ Occurrences(x, s) \in Nat
    BY <1>2, PositionsAreFinite
  <2>4. Len(RemoveAllFromSlice(x, Append(s, e))) = IF e = x THEN Len(rest) ELSE Len(rest) + 1
    BY <2>2, RemoveAllAppend
  <2>5. Occurrences(x, Append(s, e)) = IF e = x THEN Occurrences(x, s) + 1 ELSE Occurrences(x, s)
    BY OccurrencesAppend
  <2> HIDE DEF rest
  <2>6. Len(Append(s, e)) = Len(RemoveAllFromSlice(x, Append(s, e))) + Occurrences(x, Append(s, e))
    BY <2>2, <2>3, <2>4, <2>5
  <2> QED
    BY <2>1, <2>6
<1>3. Seq(T) \subseteq P
  <2> HIDE DEF P
  <2> QED
    BY <1>1, <1>2, SeqInduction
<1> QED
  BY <1>3, RemoveAllType, LenProperties

LEMMA RemoveAllKeepsOthers ==
    ASSUME NEW T, NEW x, NEW y, y # x
    PROVE  \A s \in Seq(T) : Occurrences(y, RemoveAllFromSlice(x, s)) = Occurrences(y, s)
<1> DEFINE P == {s \in Seq(T) : Occurrences(y, RemoveAllFromSlice(x, s)) = Occurrences(y, s)}
<1>1. <<>> \in P
  BY EmptySeq, RemoveAllEmpty
<1>2. ASSUME NEW s \in Seq(T), NEW e \in T, s \in P PROVE Append(s, e) \in P
  <2> DEFINE rest == RemoveAllFromSlice(x, s)
  <2>1. rest \in Seq(T) /\ Append(s, e) \in Seq(T)
    BY RemoveAllType, AppendFacts
  <2>2. Occurrences(y, rest) = Occurrences(y, s)
    BY <1>2
  <2>3. /\ Occurrences(y, Append(s, e)) =
              IF e = y THEN Occurrences(y, s) + 1 ELSE Occurrences(y, s)
        /\ Occurrences(y, Append(rest, e)) =
              IF e = y THEN Occurrences(y, rest) + 1 ELSE Occurrences(y, rest)
    BY <2>1, OccurrencesAppend
  <2>4. RemoveAllFromSlice(x, Append(s, e)) = IF e = x THEN rest ELSE Append(rest, e)
    BY RemoveAllAppend
  <2> HIDE DEF rest
  <2>5. Occurrences(y, RemoveAllFromSlice(x, Append(s, e))) = Occurrences(y, Append(s, e))
    BY <2>2, <2>3, <2>4
  <2> QED
    BY <2>1, <2>5
<1>3. Seq(T) \subseteq P
  <2> HIDE DEF P
  <2> QED
    BY <1>1, <1>2, SeqInduction
<1> QED
  BY <1>3

LEMMA RangeOccurs ==
    ASSUME NEW T, NEW s \in Seq(T), NEW x
    PROVE  x \in Range(s) <=> Occurrences(x, s) # 0
<1>1. IsFiniteSet({i \in DOMAIN s : s[i] = x})
  BY PositionsAreFinite
<1>2. Occurrences(x, s) = 0 <=> {i \in DOMAIN s : s[i] = x} = {}
  BY <1>1, FS_EmptySet DEF Occurrences
<1> QED
  BY <1>2 DEF Range

-----------------------------------------------------------------------------
(* The invariant.                                                          *)

USE DEF AddRancherWinsServiceDependency, RemoveRancherWinsServiceDependency,
        RestoreDependencies, BuildInitialState, HasRancherWinsServiceDependency, Commit

\* Nothing but copies of rancher-wins comes or goes.  This is what makes it safe
\* to compare the lengths and to look for the elements of one slice only: lists
\* that agree on the others and on their length name rancher-wins as often.
SameOthers == Others(list) = Others(initial)

IInv == TypeOK /\ SameOthers

LEMMA InitCorrect == Init => IInv
<1> SUFFICES ASSUME Init PROVE IInv
  OBVIOUS
<1>1. list \in Seq(Names)
  <2>1. MaxLength \in Nat
    BY ListAssumption
  <2>2. PICK m \in 0..MaxLength : list \in [1..m -> Names]
    BY DEF Init, BoundedSeq, SeqOf
  <2>3. m \in Nat
    BY <2>1, <2>2
  <2> QED
    BY <2>2, <2>3, SeqDef
<1> QED
  BY <1>1 DEF Init, IInv, TypeOK, SameOthers

\* What is written, as the registry reads it back.
LEMMA Commits ==
    ASSUME TypeOK
    PROVE  /\ AddRancherWinsServiceDependency => list' = Append(list, Wins)
           /\ RemoveRancherWinsServiceDependency => list' = Others(list)
           /\ RestoreDependencies =>
                 list' = IF UnorderedSlicesEqual(list, initial) \/ initial = <<>>
                         THEN list ELSE initial
<1>1. /\ list \in Seq(Names) /\ initial \in Seq(Names) /\ Wins \in Names /\ Slash \notin Names
      /\ <<>> \notin {<<Slash>>} /\ <<Slash>>[1] = Slash /\ Len(<<Slash>>) = 1
  BY ListAssumption DEF TypeOK, Names
<1>2. ASSUME NEW s \in Seq(Names) PROVE s # <<Slash>>
  <2>1. s = <<Slash>> => Slash \in Names
    BY <1>1, ElementOfSeq
  <2> QED
    BY <1>1, <2>1
<1>3. Append(list, Wins) \in Seq(Names) /\ Append(list, Wins) # <<>>
  <2>1. /\ Append(list, Wins) \in Seq(Names)
        /\ Len(Append(list, Wins)) = Len(list) + 1 /\ Len(list) \in Nat
    BY <1>1, AppendFacts
  <2>2. Len(Append(list, Wins)) # 0
    BY <2>1
  <2> QED
    BY <2>1, <2>2, EmptySeq
<1>4. Others(list) \in Seq(Names)
  BY <1>1, RemoveAllType DEF Others
<1>5. AddRancherWinsServiceDependency => list' = Append(list, Wins)
  BY <1>2, <1>3
<1>6. RemoveRancherWinsServiceDependency => list' = Others(list)
  BY <1>1, <1>2, <1>4 DEF Others
<1>7. RestoreDependencies =>
         list' = IF UnorderedSlicesEqual(list, initial) \/ initial = <<>> THEN list ELSE initial
  BY <1>1, <1>2
<1> QED
  BY <1>5, <1>6, <1>7

\* No operation touches the others, of the list or of the initial one.
LEMMA OthersStep ==
    ASSUME IInv, [Next]_vars
    PROVE  Others(list') = Others(list) /\ Others(initial') = Others(initial)
<1>1. /\ list \in Seq(Names) /\ initial \in Seq(Names) /\ Wins \in Names /\ TypeOK
      /\ Others(list) = Others(initial)
  BY DEF IInv, TypeOK, Names, SameOthers
<1>2. CASE AddRancherWinsServiceDependency
  <2>1. RemoveAllFromSlice(Wins, Append(list, Wins)) = RemoveAllFromSlice(Wins, list)
    BY <1>1, RemoveAllAppend
  <2> QED
    BY <1>1, <1>2, <2>1, Commits DEF Others
<1>3. CASE RemoveRancherWinsServiceDependency
  <2>1. RemoveAllFromSlice(Wins, RemoveAllFromSlice(Wins, list)) = RemoveAllFromSlice(Wins, list)
    BY <1>1, RemoveAllTwice
  <2> QED
    BY <1>1, <1>3, <2>1, Commits DEF Others
<1>4. CASE RestoreDependencies
  BY <1>1, <1>4, Commits
<1>5. CASE BuildInitialState
  BY <1>1, <1>5
<1>6. CASE UNCHANGED vars
  BY <1>6 DEF vars
<1> QED
  BY <1>2, <1>3, <1>4, <1>5, <1>6 DEF Next

LEMMA TypeStep == ASSUME IInv, [Next]_vars PROVE TypeOK'
<1>1. /\ list \in Seq(Names) /\ initial \in Seq(Names) /\ Wins \in Names /\ TypeOK
      /\ last \in {"none", "add", "remove", "restore"}
  BY DEF IInv, TypeOK, Names
<1>2. Append(list, Wins) \in Seq(Names) /\ Others(list) \in Seq(Names)
  BY <1>1, AppendFacts, RemoveAllType DEF Others
<1>3. list' \in Seq(Names)
  BY <1>1, <1>2, Commits DEF Next, vars
<1>4. initial' \in Seq(Names)
  BY <1>1 DEF Next, vars
<1>5. last' \in {"none", "add", "remove", "restore"}
  BY <1>1 DEF Next, vars
<1> QED
  BY <1>3, <1>4, <1>5 DEF TypeOK, Names

LEMMA StepCorrect == IInv /\ [Next]_vars => IInv'
<1> SUFFICES ASSUME IInv, [Next]_vars PROVE IInv'
  OBVIOUS
<1>1. TypeOK'
  BY TypeStep
<1>2. Others(list') = Others(list) /\ Others(initial') = Others(initial)
  BY OthersStep
<1>3. Others(list) = Others(initial)
  BY DEF IInv, SameOthers
<1> QED
  BY <1>1, <1>2, <1>3 DEF IInv, SameOthers

LEMMA InvariantCorrect == Spec => []IInv
BY InitCorrect, StepCorrect, PTL DEF Spec

-----------------------------------------------------------------------------
(* The theorems.                                                           *)

\* The list in the registry, and the one in InitialState, hold names of services
\* and never the "/" that clears the list, however the updater's operations follow
\* one another.
THEOREM TypeCorrect == Spec => []TypeOK
<1>1. IInv => TypeOK
  BY DEF IInv
<1> QED
  BY <1>1, InvariantCorrect, PTL

\* No operation of the updater reorders, repeats or loses a service other than
\* rancher-wins.
THEOREM OthersKeepTheirOrderCorrect == Spec => OthersKeepTheirOrder
<1>1. IInv /\ [Next]_vars => [Others(list') = Others(list)]_vars
  BY OthersStep
<1> QED
  BY <1>1, InvariantCorrect, PTL DEF Spec, OthersKeepTheirOrder

\* Lists that UnorderedSlicesEqual holds equal name every service as often as each
\* other: the elements it does not look for cannot be missing.
LEMMA EqualSlicesAgree ==
    ASSUME IInv, UnorderedSlicesEqual(list, initial), NEW name
    PROVE  Occurrences(name, list) = Occurrences(name, initial)
<1>1. /\ list \in Seq(Names) /\ initial \in Seq(Names)
      /\ RemoveAllFromSlice(Wins, list) = RemoveAllFromSlice(Wins, initial)
      /\ Len(list) = Len(initial)
  BY DEF IInv, TypeOK, SameOthers, Others, UnorderedSlicesEqual
<1>2. CASE name = Wins
  <2>1. /\ Len(list) = Len(RemoveAllFromSlice(Wins, list)) + Occurrences(Wins, list)
        /\ Len(initial) = Len(RemoveAllFromSlice(Wins, initial)) + Occurrences(Wins, initial)
        /\ Len(RemoveAllFromSlice(Wins, list)) \in Nat
    BY <1>1, RemoveAllCounts
  <2>2. Occurrences(Wins, list) \in Nat /\ Occurrences(Wins, initial) \in Nat
    BY <1>1, PositionsAreFinite
  <2>3. \A k, m, n \in Nat : k + m = k + n => m = n
    OBVIOUS
  <2>4. Occurrences(Wins, list) = Occurrences(Wins, initial)
    BY <1>1, <2>1, <2>2, <2>3
  <2> QED
    BY <1>2, <2>4
<1>3. CASE name # Wins
  <2>1. /\ Occurrences(name, RemoveAllFromSlice(Wins, list)) = Occurrences(name, list)
        /\ Occurrences(name, RemoveAllFromSlice(Wins, initial)) = Occurrences(name, initial)
    BY <1>1, <1>3, RemoveAllKeepsOthers
  <2> QED
    BY <1>1, <2>1
<1> QED
  BY <1>2, <1>3

\* A rollback leaves a list that names every service as often as the initial one
\* does, for lists of any length that may repeat names, rancher-wins too, although
\* RestoreInitialState writes nothing when UnorderedSlicesEqual finds them equal.
THEOREM RestoreKeepsRepetitionsCorrect == Spec => []RestoreKeepsRepetitions
<1>1. Init => RestoreKeepsRepetitions
  BY DEF Init, RestoreKeepsRepetitions
<1>2. RestoreKeepsRepetitions /\ IInv /\ [Next]_vars => RestoreKeepsRepetitions'
  <2> SUFFICES ASSUME RestoreKeepsRepetitions, IInv, [Next]_vars
               PROVE  RestoreKeepsRepetitions'
    OBVIOUS
  <2>1. CASE RestoreDependencies
    <3>1. initial' = initial /\ TypeOK
      BY <2>1 DEF IInv
    <3> SUFFICES ASSUME initial # <<>>, NEW name \in Names
                 PROVE  Occurrences(name, list') = Occurrences(name, initial)
      BY <3>1 DEF RestoreKeepsRepetitions, Names
    <3>2. list' = IF UnorderedSlicesEqual(list, initial) THEN list ELSE initial
      BY <2>1, <3>1, Commits
    <3> QED
      BY <3>2, EqualSlicesAgree
  <2>2. CASE AddRancherWinsServiceDependency \/ RemoveRancherWinsServiceDependency
             \/ BuildInitialState
    <3>1. last' # "restore"
      BY <2>2
    <3> QED
      BY <3>1 DEF RestoreKeepsRepetitions
  <2>3. CASE UNCHANGED vars
    BY <2>3 DEF vars, RestoreKeepsRepetitions, Names, Occurrences
  <2> QED
    BY <2>1, <2>2, <2>3 DEF Next
<1> QED
  BY <1>1, <1>2, InvariantCorrect, PTL DEF Spec

\* Every operation on the slices is the operation on sets of names that module
\* Updater performs in its place: the set is a sound abstraction of the list.
THEOREM ImplementsSetsCorrect == Spec => ImplementsSets
<1> USE DEF Sets!Add, Sets!Remove, Sets!Restore, Sets!Snapshot
<1>1. Init => Range(initial) = Range(list) /\ last = "none"
  BY DEF Init
<1>2. IInv /\ [Next]_vars => [Sets!Next]_<<Range(list), Range(initial), last>>
  <2> SUFFICES ASSUME IInv, [Next]_vars
               PROVE  [Sets!Next]_<<Range(list), Range(initial), last>>
    OBVIOUS
  <2>0. list \in Seq(Names) /\ initial \in Seq(Names) /\ Wins \in Names /\ TypeOK
    BY DEF IInv, TypeOK, Names
  <2>1. CASE AddRancherWinsServiceDependency
    <3>1. Range(list') = Range(list) \cup {Wins}
      BY <2>0, <2>1, Commits, RangeFacts
    <3> QED
      BY <2>1, <3>1 DEF Sets!Next
  <2>2. CASE RemoveRancherWinsServiceDependency
    <3>1. Range(list') = Range(list) \ {Wins}
      BY <2>0, <2>2, Commits, RemoveAllRange DEF Others
    <3> QED
      BY <2>2, <3>1 DEF Sets!Next
  <2>3. CASE RestoreDependencies
    <3>1. Range(initial) = {} <=> initial = <<>>
      BY <2>0, RangeFacts
    <3>2. UnorderedSlicesEqual(list, initial) => Range(list) = Range(initial)
      <4> SUFFICES ASSUME UnorderedSlicesEqual(list, initial), NEW name
                   PROVE  name \in Range(list) <=> name \in Range(initial)
        OBVIOUS
      <4>1. Occurrences(name, list) = Occurrences(name, initial)
        BY EqualSlicesAgree
      <4> QED
        BY <2>0, <4>1, RangeOccurs
    <3>3. Range(list') = IF Range(initial) = {} THEN Range(list) ELSE Range(initial)
      BY <2>0, <2>3, <3>1, <3>2, Commits
    <3> QED
      BY <2>3, <3>3 DEF Sets!Next
  <2>4. CASE BuildInitialState
    BY <2>4 DEF Sets!Next
  <2>5. CASE UNCHANGED vars
    BY <2>5 DEF vars
  <2> QED
    BY <2>1, <2>2, <2>3, <2>4, <2>5 DEF Next
<1> QED
  BY <1>1, <1>2, InvariantCorrect, PTL DEF Spec, ImplementsSets, Sets!Spec
=============================================================================
