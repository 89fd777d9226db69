--------------------------- MODULE CollectionProofs ---------------------------
(***************************************************************************)
(* Lemmas on sets of naturals and on sequences that the proofs about the   *)
(* scanner and the parser share: smallest and greatest elements, induction *)
(* in a form the provers can use (over a set, not a predicate), counting   *)
(* and flattening.                                                         *)
(***************************************************************************)
EXTENDS Integers, SequencesExt, FiniteSetsExt, FiniteSetTheorems, FunctionTheorems,
        SequenceTheorems, WellFoundedInduction, TLAPS

\* A nonempty set of naturals has a least member.
LEMMA SmallestExists ==
    ASSUME NEW S \in SUBSET Nat, S # {}
    PROVE  \E m \in S : \A n \in S : m <= n
<1> DEFINE R == {p \in Nat \X Nat : p[1] < p[2]}
<1>1. IsWellFoundedOn(R, Nat)
  BY NatLessThanWellFounded DEF OpToRel
<1>2. \A a, b \in Nat : a < b => <<a, b>> \in R
  OBVIOUS
<1> HIDE DEF R
<1>3. PICK m \in S : \A n \in S : <<n, m>> \notin R
  BY <1>1, WFMin, Zenon
<1>4. \A n \in S : m <= n
  <2> SUFFICES ASSUME NEW n \in S, n < m PROVE FALSE
    OBVIOUS
  <2> QED BY <1>2, <1>3
<1> QED BY <1>4

\* A nonempty set of naturals that has a bound has a greatest member.
LEMMA GreatestExists ==
    ASSUME NEW S \in SUBSET Nat, S # {}, NEW b \in Nat, \A n \in S : n <= b
    PROVE  \E m \in S : \A n \in S : n <= m
<1> DEFINE T == {k \in Nat : \A n \in S : n <= k}
<1>1. PICK m \in T : \A k \in T : m <= k
  <2>1. b \in T /\ T \subseteq Nat OBVIOUS
  <2> HIDE DEF T
  <2> QED BY <2>1, SmallestExists
<1>2. CASE m \in S
  BY <1>1, <1>2
<1>3. CASE m \notin S
  <2>1. PICK n \in S : TRUE  OBVIOUS
  <2>2. \A k \in S : k < m BY <1>1, <1>3
  <2>3. m - 1 \in T BY <1>1, <2>1, <2>2
  <2> QED BY <1>1, <2>3
<1> QED BY <1>2, <1>3

\* The library's Max of a nonempty, bounded set of naturals is its greatest member.
LEMMA MaxBounds ==
    ASSUME NEW S \in SUBSET Nat, S # {}, NEW b \in Nat, \A n \in S : n <= b
    PROVE  Max(S) \in S /\ \A n \in S : n <= Max(S)
<1>1. PICK m \in S : \A n \in S : n <= m
  BY GreatestExists
<1>2. m \in S /\ \A y \in S : m >= y
  BY <1>1
<1> QED BY <1>2, Zenon DEF Max

\* The library's Min of a nonempty set of naturals is its least member.
LEMMA MinBounds ==
    ASSUME NEW S \in SUBSET Nat, S # {}
    PROVE  Min(S) \in S /\ \A n \in S : Min(S) <= n
<1>1. PICK m \in S : \A n \in S : m <= n
  BY SmallestExists
<1> QED BY <1>1, Zenon DEF Min

-----------------------------------------------------------------------------
(***************************************************************************)
(* Induction.                                                              *)
(***************************************************************************)
LEMMA NaturalInduction ==
    ASSUME NEW S, 0 \in S, \A n \in Nat : n \in S => n + 1 \in S
    PROVE  Nat \subseteq S
<1> SUFFICES ASSUME Nat \ S # {} PROVE FALSE
  OBVIOUS
<1>1. PICK m \in Nat \ S : \A n \in Nat \ S : m <= n
  BY SmallestExists
<1>2. m # 0
  OBVIOUS
<1>3. m - 1 \in Nat /\ m - 1 \notin Nat \ S
  BY <1>1, <1>2
<1> QED BY <1>3

\* A sequence that is not empty is an element behind a shorter one.
LEMMA FrontAndLast ==
    ASSUME NEW T, NEW s \in Seq(T), s # <<>>
    PROVE  /\ Front(s) \in Seq(T) /\ Last(s) \in T
           /\ s = Append(Front(s), Last(s))
           /\ Len(Front(s)) = Len(s) - 1
<1>1. Len(s) \in Nat /\ Len(s) >= 1
  <2>1. Len(s) \in Nat \ {0}
    OBVIOUS
  <2> QED BY <2>1
<1>2. /\ Front(s) \in Seq(T) /\ Len(Front(s)) = Len(s) - 1
      /\ \A i \in 1 .. Len(s) - 1 : Front(s)[i] = s[i]
  <2>1. Len(s) - 1 \in Int /\ \A i \in 1 .. Len(s) - 1 : s[i] \in T
    BY <1>1
  <2> DEFINE u == SubSeq(s, 1, Len(s) - 1)
  <2>2. /\ u \in Seq(T)
        /\ Len(u) = IF 1 <= Len(s) - 1 THEN Len(s) - 1 - 1 + 1 ELSE 0
        /\ \A i \in 1 .. Len(s) - 1 - 1 + 1 : u[i] = s[1 + i - 1]
    BY <2>1, SubSeqProperties
  <2> HIDE DEF u
  <2>3. Len(s) - 1 - 1 + 1 = Len(s) - 1 /\ \A i \in 1 .. Len(s) - 1 : 1 + i - 1 = i
    BY <1>1
  <2>4. \A i \in 1 .. Len(s) - 1 : u[i] = s[i]
    BY <2>2, <2>3
  <2>5. Len(u) = Len(s) - 1
    <3> DEFINE n == Len(s)
               m == Len(u)
    <3>1. m = IF 1 <= n - 1 THEN n - 1 - 1 + 1 ELSE 0
      BY <2>2
    <3>2. n \in Nat /\ n >= 1
      BY <1>1
    <3> HIDE DEF n, m
    <3>3. m = n - 1
      BY <3>1, <3>2
    <3> QED BY <3>3 DEF n, m
  <2> QED BY <2>2, <2>4, <2>5 DEF Front, u
<1>3. Last(s) \in T
  BY <1>1 DEF Last
<1> HIDE DEF Front, Last
<1>4. /\ Append(Front(s), Last(s)) \in Seq(T)
      /\ Len(Append(Front(s), Last(s))) = Len(s)
      /\ \A i \in 1 .. Len(s) - 1 : Append(Front(s), Last(s))[i] = s[i]
      /\ Append(Front(s), Last(s))[Len(s)] = Last(s)
  BY <1>1, <1>2, <1>3, AppendProperties
<1>5. \A i \in 1 .. Len(s) : Append(Front(s), Last(s))[i] = s[i]
  BY <1>1, <1>4 DEF Last
<1>6. s = Append(Front(s), Last(s))
  BY <1>4, <1>5, SeqEqual
<1> QED BY <1>2, <1>3, <1>6

\* Induction over sequences, as a closure: a set with <<>> that is closed under Append has
\* every sequence.
LEMMA SequenceInduction ==
    ASSUME NEW T, NEW S, <<>> \in S, \A s \in Seq(T), e \in T : s \in S => Append(s, e) \in S
    PROVE  Seq(T) \subseteq S
<1> DEFINE N == {n \in Nat : \A s \in Seq(T) : Len(s) = n => s \in S}
<1>1. 0 \in N
  BY EmptySeq
<1>2. ASSUME NEW n \in Nat, n \in N PROVE n + 1 \in N
  <2> SUFFICES ASSUME NEW s \in Seq(T), Len(s) = n + 1 PROVE s \in S
    OBVIOUS
  <2>1. s # <<>>
    OBVIOUS
  <2>2. Front(s) \in Seq(T) /\ Last(s) \in T /\ s = Append(Front(s), Last(s)) /\ Len(Front(s)) = n
    BY <2>1, FrontAndLast
  <2>3. Front(s) \in S
    BY <1>2, <2>2
  <2> QED BY <2>2, <2>3
<1> HIDE DEF N
<1>3. \A n \in Nat : n \in N
  BY <1>1, <1>2, NaturalInduction
<1> QED BY <1>3 DEF N

-----------------------------------------------------------------------------
(***************************************************************************)
(* FlattenSeq.                                                             *)
(***************************************************************************)
Flattens(f, ss, n) == f = [i \in 1 .. n |-> IF i = 1 THEN ss[i] ELSE f[i - 1] \o ss[i]]

\* The recursive function that FlattenSeq chooses exists.
LEMMA FlattenExists ==
    ASSUME NEW ss, NEW n \in Nat
    PROVE  \E f : Flattens(f, ss, n)
<1> DEFINE N == {m \in Nat : \E f : Flattens(f, ss, m)}
<1>1. 0 \in N
  <2> DEFINE f == [i \in 1 .. 0 |-> 0]
  <2>1. f = [i \in 1 .. 0 |-> IF i = 1 THEN ss[i] ELSE f[i - 1] \o ss[i]]
    OBVIOUS
  <2> QED BY <2>1 DEF Flattens
<1>2. ASSUME NEW m \in Nat, m \in N PROVE m + 1 \in N
  <2>1. PICK f : Flattens(f, ss, m)
    BY <1>2
  <2>2. \A i \in 1 .. m : f[i] = IF i = 1 THEN ss[i] ELSE f[i - 1] \o ss[i]
    BY <2>1 DEF Flattens
  <2> DEFINE g == [i \in 1 .. m + 1 |->
                      IF i = m + 1 THEN (IF m = 0 THEN ss[1] ELSE f[m] \o ss[m + 1]) ELSE f[i]]
  <2>3. ASSUME NEW i \in 1 .. m + 1
        PROVE  g[i] = IF i = 1 THEN ss[i] ELSE g[i - 1] \o ss[i]
    <3>1. CASE i = m + 1 /\ m = 0
      BY <3>1
    <3>2. CASE i = m + 1 /\ m # 0
      <4>1. m \in 1 .. m + 1 /\ i - 1 = m /\ i # 1 /\ m # m + 1
        BY <3>2
      <4>2. g[m] = f[m]
        BY <4>1
      <4>3. g[i] = f[m] \o ss[m + 1]
        BY <3>2
      <4> HIDE DEF g
      <4> QED BY <3>2, <4>1, <4>2, <4>3
    <3>3. CASE i # m + 1
      <4>1. i \in 1 .. m /\ (i # 1 => i - 1 \in 1 .. m /\ i - 1 # m + 1 /\ i - 1 \in 1 .. m + 1)
        BY <3>3
      <4>2. g[i] = f[i] /\ (i # 1 => g[i - 1] = f[i - 1])
        BY <3>3, <4>1
      <4> HIDE DEF g
      <4> QED BY <2>2, <4>1, <4>2
    <3> QED BY <3>1, <3>2, <3>3
  <2>4. g = [i \in 1 .. m + 1 |-> g[i]]
    OBVIOUS
  <2> HIDE DEF g
  <2>5. Flattens(g, ss, m + 1)
    BY <2>3, <2>4 DEF Flattens
  <2> QED BY <2>5
<1> HIDE DEF N
<1>3. n \in N
  BY <1>1, <1>2, NaturalInduction
<1> QED BY <1>3 DEF N

\* Sequences of T, flattened, are a sequence of T.
LEMMA FlattenTyped ==
    ASSUME NEW T, NEW ss \in Seq(Seq(T))
    PROVE  FlattenSeq(ss) \in Seq(T)
<1>1. Len(ss) \in Nat /\ \A i \in 1 .. Len(ss) : ss[i] \in Seq(T)
  OBVIOUS
<1> DEFINE F(f) == f = [i \in 1 .. Len(ss) |-> IF i = 1 THEN ss[i] ELSE f[i - 1] \o ss[i]]
           flatten == CHOOSE f : F(f)
<1>2. F(flatten)
  <2>1. \E f : F(f)
    BY <1>1, FlattenExists DEF Flattens
  <2> HIDE DEF F
  <2> QED BY <2>1
<1>3. ASSUME NEW k \in 1 .. Len(ss)
      PROVE  flatten[k] = IF k = 1 THEN ss[k] ELSE flatten[k - 1] \o ss[k]
  <2> HIDE DEF flatten
  <2> QED BY <1>2
<1>4. CASE Len(ss) = 0
  <2>1. ss = <<>> /\ <<>> \in Seq(T)
    BY <1>4
  <2>2. FlattenSeq(ss) = ss
    BY <1>4, Zenon DEF FlattenSeq
  <2> QED BY <2>1, <2>2
<1>5. CASE Len(ss) # 0
  <2>1. FlattenSeq(ss) = flatten[Len(ss)]
    BY <1>5, Zenon DEF FlattenSeq
  <2> DEFINE K == {k \in Nat : k \in 1 .. Len(ss) => flatten[k] \in Seq(T)}
  <2> HIDE DEF flatten, F
  <2>2. 0 \in K
    OBVIOUS
  <2>3. ASSUME NEW k \in Nat, k \in K PROVE k + 1 \in K
    <3> SUFFICES ASSUME k + 1 \in 1 .. Len(ss) PROVE flatten[k + 1] \in Seq(T)
      OBVIOUS
    <3>1. CASE k = 0
      <4>1. flatten[1] = ss[1]
        BY <1>3, <3>1
      <4> QED BY <1>1, <3>1, <4>1
    <3>2. CASE k # 0
      <4>1. flatten[k] \in Seq(T) /\ ss[k + 1] \in Seq(T)
        BY <1>1, <2>3, <3>2
      <4>2. k + 1 # 1 /\ k + 1 - 1 = k
        BY <3>2
      <4>3. flatten[k + 1] = flatten[k] \o ss[k + 1]
        <5>1. flatten[k + 1] = IF k + 1 = 1 THEN ss[k + 1] ELSE flatten[k + 1 - 1] \o ss[k + 1]
          BY <1>3
        <5> QED BY <4>2, <5>1
      <4> QED BY <4>1, <4>3, ConcatProperties
    <3> QED BY <3>1, <3>2
  <2> HIDE DEF K
  <2>4. \A k \in Nat : k \in K
    BY <2>2, <2>3, NaturalInduction
  <2>5. Len(ss) \in K /\ Len(ss) \in 1 .. Len(ss)
    BY <1>1, <1>5, <2>4
  <2>6. flatten[Len(ss)] \in Seq(T)
    BY <2>5 DEF K
  <2> QED BY <2>1, <2>6
<1> QED BY <1>4, <1>5

-----------------------------------------------------------------------------
(***************************************************************************)
(* How many elements of a sequence are of some types.                      *)
(***************************************************************************)
CountIn(s, types) == Cardinality({j \in 1 .. Len(s) : s[j].type \in types})

\* A count of the records of some types is a natural, of a finite set.
LEMMA CountTyped ==
    ASSUME NEW T, NEW s \in Seq(T), NEW types
    PROVE  /\ IsFiniteSet({j \in 1 .. Len(s) : s[j].type \in types})
           /\ CountIn(s, types) \in Nat
<1> DEFINE A == {j \in 1 .. Len(s) : s[j].type \in types}
<1>1. IsFiniteSet(1 .. Len(s))
  BY FS_Interval, LenProperties
<1>2. IsFiniteSet(A)
  BY <1>1, FS_Subset
<1>3. Cardinality(A) \in Nat
  BY <1>2, FS_CardinalityType
<1> QED BY <1>2, <1>3 DEF CountIn

\* The count of a concatenation is the sum of the counts.
LEMMA CountConcat ==
    ASSUME NEW T, NEW s \in Seq(T), NEW t \in Seq(T), NEW types
    PROVE  CountIn(s \o t, types) = CountIn(s, types) + CountIn(t, types)
<1> DEFINE m == Len(s)
           n == Len(t)
           A == {j \in 1 .. m : s[j].type \in types}
           B == {j \in 1 .. n : t[j].type \in types}
           C == {j \in m + 1 .. m + n : t[j - m].type \in types}
           f == [j \in B |-> j + m]
<1>1. m \in Nat /\ n \in Nat
  BY LenProperties
<1>2. /\ IsFiniteSet(A) /\ Cardinality(A) \in Nat
      /\ IsFiniteSet(B) /\ Cardinality(B) \in Nat
  BY CountTyped DEF CountIn
<1>3. ExistsBijection(B, C)
  <2>1. f \in [B -> C] BY <1>1
  <2>2. \A a, b \in B : f[a] = f[b] => a = b BY <1>1
  <2>3. \A c \in C : \E b \in B : f[b] = c
    <3> SUFFICES ASSUME NEW c \in C PROVE c - m \in B /\ f[c - m] = c
      OBVIOUS
    <3> QED BY <1>1
  <2>4. f \in Bijection(B, C)
    <3> HIDE DEF f, B, C
    <3> QED BY <2>1, <2>2, <2>3, Fun_IsBij
  <2> QED BY <2>4, Fun_ExistsBij DEF ExistsBijection
<1>4. IsFiniteSet(C) /\ Cardinality(C) = Cardinality(B)
  <2> HIDE DEF B, C
  <2> QED BY <1>2, <1>3, FS_Bijection
<1>5. {j \in 1 .. Len(s \o t) : (s \o t)[j].type \in types} = A \cup C
  <2>1. /\ Len(s \o t) = m + n
        /\ \A j \in 1 .. m + n : (s \o t)[j] = IF j <= m THEN s[j] ELSE t[j - m]
    BY ConcatProperties
  <2> QED BY <1>1, <2>1
<1>6. A \cap C = {}
  BY <1>1
<1>7. Cardinality(A \cup C) = Cardinality(A) + Cardinality(C)
  <2> HIDE DEF A, C
  <2>1. Cardinality(A \cap C) = 0 BY <1>6, FS_EmptySet
  <2>2. Cardinality(A \cup C) = Cardinality(A) + Cardinality(C) - Cardinality(A \cap C)
    BY <1>2, <1>4, FS_Union, Zenon
  <2> QED BY <1>2, <1>4, <2>1, <2>2
<1> QED BY <1>4, <1>5, <1>7 DEF CountIn

\* The count of a one-element sequence.
LEMMA CountSingle ==
    ASSUME NEW x, NEW types
    PROVE  CountIn(<<x>>, types) = IF x.type \in types THEN 1 ELSE 0
<1> DEFINE A == {j \in 1 .. Len(<<x>>) : <<x>>[j].type \in types}
<1>1. CASE x.type \in types
  <2>1. A = {1} BY <1>1
  <2> QED BY <1>1, <2>1, FS_Singleton DEF CountIn
<1>2. CASE x.type \notin types
  <2>1. A = {} BY <1>2
  <2> QED BY <1>2, <2>1, FS_EmptySet DEF CountIn
<1> QED BY <1>1, <1>2

\* A sequence without records of the types counts 0 of them.
LEMMA CountNone ==
    ASSUME NEW T, NEW s \in Seq(T), NEW types, \A j \in 1 .. Len(s) : s[j].type \notin types
    PROVE  CountIn(s, types) = 0
<1>1. {j \in 1 .. Len(s) : s[j].type \in types} = {}
  OBVIOUS
<1> QED BY <1>1, FS_EmptySet DEF CountIn

\* A sequence of nothing but records of the types counts them all.
LEMMA CountAll ==
    ASSUME NEW T, NEW s \in Seq(T), NEW types, \A j \in 1 .. Len(s) : s[j].type \in types
    PROVE  CountIn(s, types) = Len(s)
<1>1. {j \in 1 .. Len(s) : s[j].type \in types} = 1 .. Len(s)
  OBVIOUS
<1>2. Cardinality(1 .. Len(s)) = Len(s)
  <2>1. Len(s) \in Nat BY LenProperties
  <2> QED BY <2>1, FS_Interval
<1> QED BY <1>1, <1>2 DEF CountIn

\* ... and how many among the first n.
CountTo(s, n, types) == Cardinality({i \in 1 .. n : s[i].type \in types})

\* The count over the first n places is a natural, of a finite set.
LEMMA CountToTyped ==
    ASSUME NEW s, NEW n \in Nat, NEW types
    PROVE  /\ IsFiniteSet({i \in 1 .. n : s[i].type \in types})
           /\ CountTo(s, n, types) \in Nat
<1>1. IsFiniteSet(1 .. n)
  BY FS_Interval
<1>2. IsFiniteSet({i \in 1 .. n : s[i].type \in types})
  BY <1>1, FS_Subset
<1> QED BY <1>2, FS_CardinalityType DEF CountTo

\* Nothing is counted before the first place.
LEMMA CountToNone == ASSUME NEW s, NEW types PROVE CountTo(s, 0, types) = 0
<1>1. {i \in 1 .. 0 : s[i].type \in types} = {}
  OBVIOUS
<1> QED BY <1>1, FS_EmptySet DEF CountTo

\* One place more counts one more, or as many.
LEMMA CountToNext ==
    ASSUME NEW s, NEW n \in Nat, NEW types
    PROVE  CountTo(s, n + 1, types)
               = CountTo(s, n, types) + (IF s[n + 1].type \in types THEN 1 ELSE 0)
<1> DEFINE A(m) == {i \in 1 .. m : s[i].type \in types}
<1>1. IsFiniteSet(A(n)) /\ n + 1 \notin A(n) /\ Cardinality(A(n)) \in Nat
  <2>1. IsFiniteSet(A(n))
    BY CountToTyped
  <2>2. n + 1 \notin A(n)
    OBVIOUS
  <2> HIDE DEF A
  <2> QED BY <2>1, <2>2, FS_CardinalityType
<1>2. CASE s[n + 1].type \in types
  <2>1. A(n + 1) = A(n) \cup {n + 1}
    BY <1>2
  <2> HIDE DEF A
  <2>2. Cardinality(A(n) \cup {n + 1}) = Cardinality(A(n)) + 1
    BY <1>1, FS_AddElement
  <2> QED BY <1>2, <2>1, <2>2 DEF CountTo, A
<1>3. CASE s[n + 1].type \notin types
  <2>1. A(n + 1) = A(n)
    BY <1>3
  <2>2. Cardinality(A(n + 1)) = Cardinality(A(n)) + 0
    <3> HIDE DEF A
    <3> QED BY <1>1, <2>1
  <2> QED BY <1>3, <2>2 DEF CountTo
<1> QED BY <1>2, <1>3

\* The count depends on the places it goes over only.
LEMMA CountToAgrees ==
    ASSUME NEW s, NEW t, NEW n \in Nat, NEW types, \A i \in 1 .. n : s[i] = t[i]
    PROVE  CountTo(s, n, types) = CountTo(t, n, types)
<1>1. {i \in 1 .. n : s[i].type \in types} = {i \in 1 .. n : t[i].type \in types}
  OBVIOUS
<1> QED BY <1>1 DEF CountTo
=============================================================================
