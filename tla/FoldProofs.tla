------------------------------ MODULE FoldProofs ------------------------------
(***************************************************************************)
(* FoldLeft over sequences, for any operator: the module is instantiated   *)
(* with the operator of a fold (see ParserProofs).                         *)
(***************************************************************************)
EXTENDS Integers, SequencesExt, CollectionProofs

CONSTANTS
    Op(_, _)      \* takes an element of the sequence into the value so far

\* From a value of the empty sequence.
Fold(base, s) == FoldLeft(Op, base, s)

\* f is the function FoldLeft evaluates, on the first n elements of s.
Iterates(f, base, s, n) ==
    f = [S \in SUBSET (1 .. n) |-> IF S = {} THEN base ELSE Op(f[S \ {Max(S)}], s[Max(S)])]

\* Max of a nonempty part of 1 .. n is its greatest member.
LEMMA MaxOfSubset ==
    ASSUME NEW n \in Nat, NEW S \in SUBSET (1 .. n), S # {}
    PROVE  /\ Max(S) \in S
           /\ Max(S) \in 1 .. n
           /\ \A k \in S : k <= Max(S)
<1>1. S \in SUBSET Nat /\ \A k \in S : k <= n
  OBVIOUS
<1>2. Max(S) \in S /\ \A k \in S : k <= Max(S)
  BY <1>1, MaxBounds
<1> QED BY <1>2

\* A function that iterates Op over the first n elements exists.
LEMMA FoldExists ==
    ASSUME NEW base, NEW s, NEW n \in Nat
    PROVE  \E f : Iterates(f, base, s, n)
<1> DEFINE G == {m \in Nat : \E f : Iterates(f, base, s, m)}
<1>1. 0 \in G
  <2> DEFINE f == [S \in SUBSET (1 .. 0) |-> base]
  <2>1. \A S \in SUBSET (1 .. 0) : S = {} OBVIOUS
  <2>2. f = [S \in SUBSET (1 .. 0) |-> IF S = {} THEN base ELSE Op(f[S \ {Max(S)}], s[Max(S)])]
    BY <2>1
  <2> QED BY <2>2 DEF Iterates
<1>2. ASSUME NEW m \in Nat, m \in G PROVE m + 1 \in G
  <2>1. PICK f : Iterates(f, base, s, m) BY <1>2
  <2>2. /\ DOMAIN f = SUBSET (1 .. m)
        /\ \A S \in SUBSET (1 .. m) :
               f[S] = IF S = {} THEN base ELSE Op(f[S \ {Max(S)}], s[Max(S)])
    BY <2>1 DEF Iterates
  <2> DEFINE g == [S \in SUBSET (1 .. m + 1) |->
                      IF m + 1 \in S THEN Op(f[S \ {m + 1}], s[m + 1]) ELSE f[S]]
  <2>3. ASSUME NEW S \in SUBSET (1 .. m + 1)
        PROVE  g[S] = IF S = {} THEN base ELSE Op(g[S \ {Max(S)}], s[Max(S)])
    <3>1. CASE m + 1 \in S
      <4>1. Max(S) = m + 1
        <5> HIDE DEF g
        <5>1. m + 1 \in Nat /\ S # {} BY <3>1
        <5>2. Max(S) \in 1 .. m + 1 /\ m + 1 <= Max(S)
          BY <3>1, <5>1, MaxOfSubset
        <5> QED BY <5>2
      <4>2. S \ {m + 1} \in SUBSET (1 .. m + 1) /\ m + 1 \notin S \ {m + 1} OBVIOUS
      <4>3. S \ {m + 1} \in SUBSET (1 .. m) OBVIOUS
      <4>4. g[S \ {m + 1}] = f[S \ {m + 1}] BY <4>2
      <4>5. g[S] = Op(f[S \ {m + 1}], s[m + 1]) BY <3>1
      <4> QED BY <3>1, <4>1, <4>4, <4>5
    <3>2. CASE m + 1 \notin S
      <4>1. S \in SUBSET (1 .. m) BY <3>2
      <4>2. g[S] = f[S] BY <3>2
      <4>3. S \ {Max(S)} \in SUBSET (1 .. m + 1) /\ m + 1 \notin S \ {Max(S)} BY <3>2
      <4>4. g[S \ {Max(S)}] = f[S \ {Max(S)}] BY <4>3
      <4> QED BY <2>2, <4>1, <4>2, <4>4
    <3> QED BY <3>1, <3>2
  <2>4. g = [S \in SUBSET (1 .. m + 1) |-> g[S]]
    OBVIOUS
  <2> HIDE DEF g
  <2>5. Iterates(g, base, s, m + 1)
     BY <2>3, <2>4 DEF Iterates
  <2> QED BY <2>5
<1> HIDE DEF G
<1>3. n \in G BY <1>1, <1>2, NaturalInduction
<1> QED BY <1>3 DEF G

\* FoldLeft, which folds over the set of indices, iterates Op over the sequence.
LEMMA FoldIterates ==
    ASSUME NEW base, NEW T, NEW s \in Seq(T)
    PROVE  \E f : Iterates(f, base, s, Len(s)) /\ Fold(base, s) = f[1 .. Len(s)]
<1> DEFINE n == Len(s)
           I(f) == f = [S \in SUBSET DOMAIN s |->
                           IF S = {} THEN base ELSE Op(f[S \ {Max(S)}], s[Max(S)])]
<1>1. n \in Nat /\ DOMAIN s = 1 .. n
  OBVIOUS
<1>2. Fold(base, s) = (CHOOSE f : I(f))[DOMAIN s]
  BY Zenon DEF Fold, FoldLeft, MapThenFoldSet
<1>3. \A f : I(f) <=> Iterates(f, base, s, n)
  BY <1>1, Zenon DEF Iterates
<1>4. \E f : I(f)
  BY <1>1, <1>3, FoldExists
<1>5. I(CHOOSE f : I(f))
  <2> HIDE DEF I
  <2> QED BY <1>4
<1> HIDE DEF I
<1> QED BY <1>1, <1>2, <1>3, <1>5

\* Folding nothing gives the base.
THEOREM FoldEmpty == ASSUME NEW base PROVE Fold(base, <<>>) = base
<1>1. <<>> \in Seq({}) /\ Len(<<>>) = 0 /\ 1 .. 0 = {}
  OBVIOUS
<1>2. PICK f : Iterates(f, base, <<>>, 0) /\ Fold(base, <<>>) = f[{}]
  BY <1>1, FoldIterates
<1>3. {} \in SUBSET (1 .. 0)
  OBVIOUS
<1>4. f[{}] = base
  BY <1>2, <1>3 DEF Iterates
<1> QED BY <1>2, <1>4

\* f has the values of the fold over the first k elements, for every k up to n.
Steps(f, base, s, n) ==
    f[{}] = base /\ \A k \in 1 .. n : f[1 .. k] = Op(f[1 .. k - 1], s[k])

\* The values of an iteration on the first elements.
LEMMA IterateStep ==
    ASSUME NEW base, NEW s, NEW n \in Nat, NEW f, Iterates(f, base, s, n)
    PROVE  Steps(f, base, s, n)
<1>1. \A S \in SUBSET (1 .. n) :
          f[S] = IF S = {} THEN base ELSE Op(f[S \ {Max(S)}], s[Max(S)])
  BY DEF Iterates
<1>2. ASSUME NEW k \in 1 .. n PROVE f[1 .. k] = Op(f[1 .. k - 1], s[k])
  <2>1. (1 .. k) \in SUBSET (1 .. n) /\ 1 .. k # {} /\ k \in 1 .. k
    OBVIOUS
  <2>2. Max(1 .. k) = k
    <3>1. Max(1 .. k) \in 1 .. k /\ k <= Max(1 .. k)
      BY <2>1, MaxOfSubset
    <3> QED BY <3>1
  <2>3. (1 .. k) \ {k} = 1 .. k - 1
    OBVIOUS
  <2>4. f[1 .. k] = Op(f[(1 .. k) \ {Max(1 .. k)}], s[Max(1 .. k)])
    BY <1>1, <2>1
  <2> QED BY <2>2, <2>3, <2>4
<1>3. f[{}] = base
  BY <1>1
<1> QED BY <1>2, <1>3 DEF Steps

\* One element more is one application of Op more: what every proof about a fold needs.
THEOREM FoldAppend ==
    ASSUME NEW base, NEW T, NEW s \in Seq(T), NEW e \in T
    PROVE  Fold(base, Append(s, e)) = Op(Fold(base, s), e)
<1> DEFINE n == Len(s)
           t == Append(s, e)
<1>1. n \in Nat /\ t \in Seq(T) /\ Len(t) = n + 1 /\ t[n + 1] = e /\ \A k \in 1 .. n : t[k] = s[k]
  OBVIOUS
<1>2. PICK f : Iterates(f, base, s, n) /\ Fold(base, s) = f[1 .. n]
  BY FoldIterates
<1>3. PICK g : Iterates(g, base, t, n + 1) /\ Fold(base, t) = g[1 .. n + 1]
  BY <1>1, FoldIterates
<1> HIDE DEF n, t
<1>4. Steps(f, base, s, n)
  BY <1>1, <1>2, IterateStep
<1>5. Steps(g, base, t, n + 1)
  <2>1. n + 1 \in Nat
    BY <1>1
  <2> QED BY <1>3, <2>1, IterateStep
<1>6. f[1 .. n] = g[1 .. n]
  <2> DEFINE G == {k \in Nat : k <= n => f[1 .. k] = g[1 .. k]}
  <2>1. 0 \in G
    <3>1. 1 .. 0 = {} OBVIOUS
    <3> QED BY <1>4, <1>5, <3>1 DEF Steps
  <2>2. ASSUME NEW k \in Nat, k \in G PROVE k + 1 \in G
    <3> SUFFICES ASSUME k + 1 <= n PROVE f[1 .. k + 1] = g[1 .. k + 1]
      OBVIOUS
    <3>1. k + 1 \in 1 .. n /\ k + 1 \in 1 .. n + 1 /\ k + 1 - 1 = k /\ k <= n
      BY <1>1
    <3>2. f[1 .. k] = g[1 .. k]
      BY <2>2, <3>1
    <3>3. f[1 .. k + 1] = Op(f[1 .. k], s[k + 1]) /\ g[1 .. k + 1] = Op(g[1 .. k], t[k + 1])
      BY <1>4, <1>5, <3>1 DEF Steps
    <3> QED BY <1>1, <3>1, <3>2, <3>3
  <2> HIDE DEF G
  <2>3. n \in G
    BY <1>1, <2>1, <2>2, NaturalInduction
  <2> QED BY <1>1, <2>3 DEF G
<1>7. g[1 .. n + 1] = Op(g[1 .. n], e)
  <2>1. n + 1 \in 1 .. n + 1 /\ n + 1 - 1 = n BY <1>1
  <2> QED BY <1>1, <1>5, <2>1 DEF Steps
<1> QED BY <1>2, <1>3, <1>6, <1>7 DEF t

\* What holds of the base and is kept by the operator holds of every fold.
THEOREM FoldInvariant ==
    ASSUME NEW T, NEW A, NEW base \in A, \A a \in A, e \in T : Op(a, e) \in A, NEW s \in Seq(T)
    PROVE  Fold(base, s) \in A
<1> DEFINE S == {t \in Seq(T) : Fold(base, t) \in A}
<1>1. <<>> \in S
  BY FoldEmpty
<1>2. ASSUME NEW t \in Seq(T), NEW e \in T, t \in S PROVE Append(t, e) \in S
  <2>1. Fold(base, Append(t, e)) = Op(Fold(base, t), e)
    BY FoldAppend
  <2>2. Append(t, e) \in Seq(T)
    OBVIOUS
  <2> QED BY <1>2, <2>1, <2>2
<1> HIDE DEF S
<1>3. s \in S
  BY <1>1, <1>2, SequenceInduction
<1> QED BY <1>3 DEF S

\* Sequences with the same fold have it behind the same elements, too.
THEOREM FoldTail ==
    ASSUME NEW base, NEW T, NEW s \in Seq(T), NEW u \in Seq(T), Fold(base, s) = Fold(base, u), NEW t \in Seq(T)
    PROVE  Fold(base, s \o t) = Fold(base, u \o t)
<1> DEFINE S == {r \in Seq(T) : Fold(base, s \o r) = Fold(base, u \o r)}
<1>1. <<>> \in S
  <2>1. s \o <<>> = s /\ u \o <<>> = u
    OBVIOUS
  <2> QED BY <2>1
<1>2. ASSUME NEW r \in Seq(T), NEW e \in T, r \in S PROVE Append(r, e) \in S
  <2>1. /\ s \o Append(r, e) = Append(s \o r, e) /\ s \o r \in Seq(T)
        /\ u \o Append(r, e) = Append(u \o r, e) /\ u \o r \in Seq(T)
        /\ Append(r, e) \in Seq(T)
    OBVIOUS
  <2>2. /\ Fold(base, Append(s \o r, e)) = Op(Fold(base, s \o r), e)
        /\ Fold(base, Append(u \o r, e)) = Op(Fold(base, u \o r), e)
    <3>1. \A x \in Seq(T), y \in T : Fold(base, Append(x, y)) = Op(Fold(base, x), y)
      BY FoldAppend
    <3> QED BY <2>1, <3>1
  <2> QED BY <1>2, <2>1, <2>2
<1> HIDE DEF S
<1>3. t \in S
  BY <1>1, <1>2, SequenceInduction
<1> QED BY <1>3 DEF S

\* Elements that the operator passes over do not count.
THEOREM FoldSkips ==
    ASSUME NEW base, NEW T, NEW E \in SUBSET T, \A a : \A e \in E : Op(a, e) = a,
           NEW s \in Seq(T), NEW t \in Seq(E)
    PROVE  Fold(base, s \o t) = Fold(base, s)
<1> DEFINE S == {r \in Seq(E) : Fold(base, s \o r) = Fold(base, s)}
<1>1. <<>> \in S
  <2>1. s \o <<>> = s
    OBVIOUS
  <2> QED BY <2>1
<1>2. ASSUME NEW r \in Seq(E), NEW e \in E, r \in S PROVE Append(r, e) \in S
  <2>1. r \in Seq(T) /\ e \in T
    OBVIOUS
  <2>2. s \o Append(r, e) = Append(s \o r, e) /\ s \o r \in Seq(T) /\ Append(r, e) \in Seq(E)
    BY <2>1
  <2>3. Fold(base, Append(s \o r, e)) = Op(Fold(base, s \o r), e)
    <3>1. \A x \in Seq(T), y \in T : Fold(base, Append(x, y)) = Op(Fold(base, x), y)
      BY FoldAppend
    <3> QED BY <2>1, <2>2, <3>1
  <2> QED BY <1>2, <2>2, <2>3
<1> HIDE DEF S
<1>3. t \in S
  BY <1>1, <1>2, SequenceInduction
<1> QED BY <1>3 DEF S
=============================================================================
