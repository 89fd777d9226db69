---------------------------- MODULE ValuesProofs ----------------------------
(* What the operators on trees and sequences of trees preserve. *)
EXTENDS Values, FiniteSetTheorems, SequenceTheorems, TLAPS

-----------------------------------------------------------------------------
\* Sequences of trees.

\* A sequence over a set of trees is a sequence of trees: what the loops of
\* compose_sequence and compose_mapping push stays well formed.
LEMMA TreeSeqIntro ==
    ASSUME NEW S, NEW s \in Seq(S), \A v \in S : IsTree(v)
    PROVE  TreeSeq(s)
<1>1. Elements(s) = Range(s)
  BY DEF Elements, Range
<1>2. s \in Seq(Elements(s)) /\ Elements(s) \subseteq S
  BY <1>1, SeqOfRange, RangeOfSeq
<1> QED
  BY <1>2 DEF TreeSeq

\* No trees are a sequence of trees.
LEMMA TreeSeqEmpty == TreeSeq(<<>>)
<1>1. Elements(<<>>) = {}
  BY DEF Elements
<1> QED
  BY <1>1, EmptySeq DEF TreeSeq

\* A tree may be appended to a sequence of trees.
LEMMA TreeSeqAppend ==
    ASSUME NEW s, TreeSeq(s), NEW v, IsTree(v)
    PROVE  TreeSeq(Append(s, v))
<1> DEFINE S == Elements(s) \cup {v}
<1>1. s \in Seq(S)
  BY SeqMonotonic DEF TreeSeq
<1>2. Append(s, v) \in Seq(S)
  BY <1>1, AppendProperties
<1>3. \A w \in S : IsTree(w)
  BY DEF TreeSeq
<1> QED
  BY <1>2, <1>3, TreeSeqIntro

\* One tree is a sequence of trees.
LEMMA TreeSeqSingle == ASSUME NEW v, IsTree(v) PROVE TreeSeq(<<v>>)
<1> DEFINE S == {v}
<1>1. <<v>> \in Seq(S) /\ \A w \in S : IsTree(w)
  OBVIOUS
<1> HIDE DEF S
<1> QED
  BY <1>1, TreeSeqIntro

\* A key and its value may be appended to a sequence of trees.
LEMMA TreeSeqPair ==
    ASSUME NEW s, TreeSeq(s), NEW k, NEW v, IsTree(k), IsTree(v)
    PROVE  TreeSeq(s \o <<k, v>>)
<1> DEFINE S == Elements(s) \cup {k, v}
<1>1. s \in Seq(S)
  BY SeqMonotonic DEF TreeSeq
<1>2. <<k, v>> \in Seq(S)
  OBVIOUS
<1>3. s \o <<k, v>> \in Seq(S)
  BY <1>1, <1>2, ConcatProperties
<1>4. \A w \in S : IsTree(w)
  BY DEF TreeSeq
<1> QED
  BY <1>3, <1>4, TreeSeqIntro

\* IndexMap::insert keeps a mapping under construction a list of trees.
LEMMA TreeSeqInsert ==
    ASSUME NEW s, TreeSeq(s), NEW k, NEW v, IsTree(k), IsTree(v)
    PROVE  TreeSeq(Insert(s, k, v))
<1> DEFINE S == Elements(s) \cup {v}
           t == [j \in DOMAIN s |-> IF KeyAt(s, j - 1) /\ s[j - 1] = k THEN v ELSE s[j]]
<1>1. CASE HasKey(s, k)
  <2>1. s \in Seq(Elements(s))
    BY DEF TreeSeq
  <2>2. PICK n \in Nat : DOMAIN s = 1 .. n
    BY <2>1, LenProperties
  <2>3. \A j \in 1 .. n : t[j] \in S
    BY <2>2 DEF Elements
  <2>4. t \in [1 .. n -> S]
    BY <2>2, <2>3
  <2>5. t \in Seq(S)
    BY <2>4, SeqDef
  <2>6. \A w \in S : IsTree(w)
    BY DEF TreeSeq
  <2>7. Insert(s, k, v) = t
    BY <1>1 DEF Insert
  <2> QED
    BY <2>5, <2>6, <2>7, TreeSeqIntro
<1>2. CASE ~HasKey(s, k)
  BY <1>2, TreeSeqPair DEF Insert
<1> QED
  BY <1>1, <1>2

\* entry(k).or_insert(v) does as well.
LEMMA TreeSeqOrInsert ==
    ASSUME NEW s, TreeSeq(s), NEW k, NEW v, IsTree(k), IsTree(v)
    PROVE  TreeSeq(OrInsert(s, k, v))
  BY TreeSeqPair DEF OrInsert

-----------------------------------------------------------------------------
\* Trees.

\* A leaf is a tree.
LEMMA LeafIsTree == ASSUME NEW label PROVE IsTree(Leaf(label))
  BY FS_Singleton DEF IsTree, Leaf

\* The paths below one child are finitely many.
LEMMA ChildPathsFinite ==
    ASSUME NEW v, IsTree(v), NEW i
    PROVE  IsFiniteSet({<<i>> \o q : q \in DOMAIN v})
<1> DEFINE T == {<<i>> \o q : q \in DOMAIN v}
           f == [q \in DOMAIN v |-> <<i>> \o q]
<1>1. f \in Surjection(DOMAIN v, T)
  BY DEF Surjection
<1> QED
  BY <1>1, FS_Surjection DEF IsTree

\* A node over trees is a tree: what EndCollection builds is a value.
LEMMA BuildIsTree ==
    ASSUME NEW kids, TreeSeq(kids), NEW label
    PROVE  IsTree(Build(label, kids))
<1> DEFINE P(i) == {<<i>> \o q : q \in DOMAIN kids[i]}
           Ps == {P(i) : i \in DOMAIN kids}
           f == [i \in DOMAIN kids |-> P(i)]
<1>1. IsFiniteSet(DOMAIN kids)
  <2>1. kids \in Seq(Elements(kids))
    BY DEF TreeSeq
  <2>2. PICK n \in Nat : DOMAIN kids = 1 .. n
    BY <2>1, LenProperties
  <2>3. IsFiniteSet(1 .. n)
    BY <2>2, FS_Interval
  <2> QED
    BY <2>2, <2>3
<1>2. f \in Surjection(DOMAIN kids, Ps)
  BY DEF Surjection
<1>3. IsFiniteSet(Ps)
  BY <1>1, <1>2, FS_Surjection
<1>4. \A i \in DOMAIN kids : IsFiniteSet(P(i))
  <2> SUFFICES ASSUME NEW i \in DOMAIN kids PROVE IsFiniteSet(P(i))
    OBVIOUS
  <2>1. IsTree(kids[i])
    BY DEF TreeSeq, Elements
  <2> QED
    BY <2>1, ChildPathsFinite
<1>5. \A X \in Ps : IsFiniteSet(X)
  BY <1>4
<1>6. IsFiniteSet(UNION Ps)
  BY <1>3, <1>5, FS_UNION
<1>7. IsFiniteSet({<<>>} \cup UNION Ps)
  BY <1>6, FS_Singleton, FS_Union
<1>8. Paths(kids) = {<<>>} \cup UNION Ps
  BY DEF Paths
<1> QED
  BY <1>7, <1>8 DEF IsTree, Build

\* Taking a child that is there gives a tree.
LEMMA ChildIsTree ==
    ASSUME NEW v, IsTree(v), NEW i, <<i>> \in DOMAIN v
    PROVE  IsTree(Child(v, i))
<1> DEFINE B == Below(v, i)
           T == {Tail(p) : p \in B}
           f == [p \in B |-> Tail(p)]
<1>1. IsFiniteSet(B)
  <2>1. B \in SUBSET DOMAIN v
    BY DEF Below
  <2> QED
    BY <2>1, FS_Subset DEF IsTree
<1>2. f \in Surjection(B, T)
  BY DEF Surjection
<1>3. IsFiniteSet(T)
  BY <1>1, <1>2, FS_Surjection
<1>4. <<i>> \in B /\ Tail(<<i>>) = <<>>
  <2>1. <<i>> # <<>> /\ Head(<<i>>) = i /\ Tail(<<i>>) = <<>>
    OBVIOUS
  <2> QED
    BY <2>1 DEF Below
<1> QED
  BY <1>3, <1>4 DEF IsTree, Child

\* A tree has at least its root, so its score is at least its node count: the
\* charge of an alias is never below what it clones.
LEMMA ComplexityCoversNodes ==
    ASSUME NEW v, IsTree(v)
    PROVE  /\ NodeCount(v) \in Nat \ {0}
           /\ calculate_value_complexity(v) \in Nat
           /\ NodeCount(v) <= calculate_value_complexity(v)
<1>1. NodeCount(v) \in Nat
  BY FS_CardinalityType DEF IsTree, NodeCount
<1>2. NodeCount(v) # 0
  BY FS_EmptySet DEF IsTree, NodeCount
<1> QED
  BY <1>1, <1>2 DEF calculate_value_complexity

-----------------------------------------------------------------------------
\* Counting the nodes of values.

\* The keys of a mapping under construction are paired with values and differ.
EntriesOK(kids) ==
    /\ Len(kids) % 2 = 0
    /\ \A i, j \in DOMAIN kids :
           KeyAt(kids, i) /\ KeyAt(kids, j) /\ kids[i] = kids[j] => i = j

\* A set of paths put together from two is no larger than both.
LEMMA UnionBound ==
    ASSUME NEW S, NEW T, NEW U, IsFiniteSet(S), IsFiniteSet(T), U \subseteq S \cup T
    PROVE  /\ IsFiniteSet(U)
           /\ Cardinality(U) \in Nat /\ Cardinality(S) \in Nat /\ Cardinality(T) \in Nat
           /\ Cardinality(U) <= Cardinality(S) + Cardinality(T)
<1>1. /\ IsFiniteSet(S \cup T)
      /\ Cardinality(S \cup T) = Cardinality(S) + Cardinality(T) - Cardinality(S \cap T)
  BY FS_Union
<1>2. IsFiniteSet(U) /\ Cardinality(U) <= Cardinality(S \cup T)
  BY <1>1, FS_Subset
<1>3. IsFiniteSet(S \cap T)
  BY FS_Intersection
<1>4. /\ Cardinality(S) \in Nat /\ Cardinality(T) \in Nat /\ Cardinality(U) \in Nat
      /\ Cardinality(S \cap T) \in Nat /\ Cardinality(S \cup T) \in Nat
  BY <1>1, <1>2, <1>3, FS_CardinalityType
<1> QED BY <1>1, <1>2, <1>4

\* A value that becomes a child has as many paths below its parent, at most.
LEMMA PathsBelow ==
    ASSUME NEW v, IsTree(v), NEW i
    PROVE  /\ IsFiniteSet({<<i>> \o q : q \in DOMAIN v})
           /\ Cardinality({<<i>> \o q : q \in DOMAIN v}) <= NodeCount(v)
<1> DEFINE T == {<<i>> \o q : q \in DOMAIN v}
           f == [q \in DOMAIN v |-> <<i>> \o q]
<1>1. f \in Surjection(DOMAIN v, T)
  BY DEF Surjection
<1>2. IsFiniteSet(T) /\ Cardinality(T) <= Cardinality(DOMAIN v)
  BY <1>1, FS_Surjection DEF IsTree
<1> QED BY <1>2 DEF NodeCount

\* The nodes of a leaf, and of a node without children.
LEMMA SmallCounts ==
    ASSUME NEW label
    PROVE  NodeCount(Leaf(label)) = 1 /\ NodeCount(Build(label, <<>>)) = 1
<1>1. Cardinality({<<>>}) = 1
  BY FS_Singleton
<1>2. DOMAIN Leaf(label) = {<<>>}
  BY DEF Leaf
<1>3. DOMAIN Build(label, <<>>) = {<<>>}
  <2>1. Paths(<<>>) = {<<>>}
    BY DEF Paths
  <2> QED BY <2>1 DEF Build
<1> QED BY <1>1, <1>2, <1>3 DEF NodeCount

\* Children that differ from others in one place add at most the nodes of that one.
LEMMA PathsOfOneMore ==
    ASSUME NEW kids, TreeSeq(kids), NEW new, NEW n, NEW v, IsTree(v), NEW label,
           \A i \in DOMAIN new : IF i = n THEN new[i] = v ELSE i \in DOMAIN kids /\ new[i] = kids[i]
    PROVE  NodeCount(Build(label, new)) <= NodeCount(Build(label, kids)) + NodeCount(v)
<1> DEFINE T == {<<n>> \o q : q \in DOMAIN v}
<1>1. IsFiniteSet(Paths(kids))
  BY BuildIsTree DEF IsTree, Build
<1>2. IsFiniteSet(T) /\ Cardinality(T) <= NodeCount(v)
  BY PathsBelow
<1>3. Paths(new) \subseteq Paths(kids) \cup T
  <2> SUFFICES ASSUME NEW p \in Paths(new), p # <<>> PROVE p \in Paths(kids) \cup T
    BY DEF Paths
  <2>1. PICK i \in DOMAIN new : p \in {<<i>> \o q : q \in DOMAIN new[i]}
    BY DEF Paths
  <2>2. CASE i = n
    BY <2>1, <2>2
  <2>3. CASE i # n
    BY <2>1, <2>3 DEF Paths
  <2> QED BY <2>2, <2>3
<1> HIDE DEF T
<1>4. Cardinality(Paths(new)) <= Cardinality(Paths(kids)) + Cardinality(T)
      /\ Cardinality(Paths(new)) \in Nat /\ Cardinality(Paths(kids)) \in Nat /\ Cardinality(T) \in Nat
  BY <1>1, <1>2, <1>3, UnionBound
<1>5. /\ NodeCount(Build(label, new)) = Cardinality(Paths(new))
      /\ NodeCount(Build(label, kids)) = Cardinality(Paths(kids))
  BY DEF NodeCount, Build
<1>6. NodeCount(v) \in Nat
  BY ComplexityCoversNodes
<1> QED BY <1>2, <1>4, <1>5, <1>6

\* A child more.
LEMMA AppendCounts ==
    ASSUME NEW kids, TreeSeq(kids), NEW v, IsTree(v), NEW label
    PROVE  NodeCount(Build(label, Append(kids, v))) <= NodeCount(Build(label, kids)) + NodeCount(v)
<1> DEFINE S == Elements(kids) \cup {v}
           n == Len(kids) + 1
           new == Append(kids, v)
<1>1. kids \in Seq(S) /\ v \in S
  BY SeqMonotonic DEF TreeSeq
<1> HIDE DEF S
<1>2. \A i \in DOMAIN new : IF i = n THEN new[i] = v ELSE i \in DOMAIN kids /\ new[i] = kids[i]
  BY <1>1
<1> HIDE DEF new, n
<1>3. NodeCount(Build(label, new)) <= NodeCount(Build(label, kids)) + NodeCount(v)
  BY <1>2, PathsOfOneMore
<1> QED BY <1>3 DEF new

\* An entry more.
LEMMA PairCounts ==
    ASSUME NEW kids, TreeSeq(kids), NEW k, IsTree(k), NEW v, IsTree(v), NEW label
    PROVE  NodeCount(Build(label, kids \o <<k, v>>))
               <= NodeCount(Build(label, kids)) + NodeCount(k) + NodeCount(v)
<1> DEFINE S == Elements(kids) \cup {k, v}
<1>1. kids \in Seq(S) /\ k \in S /\ v \in S
  BY SeqMonotonic DEF TreeSeq
<1> HIDE DEF S
<1>2. kids \o <<k, v>> = Append(Append(kids, k), v)
  BY <1>1
<1>3. TreeSeq(Append(kids, k)) /\ TreeSeq(Append(Append(kids, k), v))
  BY TreeSeqAppend
<1>4. /\ NodeCount(Build(label, Append(kids, k))) <= NodeCount(Build(label, kids)) + NodeCount(k)
      /\ NodeCount(Build(label, Append(Append(kids, k), v)))
             <= NodeCount(Build(label, Append(kids, k))) + NodeCount(v)
  BY <1>3, AppendCounts
<1>5. /\ NodeCount(Build(label, kids)) \in Nat
      /\ NodeCount(Build(label, Append(kids, k))) \in Nat
      /\ NodeCount(Build(label, Append(Append(kids, k), v))) \in Nat
      /\ NodeCount(k) \in Nat /\ NodeCount(v) \in Nat
  BY <1>3, BuildIsTree, ComplexityCoversNodes
<1> DEFINE a == NodeCount(Build(label, kids))
           b == NodeCount(Build(label, Append(kids, k)))
           c == NodeCount(Build(label, Append(Append(kids, k), v)))
<1>6. ASSUME NEW x \in Nat, NEW y \in Nat, NEW z \in Nat, NEW m \in Nat, NEW n \in Nat,
             y <= x + m, z <= y + n
      PROVE  z <= x + m + n
  BY <1>6
<1>7. /\ a \in Nat /\ b \in Nat /\ c \in Nat
      /\ b <= a + NodeCount(k) /\ c <= b + NodeCount(v)
  BY <1>4, <1>5
<1> HIDE DEF a, b, c
<1>8. c <= a + NodeCount(k) + NodeCount(v)
  BY <1>5, <1>6, <1>7
<1> QED BY <1>2, <1>8 DEF a, c

\* IndexMap::insert adds at most the key and the value.
LEMMA InsertCounts ==
    ASSUME NEW kids, TreeSeq(kids), EntriesOK(kids),
           NEW k, IsTree(k), NEW v, IsTree(v), NEW label
    PROVE  NodeCount(Build(label, Insert(kids, k, v)))
               <= NodeCount(Build(label, kids)) + NodeCount(k) + NodeCount(v)
<1>1. CASE ~HasKey(kids, k)
  BY <1>1, PairCounts DEF Insert
<1>2. CASE HasKey(kids, k)
  <2> DEFINE new == [j \in DOMAIN kids |-> IF KeyAt(kids, j - 1) /\ kids[j - 1] = k THEN v ELSE kids[j]]
  <2>1. PICK n \in DOMAIN kids : KeyAt(kids, n) /\ kids[n] = k
    BY <1>2 DEF HasKey
  <2>2. kids \in Seq(Elements(kids)) /\ DOMAIN kids = 1 .. Len(kids) /\ Len(kids) \in Nat
    BY LenProperties DEF TreeSeq
  <2>3. ASSUME NEW j \in DOMAIN new
        PROVE  IF j = n + 1 THEN new[j] = v ELSE j \in DOMAIN kids /\ new[j] = kids[j]
    <3>1. j \in Nat /\ n \in Nat /\ (j = n + 1) = (j - 1 = n)
      BY <2>2
    <3>2. ASSUME KeyAt(kids, j - 1), kids[j - 1] = k PROVE j - 1 = n
      BY <2>1, <3>2 DEF EntriesOK, KeyAt
    <3> QED BY <2>1, <3>1, <3>2
  <2>4. Insert(kids, k, v) = new
    BY <1>2 DEF Insert
  <2> HIDE DEF new
  <2>5. NodeCount(Build(label, new)) <= NodeCount(Build(label, kids)) + NodeCount(v)
    BY <2>3, PathsOfOneMore
  <2>6. TreeSeq(new)
    BY <2>4, TreeSeqInsert
  <2>7. /\ NodeCount(Build(label, kids)) \in Nat /\ NodeCount(Build(label, new)) \in Nat
        /\ NodeCount(k) \in Nat /\ NodeCount(v) \in Nat
    BY <2>6, BuildIsTree, ComplexityCoversNodes
  <2> QED BY <2>4, <2>5, <2>7
<1> QED BY <1>1, <1>2

\* entry(k).or_insert(v) as well.
LEMMA OrInsertCounts ==
    ASSUME NEW kids, TreeSeq(kids), NEW k, IsTree(k), NEW v, IsTree(v), NEW label
    PROVE  NodeCount(Build(label, OrInsert(kids, k, v)))
               <= NodeCount(Build(label, kids)) + NodeCount(k) + NodeCount(v)
<1>1. CASE ~HasKey(kids, k)
  BY <1>1, PairCounts DEF OrInsert
<1>2. CASE HasKey(kids, k)
  <2>1. OrInsert(kids, k, v) = kids
    BY <1>2 DEF OrInsert
  <2>2. NodeCount(Build(label, kids)) \in Nat /\ NodeCount(k) \in Nat /\ NodeCount(v) \in Nat
    BY BuildIsTree, ComplexityCoversNodes
  <2> QED BY <2>1, <2>2
<1> QED BY <1>1, <1>2

\* Keys and values stay paired, and no key comes twice.
LEMMA PairKeepsEntries ==
    ASSUME NEW kids, TreeSeq(kids), EntriesOK(kids), NEW k, NEW v, ~HasKey(kids, k)
    PROVE  EntriesOK(kids \o <<k, v>>)
<1> DEFINE S == Elements(kids) \cup {k, v}
           n == Len(kids)
           new == kids \o <<k, v>>
<1>1. kids \in Seq(S) /\ <<k, v>> \in Seq(S) /\ n \in Nat
  BY SeqMonotonic DEF TreeSeq
<1> HIDE DEF S
<1>2. /\ Len(new) = n + 2 /\ DOMAIN new = 1 .. n + 2 /\ DOMAIN kids = 1 .. n
      /\ \A i \in 1 .. n : new[i] = kids[i]
      /\ new[n + 1] = k /\ new[n + 2] = v
  BY <1>1
<1>3. n % 2 = 0
  BY DEF EntriesOK
<1> HIDE DEF n, new
<1>4. (n + 2) % 2 = 0
  BY <1>1, <1>3
<1>5. ASSUME NEW i \in DOMAIN new, KeyAt(new, i), i \notin DOMAIN kids PROVE i = n + 1
  BY <1>1, <1>2, <1>4, <1>5 DEF KeyAt
<1>6. ASSUME NEW i \in DOMAIN new, NEW j \in DOMAIN new,
             KeyAt(new, i), KeyAt(new, j), new[i] = new[j]
      PROVE  i = j
  <2>1. CASE i \in DOMAIN kids /\ j \in DOMAIN kids
    BY <1>2, <1>6, <2>1 DEF EntriesOK, KeyAt
  <2>2. CASE i \notin DOMAIN kids /\ j \notin DOMAIN kids
    BY <1>5, <1>6, <2>2
  <2>3. CASE i \in DOMAIN kids /\ j \notin DOMAIN kids
    BY <1>2, <1>5, <1>6, <2>3 DEF HasKey, KeyAt
  <2>4. CASE i \notin DOMAIN kids /\ j \in DOMAIN kids
    BY <1>2, <1>5, <1>6, <2>4 DEF HasKey, KeyAt
  <2> QED BY <2>1, <2>2, <2>3, <2>4
<1>7. EntriesOK(new)
  BY <1>2, <1>4, <1>6 DEF EntriesOK
<1> QED BY <1>7 DEF new

\* IndexMap::insert and entry().or_insert() keep the entries of a mapping apart.
LEMMA InsertsKeepEntries ==
    ASSUME NEW kids, TreeSeq(kids), EntriesOK(kids), NEW k, NEW v
    PROVE  EntriesOK(Insert(kids, k, v)) /\ EntriesOK(OrInsert(kids, k, v))
<1>1. CASE ~HasKey(kids, k)
  BY <1>1, PairKeepsEntries DEF Insert, OrInsert
<1>2. CASE HasKey(kids, k)
  <2> DEFINE new == [j \in DOMAIN kids |-> IF KeyAt(kids, j - 1) /\ kids[j - 1] = k THEN v ELSE kids[j]]
  <2>1. kids \in Seq(Elements(kids)) /\ DOMAIN kids = 1 .. Len(kids) /\ Len(kids) \in Nat
    BY LenProperties DEF TreeSeq
  <2>2. DOMAIN new = DOMAIN kids /\ Len(new) = Len(kids)
    BY <2>1
  <2>3. ASSUME NEW j \in DOMAIN kids, KeyAt(kids, j) PROVE new[j] = kids[j]
    BY <2>1, <2>3 DEF KeyAt
  <2>4. \A j \in DOMAIN kids : KeyAt(new, j) = KeyAt(kids, j)
    BY <2>2 DEF KeyAt
  <2>5. Insert(kids, k, v) = new /\ OrInsert(kids, k, v) = kids
    BY <1>2 DEF Insert, OrInsert
  <2> HIDE DEF new
  <2>6. EntriesOK(new)
    BY <2>2, <2>3, <2>4 DEF EntriesOK
  <2> QED BY <2>5, <2>6
<1> QED BY <1>1, <1>2

\* Nothing is paired.
LEMMA NoEntries == EntriesOK(<<>>)
  BY DEF EntriesOK
=============================================================================
