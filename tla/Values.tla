------------------------------- MODULE Values -------------------------------
(***************************************************************************)
(* The values a document is composed of (src/value.rs, enum Value), as     *)
(* finite labelled trees.                                                  *)
(*                                                                         *)
(* A tree is a function from paths to labels.  The path of the root is     *)
(* <<>>, and p \o <<i>> is the path of the i-th child of the node at p.    *)
(* The label of a sequence is "SEQ" and of a mapping "MAP"; every other    *)
(* label is a scalar.  The children of a mapping are its keys and values   *)
(* in insertion order (the order of the IndexMap): key j is child 2j-1,    *)
(* its value child 2j.                                                     *)
(*                                                                         *)
(* With paths, "every node of a value" is DOMAIN, and no operator here is  *)
(* recursive: the work lists of the code become quantifiers over nodes.    *)
(***************************************************************************)
EXTENDS Naturals, Sequences, FiniteSets

SEQ == "SEQ"
MAP == "MAP"
Null == "null"
MergeKey == "<<"

\* The absence of a value: Rust's None.  Its domain is empty, so it is no tree.
NoValue == <<>>

IsTree(v) == IsFiniteSet(DOMAIN v) /\ <<>> \in DOMAIN v
OptTree(v) == v = NoValue \/ IsTree(v)

Elements(s) == {s[i] : i \in DOMAIN s}

TreeSeq(s) == s \in Seq(Elements(s)) /\ \A v \in Elements(s) : IsTree(v)

-----------------------------------------------------------------------------
\* Building and taking apart.

Paths(kids) == {<<>>} \cup UNION {{<<i>> \o q : q \in DOMAIN kids[i]} : i \in DOMAIN kids}

\* The node with this label and these children.
Build(label, kids) ==
    [p \in Paths(kids) |-> IF p = <<>> THEN label ELSE kids[Head(p)][Tail(p)]]

Leaf(label) == [p \in {<<>>} |-> label]

Label(v) == v[<<>>]

Children(v, p) == {q \in DOMAIN v : Len(q) = Len(p) + 1 /\ SubSeq(q, 1, Len(p)) = p}

Arity(v) == Cardinality(Children(v, <<>>))

Below(v, i) == {p \in DOMAIN v : p # <<>> /\ Head(p) = i}

\* The i-th child of the root, a tree of its own.
Child(v, i) == [q \in {Tail(p) : p \in Below(v, i)} |-> v[<<i>> \o q]]

-----------------------------------------------------------------------------
\* Measures.

NodeCount(v) == Cardinality(DOMAIN v)

\* Mutant: the root is charged like every other node.
ComplexityWithRoot(v) == 2 * NodeCount(v)

\* calculate_value_complexity pops every node once; a sequence scores
\* 1 + len, a mapping 1 + 2 * len, a scalar 1.  Every node but the root is
\* counted once more by its parent, hence the closed form.
calculate_value_complexity(v) == 2 * NodeCount(v) - 1

\* The nodes calculate_structure_depth reaches: it goes into the elements of
\* a sequence and the values of a mapping, never into a mapping's keys.
ReachedByDepth(v) ==
    {p \in DOMAIN v : \A i \in 1 .. Len(p) :
        v[SubSeq(p, 1, i - 1)] = MAP => p[i] % 2 = 0}

Deepest(paths) == CHOOSE n \in {Len(p) : p \in paths} : \A p \in paths : Len(p) <= n

calculate_structure_depth(v) == 1 + Deepest(ReachedByDepth(v))

\* The number of items of the collection at p: the len() of the Vec or IndexMap.
Items(v, p) ==
    IF v[p] = MAP THEN Cardinality(Children(v, p)) \div 2 ELSE Cardinality(Children(v, p))

-----------------------------------------------------------------------------
(***************************************************************************)
(* The entries of a mapping under construction, a flat sequence of keys    *)
(* and values.  Two keys are one when they are the same tree.  For keys    *)
(* that are mappings themselves this is the identity their Hash gives them *)
(* (src/value.rs hashes entries in order).                                 *)
(***************************************************************************)
KeyAt(kids, i) == i \in DOMAIN kids /\ i % 2 = 1

HasKey(kids, k) == \E i \in DOMAIN kids : KeyAt(kids, i) /\ kids[i] = k

\* Mutant: a Vec of entries, a repeated key is kept twice.
InsertAppending(kids, k, v) == kids \o <<k, v>>

\* IndexMap::insert: the value of an existing key is replaced in place.
Insert(kids, k, v) ==
    IF HasKey(kids, k)
    THEN [j \in DOMAIN kids |-> IF KeyAt(kids, j - 1) /\ kids[j - 1] = k THEN v ELSE kids[j]]
    ELSE kids \o <<k, v>>

\* entry(k).or_insert(v): an existing key keeps its value.
OrInsert(kids, k, v) == IF HasKey(kids, k) THEN kids ELSE kids \o <<k, v>>
=============================================================================
