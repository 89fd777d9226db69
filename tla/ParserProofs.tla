---------------------------- MODULE ParserProofs ----------------------------
(***************************************************************************)
(* What holds of scanner and parser together for every text: the types,    *)
(* that every event is in a document, and that no word is lost.            *)
(*                                                                         *)
(* The parser's arms are made of a few helpers that add events inside a    *)
(* document.  Each helper and each arm has a lemma: what it gets inside a  *)
(* document it leaves inside one, with the words it had.                   *)
(***************************************************************************)
EXTENDS FrontEnd, ScannerProofs

LevelFold == INSTANCE FoldProofs WITH Op <- Level
TokenFold == INSTANCE FoldProofs WITH Op <- WithToken
EventFold == INSTANCE FoldProofs WITH Op <- WithEvent

AnchorFold == INSTANCE FoldProofs WITH Op <- WithAnchor
NodeFold == INSTANCE FoldProofs WITH Op <- WithNode

Words(events) == FoldLeft(WithEvent, <<>>, events)
WordsRead(ts) == FoldLeft(WithToken, <<>>, ts)
Anchors(ts) == FoldLeft(WithAnchor, <<>>, ts)
Nodes(events) == FoldLeft(WithNode, <<>>, events)

\* The words of the events are a fold of this module's kind.
LEMMA WordsFold == \A s : EventFold!Fold(<<>>, s) = Words(s)
BY Zenon DEF EventFold!Fold, EventFold!FoldLeft, Words, FoldLeft, EventFold!MapThenFoldSet,
             MapThenFoldSet, EventFold!Max, Max

\* The words of the tokens are a fold of this module's kind.
LEMMA WordsReadFold == \A s : TokenFold!Fold(<<>>, s) = WordsRead(s)
BY Zenon DEF TokenFold!Fold, TokenFold!FoldLeft, WordsRead, FoldLeft, TokenFold!MapThenFoldSet,
             MapThenFoldSet, TokenFold!Max, Max

\* The walk over the events is a fold of this module's kind.
LEMMA LevelsFold == \A s : LevelFold!Fold(<<>>, s) = Levels(s)
BY Zenon DEF LevelFold!Fold, LevelFold!FoldLeft, Levels, FoldLeft, LevelFold!MapThenFoldSet,
             MapThenFoldSet, LevelFold!Max, Max

\* Events that are no words.
IsWord(e) == e.type \in Leaves /\ ~e.empty
Fillers == {e \in Events : ~IsWord(e)}

\* An event more is a word more exactly when it is a word of the text.
LEMMA WordsAppend ==
    ASSUME NEW s \in Seq(Events), NEW e \in Events
    PROVE  Words(Append(s, e)) = IF IsWord(e) THEN Append(Words(s), Place(e)) ELSE Words(s)
<1>1. EventFold!Fold(<<>>, Append(s, e)) = WithEvent(EventFold!Fold(<<>>, s), e)
  BY EventFold!FoldAppend
<1> QED BY <1>1, WordsFold DEF WithEvent, IsWord

\* Events that stand for no word of the text add no word.
LEMMA WordsFillers ==
    ASSUME NEW s \in Seq(Events), NEW t \in Seq(Fillers)
    PROVE  Words(s \o t) = Words(s)
<1>1. Fillers \in SUBSET Events /\ \A a : \A e \in Fillers : WithEvent(a, e) = a
  BY DEF Fillers, WithEvent, IsWord
<1>2. EventFold!Fold(<<>>, s \o t) = EventFold!Fold(<<>>, s)
  BY <1>1, EventFold!FoldSkips
<1> QED BY <1>2, WordsFold

\* What is appended to two streams with the same words leaves them with the same words.
LEMMA WordsTail ==
    ASSUME NEW s \in Seq(Events), NEW u \in Seq(Events), Words(s) = Words(u), NEW t \in Seq(Events)
    PROVE  Words(s \o t) = Words(u \o t)
<1>1. EventFold!Fold(<<>>, s) = EventFold!Fold(<<>>, u)
  BY WordsFold
<1>2. EventFold!Fold(<<>>, s \o t) = EventFold!Fold(<<>>, u \o t)
  BY <1>1, EventFold!FoldTail
<1> QED BY <1>2, WordsFold

\* A token more is a word more exactly when it is a scalar or an alias.
LEMMA WordsReadAppend ==
    ASSUME NEW s \in Seq(Tokens), NEW t \in Tokens
    PROVE  WordsRead(Append(s, t))
               = IF t.type \in Leaves THEN Append(WordsRead(s), Place(t)) ELSE WordsRead(s)
<1>1. TokenFold!Fold(<<>>, Append(s, t)) = WithToken(TokenFold!Fold(<<>>, s), t)
  BY TokenFold!FoldAppend
<1> QED BY <1>1, WordsReadFold DEF WithToken

-----------------------------------------------------------------------------
(***************************************************************************)
(* The anchors of the tokens, and the nodes that have one.                 *)
(***************************************************************************)
LEMMA AnchorsFold == \A s : AnchorFold!Fold(<<>>, s) = Anchors(s)
BY Zenon DEF AnchorFold!Fold, AnchorFold!FoldLeft, Anchors, FoldLeft, AnchorFold!MapThenFoldSet,
             MapThenFoldSet, AnchorFold!Max, Max

\* The nodes with an anchor are a fold of this module's kind.
LEMMA NodesFold == \A s : NodeFold!Fold(<<>>, s) = Nodes(s)
BY Zenon DEF NodeFold!Fold, NodeFold!FoldLeft, Nodes, FoldLeft, NodeFold!MapThenFoldSet,
             MapThenFoldSet, NodeFold!Max, Max

\* The place of an event is a place.
LEMMA EventSpot == ASSUME NEW e \in Events PROVE Spot(e) \in Spots
BY DEF Spot, Spots, Events

\* A token more is an anchor more exactly when it is one.
LEMMA AnchorsAppend ==
    ASSUME NEW s \in Seq(Tokens), NEW t \in Tokens
    PROVE  Anchors(Append(s, t)) = IF t.type = "Anchor" THEN Append(Anchors(s), Spot(t)) ELSE Anchors(s)
<1>1. AnchorFold!Fold(<<>>, Append(s, t)) = WithAnchor(AnchorFold!Fold(<<>>, s), t)
  BY AnchorFold!FoldAppend
<1> QED BY <1>1, AnchorsFold DEF WithAnchor

\* An event more is a node with an anchor more exactly when it has one.
LEMMA NodesAppend ==
    ASSUME NEW s \in Seq(Events), NEW e \in Events
    PROVE  Nodes(Append(s, e)) = IF e.anchor THEN Append(Nodes(s), Spot(e)) ELSE Nodes(s)
<1>1. NodeFold!Fold(<<>>, Append(s, e)) = WithNode(NodeFold!Fold(<<>>, s), e)
  BY NodeFold!FoldAppend
<1> QED BY <1>1, NodesFold DEF WithNode

\* Their places are places.
LEMMA AnchorsTyped == ASSUME NEW s \in Seq(Tokens) PROVE Anchors(s) \in Seq(Spots)
<1>1. \A a \in Seq(Spots), t \in Tokens : WithAnchor(a, t) \in Seq(Spots)
  BY SpotTyped DEF WithAnchor
<1>2. <<>> \in Seq(Spots)
  OBVIOUS
<1>3. AnchorFold!Fold(<<>>, s) \in Seq(Spots)
  BY <1>1, <1>2, AnchorFold!FoldInvariant
<1> QED BY <1>3, AnchorsFold

\* So are those of the nodes.
LEMMA NodesTyped == ASSUME NEW s \in Seq(Events) PROVE Nodes(s) \in Seq(Spots)
<1>1. \A a \in Seq(Spots), e \in Events : WithNode(a, e) \in Seq(Spots)
  BY EventSpot DEF WithNode
<1>2. <<>> \in Seq(Spots)
  OBVIOUS
<1>3. NodeFold!Fold(<<>>, s) \in Seq(Spots)
  BY <1>1, <1>2, NodeFold!FoldInvariant
<1> QED BY <1>3, NodesFold

\* Events without an anchor add none.
LEMMA NodesBare ==
    ASSUME NEW s \in Seq(Events), NEW u \in Seq({e \in Events : ~e.anchor})
    PROVE  Nodes(s \o u) = Nodes(s)
<1> DEFINE Bare == {e \in Events : ~e.anchor}
<1>1. Bare \in SUBSET Events /\ \A a : \A e \in Bare : WithNode(a, e) = a
  BY DEF WithNode
<1>2. NodeFold!Fold(<<>>, s \o u) = NodeFold!Fold(<<>>, s)
  <2> HIDE DEF Bare
  <2>1. u \in Seq(Bare)
    BY DEF Bare
  <2> QED BY <1>1, <2>1, NodeFold!FoldSkips
<1> QED BY <1>2, NodesFold

\* What is appended to two streams with the same anchors leaves them with the same anchors.
LEMMA NodesTail ==
    ASSUME NEW s \in Seq(Events), NEW u \in Seq(Events), Nodes(s) = Nodes(u), NEW v \in Seq(Events)
    PROVE  Nodes(s \o v) = Nodes(u \o v)
<1>1. NodeFold!Fold(<<>>, s) = NodeFold!Fold(<<>>, u)
  BY NodesFold
<1>2. NodeFold!Fold(<<>>, s \o v) = NodeFold!Fold(<<>>, u \o v)
  BY <1>1, NodeFold!FoldTail
<1> QED BY <1>2, NodesFold

-----------------------------------------------------------------------------
(***************************************************************************)
(* Documents begun and not ended behind the first n events.                *)
(***************************************************************************)
Documents(s, n) == CountTo(s, n, {"DocumentStart"}) - CountTo(s, n, {"DocumentEnd"})

\* The types of events that belong in a document.
Parts == NodeStarts \cup NodeEnds \cup Leaves

\* The change at one event.
Border(e) ==
    IF e.type = "DocumentStart" THEN 1 ELSE IF e.type = "DocumentEnd" THEN 0 - 1 ELSE 0

FramedAt(s, n) ==
    /\ Documents(s, n) \in {0, 1}
    /\ s[n].type \in Parts => Documents(s, n) = 1
    /\ s[n].type = "StreamEnd" => Documents(s, n) = 0

\* DocumentsFramed, and d documents are open at the end.
Framed(s, d) ==
    /\ s \in Seq(Events) /\ d \in {0, 1}
    /\ Documents(s, Len(s)) = d
    /\ \A n \in DOMAIN s : FramedAt(s, n)

\* The number of documents open after n events is an integer.
LEMMA DocumentsTyped ==
    ASSUME NEW s, NEW n \in Nat
    PROVE  Documents(s, n) \in Int
<1>1. CountTo(s, n, {"DocumentStart"}) \in Nat /\ CountTo(s, n, {"DocumentEnd"}) \in Nat
  BY CountToTyped
<1> QED BY <1>1 DEF Documents

\* No document is open before the first event.
LEMMA DocumentsNone == ASSUME NEW s PROVE Documents(s, 0) = 0
<1>1. CountTo(s, 0, {"DocumentStart"}) = 0 /\ CountTo(s, 0, {"DocumentEnd"}) = 0
  BY CountToNone
<1> QED BY <1>1 DEF Documents

\* A document start opens one, a document end closes one.
LEMMA DocumentsNext ==
    ASSUME NEW s, NEW n \in Nat
    PROVE  Documents(s, n + 1) = Documents(s, n) + Border(s[n + 1])
<1>1. CountTo(s, n, {"DocumentStart"}) \in Nat /\ CountTo(s, n, {"DocumentEnd"}) \in Nat
  BY CountToTyped
<1>2. /\ CountTo(s, n + 1, {"DocumentStart"})
             = CountTo(s, n, {"DocumentStart"}) + (IF s[n + 1].type \in {"DocumentStart"} THEN 1 ELSE 0)
      /\ CountTo(s, n + 1, {"DocumentEnd"})
             = CountTo(s, n, {"DocumentEnd"}) + (IF s[n + 1].type \in {"DocumentEnd"} THEN 1 ELSE 0)
  BY CountToNext
<1> QED BY <1>1, <1>2 DEF Documents, Border

\* The number depends on the events it goes over only.
LEMMA DocumentsAgree ==
    ASSUME NEW s, NEW t, NEW n \in Nat, \A i \in 1 .. n : s[i] = t[i]
    PROVE  Documents(s, n) = Documents(t, n)
BY CountToAgrees DEF Documents

\* The empty stream is framed with no document open.
LEMMA FramedEmpty == Framed(<<>>, 0)
<1>1. <<>> \in Seq(Events) /\ Len(<<>>) = 0 /\ DOMAIN <<>> = {}
  OBVIOUS
<1> QED BY <1>1, DocumentsNone DEF Framed

\* One event more.
LEMMA FramedAppend ==
    ASSUME NEW s, NEW d, Framed(s, d), NEW e \in Events, d + Border(e) \in {0, 1},
           e.type \in Parts => d = 1, e.type = "StreamEnd" => d = 0
    PROVE  Framed(Append(s, e), d + Border(e))
<1> DEFINE m == Len(s)
           u == Append(s, e)
<1>1. s \in Seq(Events) /\ m \in Nat /\ DOMAIN s = 1 .. m /\ d \in {0, 1}
  BY DEF Framed
<1>2. /\ u \in Seq(Events) /\ Len(u) = m + 1 /\ DOMAIN u = 1 .. m + 1 /\ u[m + 1] = e
      /\ \A i \in 1 .. m : u[i] = s[i]
  BY <1>1
<1> HIDE DEF u
<1>3. \A i \in 0 .. m : Documents(u, i) = Documents(s, i)
  <2> SUFFICES ASSUME NEW i \in 0 .. m PROVE Documents(u, i) = Documents(s, i)
    OBVIOUS
  <2>1. i \in Nat /\ \A j \in 1 .. i : u[j] = s[j]
    BY <1>1, <1>2
  <2> QED BY <2>1, DocumentsAgree
<1>4. Documents(u, m + 1) = d + Border(e)
  <2>1. Documents(u, m + 1) = Documents(u, m) + Border(u[m + 1])
    BY <1>1, DocumentsNext
  <2>2. Documents(u, m) = d
    BY <1>1, <1>3 DEF Framed
  <2> QED BY <1>2, <2>1, <2>2
<1>5. ASSUME NEW i \in DOMAIN u PROVE FramedAt(u, i)
  <2>1. CASE i \in 1 .. m
    BY <1>1, <1>2, <1>3, <2>1 DEF Framed, FramedAt
  <2>2. CASE i = m + 1
    <3>1. e.type \in Parts \cup {"StreamEnd"} => Border(e) = 0
      BY DEF Border, Parts, NodeStarts, NodeEnds, Leaves
    <3>2. u[i] = e /\ Documents(u, i) = d + Border(e)
      BY <1>2, <1>4, <2>2
    <3> QED BY <1>1, <3>1, <3>2 DEF FramedAt, Parts, NodeStarts, NodeEnds, Leaves
  <2>3. i \in 1 .. m \/ i = m + 1
    BY <1>1, <1>2
  <2> QED BY <2>1, <2>2, <2>3
<1>6. Documents(u, Len(u)) = d + Border(e)
  BY <1>2, <1>4
<1>7. Framed(u, d + Border(e))
  BY <1>2, <1>5, <1>6 DEF Framed
<1> QED BY <1>7 DEF u

PartEvents == {e \in Events : e.type \in Parts}

\* Inside a document, an event of a node leaves the stream framed.
LEMMA FramedPart ==
    ASSUME NEW s, Framed(s, 1), NEW e \in PartEvents
    PROVE  Framed(Append(s, e), 1)
<1>1. e \in Events /\ e.type \in Parts /\ e.type # "StreamEnd" /\ Border(e) = 0
  BY DEF PartEvents, Border, Parts, NodeStarts, NodeEnds, Leaves
<1>2. Framed(Append(s, e), 1 + Border(e))
  BY <1>1, FramedAppend
<1> QED BY <1>1, <1>2

\* Any number of events inside a document.
LEMMA FramedParts ==
    ASSUME NEW s, Framed(s, 1), NEW t \in Seq(PartEvents)
    PROVE  Framed(s \o t, 1)
<1> DEFINE S == {r \in Seq(PartEvents) : Framed(s \o r, 1)}
<1>0. s \in Seq(Events)
  BY DEF Framed
<1>1. <<>> \in S
  <2>1. s \o <<>> = s
    BY <1>0
  <2> QED BY <2>1
<1>2. ASSUME NEW r \in Seq(PartEvents), NEW e \in PartEvents, r \in S PROVE Append(r, e) \in S
  <2>1. s \o Append(r, e) = Append(s \o r, e) /\ Append(r, e) \in Seq(PartEvents)
    <3>1. PartEvents \in SUBSET Events BY DEF PartEvents
    <3> QED BY <1>0, <3>1
  <2>2. Framed(Append(s \o r, e), 1)
    BY <1>2, FramedPart
  <2> QED BY <2>1, <2>2
<1> HIDE DEF S
<1>3. t \in S
  BY <1>1, <1>2, SequenceInduction
<1> QED BY <1>3 DEF S

\* InsertAt moves what is at and behind the place up by one, and nothing else.
LEMMA InsertAtTyped ==
    ASSUME NEW T, NEW s \in Seq(T), NEW i \in 1 .. Len(s), NEW e \in T, NEW u, u = InsertAt(s, i, e)
    PROVE  /\ u \in Seq(T) /\ Len(u) = Len(s) + 1 /\ u[i] = e
           /\ \A k \in 1 .. i - 1 : u[k] = s[k]
           /\ \A k \in i + 1 .. Len(s) + 1 : u[k] = s[k - 1]
<1> DEFINE a == SubSeq(s, 1, i - 1)
           b == SubSeq(s, i, Len(s))
           c == a \o <<e>>
<1>1. Len(s) \in Nat /\ i \in Nat
  OBVIOUS
<1>2. a \in Seq(T) /\ Len(a) = i - 1 /\ \A k \in 1 .. i - 1 : a[k] = s[k]
  OBVIOUS
<1>3. b \in Seq(T) /\ Len(b) = Len(s) + 1 - i /\ \A k \in 1 .. Len(s) + 1 - i : b[k] = s[k + i - 1]
  OBVIOUS
<1>4. u = c \o b
  BY Zenon DEF InsertAt
<1> HIDE DEF a, b
<1>5. c \in Seq(T) /\ Len(c) = i /\ c[i] = e /\ \A k \in 1 .. i - 1 : c[k] = a[k]
  BY <1>2
<1> HIDE DEF c
<1>6. /\ u \in Seq(T) /\ Len(u) = Len(c) + Len(b)
      /\ \A k \in 1 .. Len(c) + Len(b) : u[k] = IF k <= Len(c) THEN c[k] ELSE b[k - Len(c)]
  BY <1>3, <1>4, <1>5, ConcatProperties
<1>7. Len(u) = Len(s) + 1 /\ u[i] = e /\ \A k \in 1 .. i - 1 : u[k] = s[k]
  BY <1>1, <1>2, <1>3, <1>5, <1>6
<1>8. \A k \in i + 1 .. Len(s) + 1 : u[k] = s[k - 1]
  <2> SUFFICES ASSUME NEW k \in i + 1 .. Len(s) + 1 PROVE u[k] = s[k - 1]
    OBVIOUS
  <2>1. u[k] = b[k - i]
    BY <1>1, <1>3, <1>5, <1>6
  <2>2. k - i \in 1 .. Len(s) + 1 - i /\ (k - i) + i - 1 = k - 1
    BY <1>1
  <2> QED BY <1>3, <2>1, <2>2
<1> QED BY <1>6, <1>7, <1>8

\* A part before another part.
LEMMA FramedInsert ==
    ASSUME NEW s, Framed(s, 1), NEW i \in DOMAIN s, s[i].type \in Parts, NEW e \in PartEvents
    PROVE  Framed(InsertAt(s, i, e), 1)
<1> DEFINE m == Len(s)
           u == InsertAt(s, i, e)
<1>1. s \in Seq(Events) /\ m \in Nat /\ DOMAIN s = 1 .. m /\ i \in 1 .. m /\ e \in Events
  BY DEF Framed, PartEvents
<1>2. /\ u \in Seq(Events) /\ Len(u) = m + 1 /\ DOMAIN u = 1 .. m + 1 /\ u[i] = e
      /\ \A k \in 1 .. i - 1 : u[k] = s[k]
      /\ \A k \in i + 1 .. m + 1 : u[k] = s[k - 1]
  <2>1. u = InsertAt(s, i, e)
    OBVIOUS
  <2> HIDE DEF u, m
  <2>2. s \in Seq(Events) /\ i \in 1 .. Len(s) /\ e \in Events
    BY <1>1 DEF m
  <2>3. /\ u \in Seq(Events) /\ Len(u) = Len(s) + 1 /\ u[i] = e
        /\ \A k \in 1 .. i - 1 : u[k] = s[k]
        /\ \A k \in i + 1 .. Len(s) + 1 : u[k] = s[k - 1]
    BY <2>1, <2>2, InsertAtTyped
  <2> QED BY <2>3 DEF m
<1> HIDE DEF u
<1>3. \A k \in 0 .. i - 1 : Documents(u, k) = Documents(s, k)
  <2> SUFFICES ASSUME NEW k \in 0 .. i - 1 PROVE Documents(u, k) = Documents(s, k)
    OBVIOUS
  <2>1. k \in Nat /\ \A j \in 1 .. k : u[j] = s[j]
    BY <1>1, <1>2
  <2> QED BY <2>1, DocumentsAgree
<1>4. Documents(u, i) = Documents(s, i - 1) /\ Documents(s, i - 1) = 1
  <2>1. i - 1 \in Nat /\ (i - 1) + 1 = i
    BY <1>1
  <2>2. /\ Documents(u, i) = Documents(u, i - 1) + Border(u[i])
        /\ Documents(s, i) = Documents(s, i - 1) + Border(s[i])
    <3>1. /\ Documents(u, (i - 1) + 1) = Documents(u, i - 1) + Border(u[(i - 1) + 1])
          /\ Documents(s, (i - 1) + 1) = Documents(s, i - 1) + Border(s[(i - 1) + 1])
      BY <2>1, DocumentsNext
    <3> QED BY <2>1, <3>1
  <2>3. Border(u[i]) = 0 /\ Border(s[i]) = 0
    BY <1>2 DEF Border, PartEvents, Parts, NodeStarts, NodeEnds, Leaves
  <2>4. Documents(s, i) = 1
    BY DEF Framed, FramedAt
  <2>5. Documents(u, i - 1) = Documents(s, i - 1) /\ Documents(s, i - 1) \in Int
    BY <1>3, <2>1, DocumentsTyped
  <2> QED BY <2>2, <2>3, <2>4, <2>5
<1>5. \A k \in i .. m + 1 : Documents(u, k) = Documents(s, k - 1)
  <2> DEFINE D == {k \in Nat : k \in i .. m + 1 => Documents(u, k) = Documents(s, k - 1)}
  <2>1. 0 \in D
    BY <1>1
  <2>2. ASSUME NEW k \in Nat, k \in D PROVE k + 1 \in D
    <3> SUFFICES ASSUME k + 1 \in i .. m + 1 PROVE Documents(u, k + 1) = Documents(s, k + 1 - 1)
      OBVIOUS
    <3>1. CASE k + 1 = i
      <4>1. k + 1 - 1 = i - 1
        BY <3>1
      <4> QED BY <1>4, <3>1, <4>1
    <3>2. CASE k + 1 # i
      <4>1. k \in i .. m + 1 /\ k - 1 \in Nat /\ (k - 1) + 1 = k /\ k + 1 \in i + 1 .. m + 1
        BY <1>1, <3>2
      <4>2. Documents(u, k) = Documents(s, k - 1) /\ u[k + 1] = s[k]
        BY <1>2, <2>2, <4>1
      <4>3. Documents(u, k + 1) = Documents(u, k) + Border(u[k + 1])
        BY DocumentsNext
      <4>4. Documents(s, (k - 1) + 1) = Documents(s, k - 1) + Border(s[(k - 1) + 1])
        BY <4>1, DocumentsNext
      <4>5. Documents(u, k + 1) = Documents(s, k)
        BY <4>1, <4>2, <4>3, <4>4
      <4> QED BY <4>5
    <3> QED BY <3>1, <3>2
  <2> HIDE DEF D
  <2>3. D = Nat
    <3>1. D \in SUBSET Nat BY DEF D
    <3> QED BY <2>1, <2>2, <3>1, NaturalInduction
  <2> QED BY <1>1, <2>3 DEF D
<1>6. ASSUME NEW k \in DOMAIN u PROVE FramedAt(u, k)
  <2>1. CASE k \in 1 .. i - 1
    <3>1. Documents(u, k) = Documents(s, k) /\ u[k] = s[k] /\ k \in DOMAIN s
      BY <1>1, <1>2, <1>3, <2>1
    <3> QED BY <3>1 DEF Framed, FramedAt
  <2>2. CASE k = i
    <3>1. Documents(u, k) = 1 /\ u[k].type # "StreamEnd"
      BY <1>2, <1>4, <2>2 DEF PartEvents, Parts, NodeStarts, NodeEnds, Leaves
    <3> QED BY <3>1 DEF FramedAt
  <2>3. CASE k \in i + 1 .. m + 1
    <3>1. Documents(u, k) = Documents(s, k - 1) /\ u[k] = s[k - 1] /\ k - 1 \in DOMAIN s
      BY <1>1, <1>2, <1>5, <2>3
    <3> QED BY <3>1 DEF Framed, FramedAt
  <2> QED BY <1>1, <1>2, <2>1, <2>2, <2>3
<1>7. Documents(u, Len(u)) = 1
  <2>1. m + 1 \in i .. m + 1 /\ m + 1 - 1 = m
    BY <1>1
  <2>2. Documents(u, m + 1) = Documents(s, m)
    BY <1>5, <2>1
  <2> QED BY <1>2, <2>2 DEF Framed
<1>8. Framed(u, 1)
  BY <1>2, <1>6, <1>7 DEF Framed
<1> QED BY <1>8 DEF u

-----------------------------------------------------------------------------
(***************************************************************************)
(* The walks over the events.                                              *)
(***************************************************************************)
LEMMA PiecesTyped ==
    ASSUME NEW s \in Seq(Events), NEW types, NEW from \in Nat
    PROVE  /\ IsFiniteSet({i \in from .. Len(s) : s[i].type \in types})
           /\ Pieces(s, types, from) \in Nat
<1>1. IsFiniteSet(from .. Len(s))
  BY FS_Interval
<1>2. IsFiniteSet({i \in from .. Len(s) : s[i].type \in types})
  BY <1>1, FS_Subset
<1> QED BY <1>2, FS_CardinalityType DEF Pieces

\* Past the end there are no events to count.
LEMMA PiecesNone ==
    ASSUME NEW s \in Seq(Events), NEW types, NEW from \in Nat, from > Len(s)
    PROVE  Pieces(s, types, from) = 0
<1>1. {i \in from .. Len(s) : s[i].type \in types} = {}
  OBVIOUS
<1> QED BY <1>1, FS_EmptySet DEF Pieces

\* Counted in two parts.
LEMMA CountSplits ==
    ASSUME NEW s \in Seq(Events), NEW m \in 1 .. Len(s), NEW types, s[m].type \notin types
    PROVE  CountTo(s, Len(s), types) = CountTo(s, m, types) + Pieces(s, types, m)
<1> DEFINE A == {i \in 1 .. m : s[i].type \in types}
           B == {i \in m .. Len(s) : s[i].type \in types}
           C == {i \in 1 .. Len(s) : s[i].type \in types}
<1>1. Len(s) \in Nat /\ m \in Nat
  OBVIOUS
<1>2. IsFiniteSet(A) /\ IsFiniteSet(B)
  BY <1>1, CountToTyped, PiecesTyped
<1>3. C = A \cup B /\ A \cap B = {}
  BY <1>1
<1> HIDE DEF A, B, C
<1>4. /\ Cardinality(A \cup B) = Cardinality(A) + Cardinality(B) - Cardinality(A \cap B)
      /\ Cardinality(A) \in Nat /\ Cardinality(B) \in Nat
  BY <1>2, FS_Union, FS_CardinalityType
<1>5. Cardinality(C) = Cardinality(A) + Cardinality(B)
  <2>1. Cardinality(A \cap B) = 0
    BY <1>3, FS_EmptySet
  <2>2. Cardinality(C) = Cardinality(A \cup B)
    BY <1>3
  <2> QED BY <1>4, <2>1, <2>2
<1> QED BY <1>5 DEF A, B, C, CountTo, Pieces

\* LastDocument is the place of the last DocumentStart, or 0.
LEMMA LastDocumentTyped ==
    ASSUME NEW s \in Seq(Events)
    PROVE  /\ LastDocument(s) \in 0 .. Len(s)
           /\ LastDocument(s) > 0 => s[LastDocument(s)].type = "DocumentStart"
           /\ \A i \in DOMAIN s : s[i].type = "DocumentStart" => i <= LastDocument(s)
<1> DEFINE P == {0} \cup {i \in DOMAIN s : s[i].type = "DocumentStart"}
<1>1. P \in SUBSET Nat /\ P # {} /\ \A n \in P : n <= Len(s)
  OBVIOUS
<1>2. Max(P) \in P /\ \A n \in P : n <= Max(P)
  <2> HIDE DEF P
  <2>1. Len(s) \in Nat OBVIOUS
  <2> QED BY <1>1, <2>1, MaxBounds
<1>3. LastDocument(s) = Max(P)
  BY DEF LastDocument
<1> DEFINE m == Max(P)
<1>4. m \in P /\ \A n \in P : n <= m
  BY <1>2
<1>5. LastDocument(s) = m
  BY <1>3
<1> HIDE DEF m
<1> QED BY <1>4, <1>5

\* HasOpenDocument finds out what the counts say.
LEMMA FramedOpen ==
    ASSUME NEW s, NEW d, Framed(s, d)
    PROVE  HasOpenDocument(s) <=> d = 1
<1> DEFINE m == LastDocument(s)
           starts(n) == CountTo(s, n, {"DocumentStart"})
           ends(n) == CountTo(s, n, {"DocumentEnd"})
<1>1. s \in Seq(Events) /\ Len(s) \in Nat /\ d \in {0, 1} /\ d = starts(Len(s)) - ends(Len(s))
  BY DEF Framed, Documents
<1>2. /\ m \in 0 .. Len(s)
      /\ m > 0 => s[m].type = "DocumentStart"
      /\ \A i \in DOMAIN s : s[i].type = "DocumentStart" => i <= m
  BY <1>1, LastDocumentTyped
<1> HIDE DEF m
<1>3. \A n \in Nat : starts(n) \in Nat /\ ends(n) \in Nat
  BY CountToTyped
<1>4. starts(Len(s)) = starts(m)
  <2>1. {i \in 1 .. Len(s) : s[i].type \in {"DocumentStart"}}
            = {i \in 1 .. m : s[i].type \in {"DocumentStart"}}
    BY <1>1, <1>2
  <2> QED BY <2>1 DEF CountTo
<1>5. CASE m = 0
  <2>1. starts(m) = 0
    BY <1>5, CountToNone
  <2>2. d = 0
    <3>1. ends(Len(s)) \in Nat
      BY <1>1, <1>3
    <3> HIDE DEF starts, ends
    <3> QED BY <1>1, <1>4, <2>1, <3>1
  <2> QED BY <1>5, <2>2 DEF HasOpenDocument, m
<1>6. CASE m > 0
  <2>1. m \in 1 .. Len(s) /\ s[m].type \notin {"DocumentEnd"} /\ m - 1 \in Nat /\ (m - 1) + 1 = m
    BY <1>1, <1>2, <1>6
  <2>2. ends(Len(s)) = ends(m) + Pieces(s, {"DocumentEnd"}, m)
    BY <1>1, <2>1, CountSplits
  <2>3. starts(m) - ends(m) = 1
    <3>1. Documents(s, (m - 1) + 1) = Documents(s, m - 1) + Border(s[(m - 1) + 1])
      BY <2>1, DocumentsNext
    <3>2. Border(s[m]) = 1
      BY <1>2, <1>6 DEF Border
    <3>3. Documents(s, m) \in {0, 1}
      BY <1>1, <2>1 DEF Framed, FramedAt
    <3>4. Documents(s, m - 1) \in {0, 1}
      <4>1. CASE m - 1 = 0
        BY <4>1, DocumentsNone
      <4>2. CASE m - 1 # 0
        <5>1. m - 1 \in DOMAIN s
          BY <1>1, <2>1, <4>2
        <5> QED BY <5>1 DEF Framed, FramedAt
      <4> QED BY <4>1, <4>2
    <3>5. Documents(s, m) = 1
      BY <2>1, <3>1, <3>2, <3>3, <3>4
    <3> QED BY <3>5 DEF Documents
  <2>4. Pieces(s, {"DocumentEnd"}, m) \in Nat
    <3>1. m \in Nat /\ s \in Seq(Events) BY <1>1, <1>2
    <3> QED BY <3>1, PiecesTyped
  <2>5. d = 1 - Pieces(s, {"DocumentEnd"}, m)
    <3>1. ends(m) \in Nat /\ starts(m) \in Nat /\ ends(Len(s)) \in Nat
      BY <1>1, <1>2, <1>3
    <3> HIDE DEF starts, ends
    <3> QED BY <1>1, <1>4, <2>2, <2>3, <2>4, <3>1
  <2>6. HasOpenDocument(s) <=> Pieces(s, {"DocumentEnd"}, m) = 0
    BY <1>6 DEF HasOpenDocument, m
  <2> QED BY <2>4, <2>5, <2>6
<1> QED BY <1>1, <1>2, <1>5, <1>6

\* A document that has just begun is open.
LEMMA FramedBegun ==
    ASSUME NEW s, NEW d, Framed(s, d), s # <<>>, Last(s).type = "DocumentStart"
    PROVE  d = 1
<1> DEFINE m == Len(s)
<1>1. s \in Seq(Events) /\ m \in Nat \ {0} /\ d \in {0, 1} /\ d = Documents(s, m)
      /\ s[m].type = "DocumentStart"
  BY DEF Framed, Last
<1> HIDE DEF m
<1>2. Documents(s, (m - 1) + 1) = Documents(s, m - 1) + Border(s[(m - 1) + 1])
  <2>1. m - 1 \in Nat BY <1>1
  <2> QED BY <2>1, DocumentsNext
<1>3. (m - 1) + 1 = m /\ Border(s[m]) = 1
  BY <1>1 DEF Border
<1>4. Documents(s, m - 1) \in {0, 1}
  <2>1. CASE m - 1 = 0
    BY <2>1, DocumentsNone
  <2>2. CASE m - 1 # 0
    <3>1. m - 1 \in DOMAIN s
      <4>1. DOMAIN s = 1 .. m
        BY <1>1 DEF m
      <4> QED BY <1>1, <2>2, <4>1
    <3> QED BY <3>1 DEF Framed, FramedAt
  <2> QED BY <2>1, <2>2
<1> QED BY <1>1, <1>2, <1>3, <1>4

\* What the property of the runs says.
LEMMA FramedProperty ==
    ASSUME NEW d, Framed(parser.events, d)
    PROVE  DocumentsFramed
<1> DEFINE s == parser.events
           upTo(n) == SubSeq(s, 1, n)
           open(n) == Pieces(upTo(n), {"DocumentStart"}, 1) - Pieces(upTo(n), {"DocumentEnd"}, 1)
<1>1. s \in Seq(Events) /\ \A n \in DOMAIN s : FramedAt(s, n)
  BY DEF Framed
<1>2. ASSUME NEW n \in DOMAIN s PROVE open(n) = Documents(s, n)
  <2>1. Len(upTo(n)) = n /\ \A i \in 1 .. n : upTo(n)[i] = s[i]
    BY <1>1
  <2>2. ASSUME NEW types PROVE Pieces(upTo(n), types, 1) = CountTo(s, n, types)
    <3>1. {i \in 1 .. Len(upTo(n)) : upTo(n)[i].type \in types} = {i \in 1 .. n : s[i].type \in types}
      <4> HIDE DEF upTo
      <4> QED BY <2>1
    <3> QED BY <3>1 DEF Pieces, CountTo
  <2> QED BY <2>2 DEF Documents
<1>3. ASSUME NEW n \in DOMAIN s
      PROVE  /\ open(n) \in {0, 1}
             /\ s[n].type \in NodeStarts \cup NodeEnds \cup Leaves => open(n) = 1
             /\ s[n].type = "StreamEnd" => open(n) = 0
  BY <1>1, <1>2 DEF FramedAt, Parts
<1> QED BY <1>3 DEF DocumentsFramed

-----------------------------------------------------------------------------
(***************************************************************************)
(* The collections that are open.                                          *)
(***************************************************************************)
LevelTypes == [start : NodeStarts, children : Nat]

\* Counting a child changes the top of the levels, not their number.
LEMMA CountedTyped ==
    ASSUME NEW levels \in Seq(LevelTypes)
    PROVE  Counted(levels) \in Seq(LevelTypes) /\ Len(Counted(levels)) = Len(levels)
<1>1. CASE levels = <<>>
  BY <1>1 DEF Counted
<1>2. CASE levels # <<>>
  <2> DEFINE n == Len(levels)
             more == [levels[n] EXCEPT !.children = @ + 1]
  <2>1. n \in Nat \ {0} /\ n \in DOMAIN levels /\ levels[n] \in LevelTypes
    BY <1>2
  <2>2. more \in LevelTypes
    BY <2>1 DEF LevelTypes
  <2>3. Counted(levels) = [levels EXCEPT ![n] = more]
    BY <1>2 DEF Counted
  <2> HIDE DEF more, n
  <2> QED BY <2>1, <2>2, <2>3
<1> QED BY <1>1, <1>2

\* What one event does to the levels: a start adds one, an end takes one, a document border
\* clears them.
LEMMA LevelTyped ==
    ASSUME NEW levels \in Seq(LevelTypes), NEW e \in Events
    PROVE  /\ Level(levels, e) \in Seq(LevelTypes)
           /\ e.type \in {"DocumentStart", "DocumentEnd"} => Len(Level(levels, e)) = 0
           /\ e.type \in NodeStarts => Len(Level(levels, e)) = Len(levels) + 1
           /\ e.type \in NodeEnds /\ levels # <<>> => Len(Level(levels, e)) = Len(levels) - 1
           /\ e.type \in NodeEnds /\ levels = <<>> => Len(Level(levels, e)) = 0
           /\ e.type \notin {"DocumentStart", "DocumentEnd"} \cup NodeStarts \cup NodeEnds
                  => Len(Level(levels, e)) = Len(levels)
<1>1. CASE e.type \in {"DocumentStart", "DocumentEnd"}
  <2>1. ~(e.type \in NodeStarts) /\ ~(e.type \in NodeEnds) /\ ~(e.type \in Leaves)
    BY <1>1 DEF NodeStarts, NodeEnds, Leaves
  <2>2. Level(levels, e) = <<>>
    BY <1>1, <2>1, Zenon DEF Level
  <2> QED BY <1>1, <2>1, <2>2
<1>2. CASE e.type \in NodeStarts
  <2> DEFINE l == [start |-> e.type, children |-> 0]
  <2>1. /\ ~(e.type \in {"DocumentStart", "DocumentEnd"}) /\ ~(e.type \in NodeEnds)
        /\ ~(e.type \in Leaves)
    BY <1>2 DEF NodeStarts, NodeEnds, Leaves
  <2>2. Level(levels, e) = Append(levels, l)
    BY <1>2, <2>1, Zenon DEF Level
  <2>3. l \in LevelTypes
    BY <1>2 DEF LevelTypes
  <2> HIDE DEF l
  <2> QED BY <1>2, <2>1, <2>2, <2>3
<1>3. CASE e.type \in NodeEnds
  <2> DEFINE outer == Front(levels)
  <2>1. /\ ~(e.type \in {"DocumentStart", "DocumentEnd"}) /\ ~(e.type \in NodeStarts)
        /\ ~(e.type \in Leaves)
    BY <1>3 DEF NodeStarts, NodeEnds, Leaves
  <2>2. Level(levels, e) = Counted(outer)
    BY <1>3, <2>1, Zenon DEF Level
  <2>3. /\ outer \in Seq(LevelTypes)
        /\ levels # <<>> => Len(outer) = Len(levels) - 1
        /\ levels = <<>> => Len(outer) = 0
    <3>1. CASE levels = <<>>
      <4>1. outer = <<>>
        BY <3>1 DEF Front
      <4> QED BY <3>1, <4>1
    <3>2. CASE levels # <<>>
      BY <3>2, FrontAndLast
    <3> QED BY <3>1, <3>2
  <2> HIDE DEF outer
  <2>4. Counted(outer) \in Seq(LevelTypes) /\ Len(Counted(outer)) = Len(outer)
    BY <2>3, CountedTyped
  <2> QED BY <1>3, <2>1, <2>2, <2>3, <2>4
<1>4. CASE e.type \notin {"DocumentStart", "DocumentEnd"} \cup NodeStarts \cup NodeEnds
  <2>1. /\ ~(e.type \in {"DocumentStart", "DocumentEnd"}) /\ ~(e.type \in NodeStarts)
        /\ ~(e.type \in NodeEnds)
    BY <1>4
  <2>2. Level(levels, e) = levels \/ Level(levels, e) = Counted(levels)
    BY <2>1, Zenon DEF Level
  <2> QED BY <1>4, <2>2, CountedTyped
<1> QED BY <1>1, <1>2, <1>3, <1>4

\* The walk over one event more.
LEMMA LevelsAppend ==
    ASSUME NEW s \in Seq(Events), NEW e \in Events
    PROVE  Levels(Append(s, e)) = Level(Levels(s), e)
<1>1. LevelFold!Fold(<<>>, Append(s, e)) = Level(LevelFold!Fold(<<>>, s), e)
  BY LevelFold!FoldAppend
<1> QED BY <1>1, LevelsFold

\* The walk gives levels.
LEMMA LevelsTyped == ASSUME NEW s \in Seq(Events) PROVE Levels(s) \in Seq(LevelTypes)
<1>1. <<>> \in Seq(LevelTypes) /\ \A a \in Seq(LevelTypes), e \in Events : Level(a, e) \in Seq(LevelTypes)
  BY LevelTyped
<1>2. LevelFold!Fold(<<>>, s) \in Seq(LevelTypes)
  BY <1>1, LevelFold!FoldInvariant
<1> QED BY <1>2, LevelsFold

\* The count over one event more.
LEMMA PiecesAppend ==
    ASSUME NEW s \in Seq(Events), NEW e \in Events, NEW types, NEW from \in 1 .. Len(s) + 1
    PROVE  Pieces(Append(s, e), types, from)
               = Pieces(s, types, from) + (IF e.type \in types THEN 1 ELSE 0)
<1> DEFINE n == Len(s)
           u == Append(s, e)
           A == {i \in from .. n : s[i].type \in types}
           B == {i \in from .. n + 1 : u[i].type \in types}
<1>1. n \in Nat /\ Len(u) = n + 1 /\ u[n + 1] = e /\ \A i \in 1 .. n : u[i] = s[i]
  OBVIOUS
<1>2. IsFiniteSet(A) /\ n + 1 \notin A /\ Cardinality(A) \in Nat
  <2>1. IsFiniteSet(A)
    <3>1. from \in Nat OBVIOUS
    <3> QED BY <3>1, PiecesTyped
  <2>2. n + 1 \notin A
    BY <1>1
  <2> HIDE DEF A
  <2> QED BY <2>1, <2>2, FS_CardinalityType
<1> HIDE DEF n, u
<1>3. CASE e.type \in types
  <2>1. B = A \cup {n + 1}
    BY <1>1, <1>3 DEF n
  <2> HIDE DEF A, B
  <2>2. Cardinality(B) = Cardinality(A) + 1
    BY <1>2, <2>1, FS_AddElement
  <2> QED BY <1>1, <1>3, <2>2 DEF A, B, n, u, Pieces
<1>4. CASE e.type \notin types
  <2>1. B = A
    BY <1>1, <1>4 DEF n
  <2> HIDE DEF A, B
  <2>2. Cardinality(B) = Cardinality(A) + 0
    BY <1>2, <2>1
  <2> QED BY <1>1, <1>4, <2>2 DEF A, B, n, u, Pieces
<1> QED BY <1>3, <1>4

\* The start of the k-th open collection: behind it, as many collections have started
\* and not ended as are open inside it.
OpensAt(s, i, inside) ==
    /\ i \in DOMAIN s /\ s[i].type \in NodeStarts
    /\ Pieces(s, NodeStarts, i + 1) = Pieces(s, NodeEnds, i + 1) + inside

Opened(s) == \A k \in 1 .. Len(Levels(s)) : \E i \in DOMAIN s : OpensAt(s, i, Len(Levels(s)) - k)

\* Every level of the walk has its start among the events: the one behind which as many
\* collections are open as there are levels above.
LEMMA LevelsOpened == ASSUME NEW s \in Seq(Events) PROVE Opened(s)
<1> DEFINE S == {r \in Seq(Events) : Opened(r)}
<1>1. <<>> \in S
  <2>1. Levels(<<>>) = <<>>
    BY LevelsFold, LevelFold!FoldEmpty
  <2> QED BY <2>1 DEF Opened
<1>2. ASSUME NEW r \in Seq(Events), NEW e \in Events, r \in S PROVE Append(r, e) \in S
  <2> DEFINE n == Len(r)
             u == Append(r, e)
             m == Len(Levels(r))
             d == Len(Levels(u))
  <2>1. /\ u \in Seq(Events) /\ n \in Nat /\ DOMAIN u = 1 .. n + 1 /\ DOMAIN r = 1 .. n
        /\ Len(u) = n + 1 /\ u[n + 1] = e /\ \A i \in 1 .. n : u[i] = r[i]
    OBVIOUS
  <2>2. Levels(r) \in Seq(LevelTypes) /\ Levels(u) = Level(Levels(r), e) /\ m \in Nat
        /\ (Levels(r) = <<>> <=> m = 0)
    BY LevelsTyped, LevelsAppend
  <2>3. /\ d \in Nat
        /\ e.type \in {"DocumentStart", "DocumentEnd"} => d = 0
        /\ e.type \in NodeStarts => d = m + 1
        /\ e.type \in NodeEnds => d = IF m = 0 THEN 0 ELSE m - 1
        /\ e.type \notin {"DocumentStart", "DocumentEnd"} \cup NodeStarts \cup NodeEnds => d = m
    <3>1. Levels(u) \in Seq(LevelTypes)
      BY <2>1, LevelsTyped
    <3>2. d \in Nat
      BY <3>1
    <3> HIDE DEF u
    <3> QED BY <2>2, <3>2, LevelTyped
  <2> HIDE DEF u, m, n
  <2>4. \A k \in 1 .. m : \E i \in DOMAIN r : OpensAt(r, i, m - k)
    BY <1>2 DEF Opened, m
  <2>5. ASSUME NEW i \in DOMAIN r, NEW inside, OpensAt(r, i, inside), inside \in Nat
        PROVE  /\ e.type \in NodeStarts => OpensAt(u, i, inside + 1)
               /\ e.type \in NodeEnds => OpensAt(u, i, inside - 1)
               /\ e.type \notin NodeStarts \cup NodeEnds => OpensAt(u, i, inside)
    <3>1. /\ Pieces(u, NodeStarts, i + 1)
                 = Pieces(r, NodeStarts, i + 1) + (IF e.type \in NodeStarts THEN 1 ELSE 0)
          /\ Pieces(u, NodeEnds, i + 1)
                 = Pieces(r, NodeEnds, i + 1) + (IF e.type \in NodeEnds THEN 1 ELSE 0)
      <4>1. i + 1 \in 1 .. Len(r) + 1
        BY <2>1 DEF n
      <4> QED BY <4>1, PiecesAppend DEF u
    <3>2. Pieces(r, NodeStarts, i + 1) \in Nat /\ Pieces(r, NodeEnds, i + 1) \in Nat
      <4>1. i + 1 \in Nat BY <2>1
      <4> QED BY <4>1, PiecesTyped
    <3>3. Pieces(r, NodeStarts, i + 1) = Pieces(r, NodeEnds, i + 1) + inside /\ r[i].type \in NodeStarts
      BY <2>5 DEF OpensAt
    <3>4. i \in DOMAIN u /\ u[i].type \in NodeStarts
      BY <2>1, <3>3
    <3>5. ~(e.type \in NodeStarts /\ e.type \in NodeEnds)
      BY DEF NodeStarts, NodeEnds
    <3> QED BY <2>5, <3>1, <3>2, <3>3, <3>4, <3>5 DEF OpensAt
  <2>6. e.type \in NodeStarts => OpensAt(u, n + 1, 0)
    <3>1. n + 1 + 1 \in Nat /\ n + 1 + 1 > Len(u) /\ n + 1 \in DOMAIN u
      BY <2>1
    <3>2. Pieces(u, NodeStarts, n + 1 + 1) = 0 /\ Pieces(u, NodeEnds, n + 1 + 1) = 0
      BY <2>1, <3>1, PiecesNone
    <3> QED BY <2>1, <3>1, <3>2 DEF OpensAt
  <2>7. ASSUME NEW k \in 1 .. d PROVE \E i \in DOMAIN u : OpensAt(u, i, d - k)
    <3>1. CASE e.type \in NodeStarts /\ k = m + 1
      <4>1. n + 1 \in DOMAIN u /\ d - k = 0
        BY <2>1, <2>2, <2>3, <3>1
      <4> QED BY <2>6, <3>1, <4>1
    <3>2. CASE ~(e.type \in NodeStarts /\ k = m + 1)
      <4>0. ~(e.type \in NodeStarts /\ e.type \in NodeEnds)
        BY DEF NodeStarts, NodeEnds
      <4>1. k \in 1 .. m /\ m - k \in Nat
        BY <2>2, <2>3, <3>2, <4>0
      <4>2. PICK i \in DOMAIN r : OpensAt(r, i, m - k)
        BY <2>4, <4>1
      <4>3. /\ e.type \in NodeStarts => OpensAt(u, i, (m - k) + 1)
            /\ e.type \in NodeEnds => OpensAt(u, i, (m - k) - 1)
            /\ e.type \notin NodeStarts \cup NodeEnds => OpensAt(u, i, m - k)
        BY <2>5, <4>1, <4>2
      <4>4. i \in DOMAIN u
        BY <2>1
      <4>5. /\ e.type \in NodeStarts => d - k = (m - k) + 1
            /\ e.type \in NodeEnds => d - k = (m - k) - 1
            /\ e.type \notin NodeStarts \cup NodeEnds => d - k = m - k
        BY <2>2, <2>3, <4>0, <4>1
      <4> QED BY <4>3, <4>4, <4>5
    <3> QED BY <3>1, <3>2
  <2> QED BY <2>1, <2>7 DEF Opened, u
<1> HIDE DEF S
<1>3. s \in S
  BY <1>1, <1>2, SequenceInduction
<1> QED BY <1>3 DEF S

\* With a collection open, there is a node that was completed last.
LEMMA LastNodeTyped ==
    ASSUME NEW s \in Seq(Events), Levels(s) # <<>>
    PROVE  LastNode(s) \in DOMAIN s /\ s[LastNode(s)].type \in Parts
<1> DEFINE P == {i \in DOMAIN s :
                   /\ s[i].type \in {"Scalar"} \cup NodeStarts
                   /\ Pieces(s, NodeEnds, i + 1) = Pieces(s, NodeStarts, i + 1)}
<1>1. Levels(s) \in Seq(LevelTypes) /\ Len(Levels(s)) \in Nat \ {0}
  <2>1. Levels(s) \in Seq(LevelTypes)
    BY LevelsTyped
  <2> QED BY <2>1
<1>2. PICK i \in DOMAIN s : OpensAt(s, i, 0)
  <2> DEFINE k == Len(Levels(s))
  <2>1. k \in 1 .. k /\ k - k = 0
    BY <1>1
  <2>2. \E i \in DOMAIN s : OpensAt(s, i, k - k)
    BY <2>1, LevelsOpened DEF Opened
  <2> QED BY <2>1, <2>2
<1>3. i \in P
  <2>1. Pieces(s, NodeEnds, i + 1) \in Nat
    <3>1. i + 1 \in Nat OBVIOUS
    <3> QED BY <3>1, PiecesTyped
  <2> QED BY <1>2, <2>1 DEF OpensAt
<1>4. P \in SUBSET Nat /\ \A n \in P : n <= Len(s)
  OBVIOUS
<1>5. Max(P) \in P
  <2> HIDE DEF P
  <2>1. Len(s) \in Nat /\ P # {}
    BY <1>3
  <2> QED BY <1>4, <2>1, MaxBounds
<1>6. LastNode(s) \in P
  BY <1>5 DEF LastNode
<1> HIDE DEF LastNode
<1> QED BY <1>6 DEF Parts, Leaves

-----------------------------------------------------------------------------
(***************************************************************************)
(* The helpers inside a document.                                          *)
(***************************************************************************)
Outside == {"StreamStart", "ImplicitDocumentStart", "StreamEnd"}
Inner == ParserStates \ Outside

\* The state may still be the one before the document that an arm has just begun.
Inside(p) ==
    /\ p \in Parsers
    /\ p.state \in Inner \cup {"ImplicitDocumentStart"}
    /\ p.state_stack \in Seq(Inner)
    /\ Framed(p.events, 1)

\* The anchor that waits goes on waiting, or a node at the token has it.
Hands(p, q, t) ==
    \/ q.pending_anchor = p.pending_anchor /\ Nodes(q.events) = Nodes(p.events)
    \/ /\ p.pending_anchor /\ ~q.pending_anchor
       /\ Nodes(q.events) = Append(Nodes(p.events), Spot(t))

\* What a helper leaves as it was, but for the anchor.
Same(p, q, t) ==
    /\ Words(q.events) = Words(p.events)
    /\ Hands(p, q, t)
    /\ Len(q.events) >= Len(p.events)
    /\ q.token_index = p.token_index /\ q.event_index = p.event_index /\ q.failed = p.failed

Steps(p, q, t) ==
    /\ Inside(q)
    /\ p.state \in Inner => q.state \in Inner
    /\ Same(p, q, t)

\* The events a helper adds: parts of a document at the token that are no words.
Inserts(t) == {e \in PartEvents : ~IsWord(e) /\ ~e.anchor /\ Spot(e) = Spot(t)}

\* An anchor is handed to one node only.
LEMMA HandsTogether ==
    ASSUME NEW t, NEW p, NEW q, NEW r, Hands(p, q, t), Hands(q, r, t)
    PROVE  Hands(p, r, t)
BY DEF Hands

\* Two steps inside a document are one.
LEMMA StepsTogether ==
    ASSUME NEW t, NEW p, NEW q, NEW r, Inside(p), Steps(p, q, t), Steps(q, r, t)
    PROVE  Steps(p, r, t)
<1>1. Len(p.events) \in Nat /\ Len(q.events) \in Nat /\ Len(r.events) \in Nat
  BY DEF Steps, Inside, Framed
<1>2. Len(r.events) >= Len(p.events)
  BY <1>1 DEF Steps, Same
<1>3. Hands(p, r, t)
  BY HandsTogether DEF Steps, Same
<1> QED BY <1>2, <1>3 DEF Steps, Same

\* Event makes an event of its type at the place of its token.
LEMMA EventTyped ==
    ASSUME NEW type \in EventTypes, NEW t \in Tokens
    PROVE  /\ Event(type, t) \in Events /\ Event(type, t).type = type
           /\ Event(type, t).line = t.line /\ Event(type, t).column = t.column
           /\ ~Event(type, t).empty /\ ~Event(type, t).anchor
BY DEF Event, Events, Tokens

\* Starts and ends of collections and empty scalars may be put anywhere in a document.
LEMMA InsertsTyped ==
    ASSUME NEW t \in Tokens
    PROVE  /\ \A type \in NodeStarts \cup NodeEnds : /\ Event(type, t) \in Inserts(t)
                                                     /\ FlowEvent(type, t) \in Inserts(t)
           /\ Empty(t) \in Inserts(t)
<1>1. NodeStarts \cup NodeEnds \subseteq EventTypes /\ "Scalar" \in EventTypes
  BY DEF NodeStarts, NodeEnds, EventTypes
<1>2. ASSUME NEW type \in NodeStarts \cup NodeEnds
      PROVE  Event(type, t) \in Inserts(t) /\ FlowEvent(type, t) \in Inserts(t)
  <2> DEFINE e == Event(type, t)
  <2>1. e \in Events /\ e.type = type /\ ~e.anchor /\ Spot(e) = Spot(t)
    BY <1>1, EventTyped DEF Spot
  <2>2. FlowEvent(type, t) = [e EXCEPT !.flow = TRUE]
    BY DEF FlowEvent
  <2> HIDE DEF e
  <2> DEFINE f == FlowEvent(type, t)
  <2>3. f \in Events /\ f.type = type /\ f.anchor = e.anchor /\ f.line = e.line /\ f.column = e.column
    BY <2>1, <2>2 DEF Events
  <2> HIDE DEF f
  <2>4. type \in Parts /\ type \notin Leaves
    BY DEF Parts, NodeStarts, NodeEnds, Leaves
  <2>5. e \in Inserts(t)
    BY <2>1, <2>4 DEF Inserts, PartEvents, IsWord
  <2>6. ~f.anchor /\ Spot(f) = Spot(t)
    BY <2>1, <2>3 DEF Spot
  <2>7. f \in Inserts(t)
    BY <2>3, <2>4, <2>6 DEF Inserts, PartEvents, IsWord
  <2> QED BY <2>5, <2>7 DEF e, f
<1>3. Empty(t) \in Inserts(t)
  <2> DEFINE e == Event("Scalar", t)
             f == Empty(t)
  <2>1. e \in Events /\ e.type = "Scalar" /\ ~e.anchor /\ Spot(e) = Spot(t)
    BY <1>1, EventTyped DEF Spot
  <2>2. f = [e EXCEPT !.empty = TRUE]
    BY DEF Empty
  <2> HIDE DEF e, f
  <2>3. /\ f \in Events /\ f.type = "Scalar" /\ f.empty
        /\ f.anchor = e.anchor /\ f.line = e.line /\ f.column = e.column
    BY <2>1, <2>2 DEF Events
  <2>4. ~f.anchor /\ Spot(f) = Spot(t)
    BY <2>1, <2>3 DEF Spot
  <2>5. f \in Inserts(t)
    BY <2>3, <2>4 DEF Inserts, PartEvents, IsWord, Parts, Leaves
  <2> QED BY <2>5 DEF f
<1> QED BY <1>2, <1>3

\* Properties do not change what an event is.
Carrying(e, p) == [e EXCEPT !.anchor = p.pending_anchor, !.tag = p.pending_tag]

\* An event that carries the pending properties keeps its type and its place.
LEMMA CarryingTyped ==
    ASSUME NEW p \in Parsers, NEW e \in Events
    PROVE  /\ Carrying(e, p) \in Events
           /\ Carrying(e, p).type = e.type /\ Carrying(e, p).empty = e.empty
           /\ Place(Carrying(e, p)) = Place(e) /\ Spot(Carrying(e, p)) = Spot(e)
           /\ Carrying(e, p).anchor = p.pending_anchor
<1>1. p.pending_anchor \in BOOLEAN /\ p.pending_tag \in BOOLEAN
  BY DEF Parsers
<1>2. /\ Carrying(e, p) \in Events
      /\ Carrying(e, p).type = e.type /\ Carrying(e, p).empty = e.empty
      /\ Carrying(e, p).line = e.line /\ Carrying(e, p).column = e.column
      /\ Carrying(e, p).anchor = p.pending_anchor
  BY <1>1 DEF Carrying, Events
<1> QED BY <1>2 DEF Place, Spot

\* New events instead of the old.
LEMMA EventsStep ==
    ASSUME NEW t, NEW p, Inside(p), NEW s, Framed(s, 1), Words(s) = Words(p.events),
           Nodes(s) = Nodes(p.events), Len(s) >= Len(p.events), NEW q, q = [p EXCEPT !.events = s]
    PROVE  Steps(p, q, t) /\ q.state = p.state /\ q.state_stack = p.state_stack
<1>1. p \in Parsers /\ s \in Seq(Events)
  BY DEF Inside, Framed
<1>2. /\ q \in Parsers /\ q.events = s /\ q.state = p.state /\ q.state_stack = p.state_stack
      /\ q.token_index = p.token_index /\ q.event_index = p.event_index /\ q.failed = p.failed
      /\ q.pending_anchor = p.pending_anchor
  BY <1>1 DEF Parsers
<1> QED BY <1>2 DEF Steps, Same, Hands, Inside

\* Fields that are none of those the proof is about.
LEMMA OthersStep ==
    ASSUME NEW t, NEW p, Inside(p), NEW q \in Parsers, q.events = p.events, q.state = p.state,
           q.state_stack = p.state_stack, q.token_index = p.token_index,
           q.event_index = p.event_index, q.failed = p.failed /\ q.pending_anchor = p.pending_anchor
    PROVE  Steps(p, q, t)
<1>1. Len(p.events) \in Nat
  BY DEF Inside, Framed
<1> QED BY <1>1 DEF Steps, Same, Hands, Inside

\* A part of an open document behind its events: framed, and a word or an anchor more
\* exactly when it is one or has one.
LEMMA AppendsInside ==
    ASSUME NEW p, Inside(p), NEW e \in PartEvents
    PROVE  /\ Framed(Append(p.events, e), 1)
           /\ ~IsWord(e) => Words(Append(p.events, e)) = Words(p.events)
           /\ Nodes(Append(p.events, e))
                  = IF e.anchor THEN Append(Nodes(p.events), Spot(e)) ELSE Nodes(p.events)
           /\ Len(Append(p.events, e)) >= Len(p.events)
<1>1. e \in Events /\ p.events \in Seq(Events)
  BY DEF PartEvents, Inside, Framed
<1>2. Framed(Append(p.events, e), 1)
  BY <1>1, FramedPart DEF Inside
<1>3. ~IsWord(e) => Words(Append(p.events, e)) = Words(p.events)
  BY <1>1, WordsAppend
<1>4. Len(Append(p.events, e)) >= Len(p.events)
  BY <1>1
<1>5. Nodes(Append(p.events, e))
          = IF e.anchor THEN Append(Nodes(p.events), Spot(e)) ELSE Nodes(p.events)
  BY <1>1, NodesAppend
<1> QED BY <1>2, <1>3, <1>4, <1>5

\* Push with an insert is a step inside the document.
LEMMA PushSteps ==
    ASSUME NEW t, NEW p, Inside(p), NEW e \in Inserts(t)
    PROVE  /\ Steps(p, Push(p, e), t)
           /\ Push(p, e).state = p.state /\ Push(p, e).state_stack = p.state_stack
<1> DEFINE q == Push(p, e)
           s == Append(p.events, e)
<1>1. q = [p EXCEPT !.events = s]
  BY DEF Push
<1>2. Framed(s, 1) /\ Words(s) = Words(p.events) /\ Nodes(s) = Nodes(p.events) /\ Len(s) >= Len(p.events)
  <2>1. e \in PartEvents /\ ~IsWord(e) /\ ~e.anchor
    BY DEF Inserts
  <2> QED BY <2>1, AppendsInside
<1> HIDE DEF q, s
<1>3. Steps(p, q, t) /\ q.state = p.state /\ q.state_stack = p.state_stack
  BY <1>1, <1>2, EventsStep
<1> QED BY <1>3 DEF q

\* PushIf with an insert is a step inside the document.
LEMMA PushIfSteps ==
    ASSUME NEW t, NEW p, Inside(p), NEW e \in Inserts(t), NEW c
    PROVE  /\ Steps(p, PushIf(c, p, e), t)
           /\ PushIf(c, p, e).state = p.state /\ PushIf(c, p, e).state_stack = p.state_stack
<1> DEFINE q == PushIf(c, p, e)
           s == IF c THEN Append(p.events, e) ELSE p.events
<1>1. q = [p EXCEPT !.events = s]
  BY DEF PushIf
<1>2. Framed(s, 1) /\ Words(s) = Words(p.events) /\ Nodes(s) = Nodes(p.events) /\ Len(s) >= Len(p.events)
  <2>1. Framed(p.events, 1) /\ Len(p.events) \in Nat
    BY DEF Inside, Framed
  <2>2. e \in PartEvents /\ ~IsWord(e) /\ ~e.anchor
    BY DEF Inserts
  <2> QED BY <2>1, <2>2, AppendsInside
<1> HIDE DEF q, s
<1>3. Steps(p, q, t) /\ q.state = p.state /\ q.state_stack = p.state_stack
  BY <1>1, <1>2, EventsStep
<1> QED BY <1>3 DEF q

\* PushNode with an insert is a step inside the document, and no anchor waits behind it.
LEMMA PushNodeSteps ==
    ASSUME NEW t, NEW p, Inside(p), NEW e \in Inserts(t)
    PROVE  /\ Steps(p, PushNode(p, e), t) /\ ~PushNode(p, e).pending_anchor
           /\ PushNode(p, e).state = p.state /\ PushNode(p, e).state_stack = p.state_stack
<1> DEFINE f == Carrying(e, p)
           s == Append(p.events, f)
           q == PushNode(p, e)
<1>0. p \in Parsers /\ e \in Events /\ e \in PartEvents /\ ~IsWord(e) /\ Spot(e) = Spot(t)
  BY DEF Inside, Inserts, PartEvents
<1>1. f \in PartEvents /\ ~IsWord(f) /\ f.anchor = p.pending_anchor /\ Spot(f) = Spot(t)
  <2>1. /\ f \in Events /\ f.type = e.type /\ f.empty = e.empty /\ f.anchor = p.pending_anchor
        /\ Spot(f) = Spot(e)
    BY <1>0, CarryingTyped
  <2> HIDE DEF f
  <2> QED BY <1>0, <2>1 DEF PartEvents, IsWord
<1>2. q = [p EXCEPT !.events = s, !.pending_anchor = FALSE, !.pending_tag = FALSE]
  BY <1>0 DEF PushNode, Push, Carrying, Parsers
<1> HIDE DEF f
<1>3. /\ Framed(s, 1) /\ Words(s) = Words(p.events) /\ Len(s) >= Len(p.events)
      /\ Nodes(s) = IF p.pending_anchor THEN Append(Nodes(p.events), Spot(t)) ELSE Nodes(p.events)
  BY <1>1, AppendsInside
<1> HIDE DEF s, q
<1>4. s \in Seq(Events)
  BY <1>3 DEF Framed
<1>5. /\ q \in Parsers /\ q.events = s /\ q.state = p.state /\ q.state_stack = p.state_stack
      /\ q.token_index = p.token_index /\ q.event_index = p.event_index /\ q.failed = p.failed
      /\ q.pending_anchor = FALSE /\ p.pending_anchor \in BOOLEAN
  BY <1>0, <1>2, <1>4 DEF Parsers
<1>6. Hands(p, q, t)
  BY <1>3, <1>5 DEF Hands
<1>7. Steps(p, q, t)
  BY <1>3, <1>5, <1>6 DEF Steps, Same, Inside
<1> QED BY <1>5, <1>7 DEF q

\* Doing nothing is a step inside the document.
LEMMA SelfSteps ==
    ASSUME NEW t, NEW p, Inside(p)
    PROVE  Steps(p, p, t)
<1>1. p \in Parsers
  BY DEF Inside
<1> QED BY <1>1, OthersStep

\* PushNodeIf with an insert is a step inside the document.
LEMMA PushNodeIfSteps ==
    ASSUME NEW t, NEW p, Inside(p), NEW e \in Inserts(t), NEW c
    PROVE  /\ Steps(p, PushNodeIf(c, p, e), t)
           /\ PushNodeIf(c, p, e).state = p.state
           /\ PushNodeIf(c, p, e).state_stack = p.state_stack
BY PushNodeSteps, SelfSteps DEF PushNodeIf

\* A state and a stack of states inside documents.
LEMMA StateStep ==
    ASSUME NEW t, NEW p, Inside(p), NEW q \in Parsers, q.events = p.events,
           q.state \in Inner \/ q.state = p.state,
           q.state_stack \in Seq(Inner), q.token_index = p.token_index,
           q.event_index = p.event_index, q.failed = p.failed /\ q.pending_anchor = p.pending_anchor
    PROVE  Steps(p, q, t)
<1>1. Len(p.events) \in Nat
  BY DEF Inside, Framed
<1> QED BY <1>1 DEF Steps, Same, Hands, Inside

\* Going to a state of a document is a step inside it.
LEMMA GotoSteps ==
    ASSUME NEW t, NEW p, Inside(p), NEW state \in Inner
    PROVE  /\ Steps(p, Goto(p, state), t) /\ Goto(p, state).state = state
           /\ Goto(p, state).state_stack = p.state_stack
<1> DEFINE q == Goto(p, state)
<1>1. /\ q \in Parsers /\ q.events = p.events /\ q.state = state
      /\ q.state_stack = p.state_stack /\ q.token_index = p.token_index
      /\ q.event_index = p.event_index /\ q.failed = p.failed /\ q.pending_anchor = p.pending_anchor
  BY DEF Inside, Parsers, Goto, Inner
<1>2. q.state_stack \in Seq(Inner)
  BY <1>1 DEF Inside
<1> HIDE DEF q
<1>3. Steps(p, q, t)
  BY <1>1, <1>2, StateStep
<1> QED BY <1>1, <1>3 DEF q

\* Saving the state is a step inside the document.
LEMMA SaveSteps ==
    ASSUME NEW t, NEW p, Inside(p), p.state \in Inner
    PROVE  /\ Steps(p, Save(p), t) /\ Save(p).state = p.state
           /\ Save(p).state_stack # <<>>
<1> DEFINE q == Save(p)
<1>1. p.state_stack \in Seq(Inner) /\ Append(p.state_stack, p.state) \in Seq(Inner)
      /\ Append(p.state_stack, p.state) \in Seq(ParserStates)
      /\ Append(p.state_stack, p.state) # <<>>
  BY DEF Inside, Inner
<1>2. /\ q \in Parsers /\ q.events = p.events /\ q.state = p.state
      /\ q.state_stack = Append(p.state_stack, p.state) /\ q.token_index = p.token_index
      /\ q.event_index = p.event_index /\ q.failed = p.failed /\ q.pending_anchor = p.pending_anchor
  BY <1>1 DEF Inside, Parsers, Save
<1> HIDE DEF q
<1>3. Steps(p, q, t)
  BY <1>1, <1>2, StateStep
<1> QED BY <1>1, <1>2, <1>3 DEF q

\* Saving the state under a condition is a step inside the document.
LEMMA SaveIfSteps ==
    ASSUME NEW t, NEW p, Inside(p), NEW states \in SUBSET Inner
    PROVE  Steps(p, SaveIf(states, p), t) /\ SaveIf(states, p).state = p.state
<1> DEFINE q == SaveIf(states, p)
           stack == IF p.state \in states THEN Append(p.state_stack, p.state) ELSE p.state_stack
<1>1. stack \in Seq(Inner)
  BY DEF Inside
<1>2. stack \in Seq(ParserStates) /\ q = [p EXCEPT !.state_stack = stack]
  <2>1. Inner \subseteq ParserStates
    BY DEF Inner
  <2> QED BY <1>1, <2>1 DEF SaveIf
<1> HIDE DEF stack, q
<1>3. /\ q \in Parsers /\ q.events = p.events /\ q.state = p.state
      /\ q.state_stack = stack /\ q.token_index = p.token_index
      /\ q.event_index = p.event_index /\ q.failed = p.failed /\ q.pending_anchor = p.pending_anchor
  BY <1>2 DEF Inside, Parsers
<1>4. Steps(p, q, t)
  BY <1>1, <1>3, StateStep
<1> QED BY <1>3, <1>4 DEF q

\* The states saved are states of a document: restoring one stays inside it.
LEMMA RestoreSteps ==
    ASSUME NEW t, NEW p, Inside(p), p.state_stack # <<>>
    PROVE  Steps(p, Restore(p), t) /\ Restore(p).state \in Inner
<1> DEFINE q == Restore(p)
           stack == Front(p.state_stack)
           state == Last(p.state_stack)
<1>1. stack \in Seq(Inner) /\ state \in Inner
  BY FrontAndLast DEF Inside
<1>2. stack \in Seq(ParserStates) /\ state \in ParserStates
  <2>1. Inner \subseteq ParserStates
    BY DEF Inner
  <2> QED BY <1>1, <2>1
<1>3. q = [p EXCEPT !.state = state, !.state_stack = stack]
  BY DEF Restore
<1> HIDE DEF stack, state, q
<1>4. /\ q \in Parsers /\ q.events = p.events /\ q.state = state
      /\ q.state_stack = stack /\ q.token_index = p.token_index
      /\ q.event_index = p.event_index /\ q.failed = p.failed /\ q.pending_anchor = p.pending_anchor
  BY <1>2, <1>3 DEF Inside, Parsers
<1>5. Steps(p, q, t)
  BY <1>1, <1>4, StateStep
<1> QED BY <1>1, <1>4, <1>5 DEF q

\* Going back to a saved state, or to DocumentContent, stays inside the document.
LEMMA ResumeSteps ==
    ASSUME NEW t, NEW p, Inside(p)
    PROVE  Steps(p, Resume(p), t) /\ Resume(p).state \in Inner
<1>1. "DocumentContent" \in Inner
  BY DEF Inner, ParserStates, Outside
<1> QED BY <1>1, GotoSteps, RestoreSteps DEF Resume

\* What follows a completed node stays inside the document.
LEMMA CompletedSteps ==
    ASSUME NEW t, NEW p, Inside(p)
    PROVE  Steps(p, Completed(p), t)
<1> DEFINE q == Completed(p)
           state == CASE p.state = "BlockMappingValue" -> "BlockMappingKey"
                      [] p.state = "FlowMappingValue" -> "FlowMapping"
                      [] OTHER -> p.state
<1>1. state \in Inner \/ state = p.state
  BY DEF Inner, ParserStates, Outside
<1>2. state \in ParserStates
  BY <1>1 DEF Inner, Inside, Parsers
<1>3. q = [p EXCEPT !.state = state]
  BY Zenon DEF Completed
<1> HIDE DEF state, q
<1>4. /\ q \in Parsers /\ q.events = p.events /\ q.state = state
      /\ q.state_stack = p.state_stack /\ q.token_index = p.token_index
      /\ q.event_index = p.event_index /\ q.failed = p.failed /\ q.pending_anchor = p.pending_anchor
  BY <1>2, <1>3 DEF Inside, Parsers
<1>5. q.state_stack \in Seq(Inner)
  BY <1>4 DEF Inside
<1>6. Steps(p, q, t)
  BY <1>1, <1>4, <1>5, StateStep
<1> QED BY <1>6 DEF q

\* Wraps a node that is there.
LEMMA WrapFromSteps ==
    ASSUME NEW t, NEW p, Inside(p), NEW i \in DOMAIN p.events, p.events[i].type \in Parts, NEW flow \in BOOLEAN
    PROVE  /\ Steps(p, WrapFrom(p, i, flow), t)
           /\ WrapFrom(p, i, flow).state = p.state
           /\ WrapFrom(p, i, flow).state_stack = p.state_stack
<1> DEFINE s == p.events
           m == Event("MappingStart", s[i])
           e == [m EXCEPT !.flow = flow]
           u == InsertAt(s, i, e)
           q == WrapFrom(p, i, flow)
           a == SubSeq(s, 1, i - 1)
           b == SubSeq(s, i, Len(s))
<1>1. s \in Seq(Events) /\ Len(s) \in Nat /\ i \in 1 .. Len(s) /\ s[i] \in Events
  BY DEF Inside, Framed
<1>2. e \in PartEvents /\ e \in Events /\ ~IsWord(e) /\ ~e.anchor
  <2>1. m \in Events /\ m.type = "MappingStart" /\ ~m.anchor
    BY <1>1 DEF Event, Events, EventTypes
  <2> HIDE DEF m
  <2>2. e \in Events /\ e.type = "MappingStart" /\ ~e.anchor
    BY <2>1 DEF Events
  <2> HIDE DEF e
  <2> QED BY <2>2 DEF PartEvents, IsWord, Parts, NodeStarts, Leaves
<1>3. q = [p EXCEPT !.events = u]
  BY DEF WrapFrom
<1> HIDE DEF m, e
<1>4. e \in PartEvents /\ e \in Events /\ ~IsWord(e) /\ ~e.anchor
  BY <1>2
<1>5. Framed(u, 1)
  BY <1>4, FramedInsert DEF Inside
<1>6. Len(u) >= Len(s)
  <2>1. u = InsertAt(s, i, e)
    OBVIOUS
  <2> HIDE DEF u
  <2>2. Len(u) = Len(s) + 1
    BY <1>1, <1>4, <2>1, InsertAtTyped
  <2> QED BY <1>1, <2>2
<1>7. Words(u) = Words(s) /\ Nodes(u) = Nodes(s)
  <2>1. a \in Seq(Events) /\ b \in Seq(Events) /\ s = a \o b
    <3>1. a \in Seq(Events) /\ b \in Seq(Events)
      BY <1>1
    <3>2. i - 1 \in 1 - 1 .. Len(s) /\ Len(s) \in i - 1 .. Len(s) /\ 1 \in 1 .. Len(s) + 1 /\ (i - 1) + 1 = i
      BY <1>1
    <3>3. SubSeq(s, 1, i - 1) \o SubSeq(s, (i - 1) + 1, Len(s)) = SubSeq(s, 1, Len(s))
      BY <1>1, <3>2, ConcatAdjacentSubSeq
    <3>4. SubSeq(s, 1, Len(s)) = s
      BY <1>1, SubSeqFull
    <3> QED BY <3>1, <3>2, <3>3, <3>4
  <2>2. u = (a \o <<e>>) \o b /\ a \o <<e>> = Append(a, e) /\ a \o <<e>> \in Seq(Events)
    <3>1. u = (a \o <<e>>) \o b
      BY Zenon DEF InsertAt
    <3> HIDE DEF u, a, b
    <3> QED BY <1>4, <2>1, <3>1
  <2> HIDE DEF a, b, u
  <2>3. Words(a \o <<e>>) = Words(a)
    BY <1>4, <2>1, <2>2, WordsAppend
  <2>4. Words((a \o <<e>>) \o b) = Words(a \o b)
    BY <2>1, <2>2, <2>3, WordsTail
  <2>5. Nodes(a \o <<e>>) = Nodes(a)
    BY <1>4, <2>1, <2>2, NodesAppend
  <2>6. Nodes((a \o <<e>>) \o b) = Nodes(a \o b)
    BY <2>1, <2>2, <2>5, NodesTail
  <2> QED BY <2>1, <2>2, <2>4, <2>6
<1> HIDE DEF q, u
<1>8. Steps(p, q, t) /\ q.state = p.state /\ q.state_stack = p.state_stack
  BY <1>3, <1>5, <1>6, <1>7, EventsStep
<1> QED BY <1>8 DEF q

\* Closing what the walk finds open is a step inside the document.
LEMMA CloseOpenCollectionsSteps ==
    ASSUME NEW p, Inside(p), NEW t \in Tokens
    PROVE  /\ Steps(p, CloseOpenCollections(p, t), t)
           /\ CloseOpenCollections(p, t).state = p.state
           /\ CloseOpenCollections(p, t).state_stack = p.state_stack
<1> DEFINE levels == Levels(p.events)
           depth == Len(levels)
           ends == [i \in 1 .. depth |-> Closing(levels[depth + 1 - i], t)]
           s == p.events \o FlattenSeq(ends)
           q == CloseOpenCollections(p, t)
<1>1. p.events \in Seq(Events)
  BY DEF Inside, Framed
<1>2. depth \in Nat
  BY <1>1, LevelsTyped
<1>3. \A level : Closing(level, t) \in Seq(Inserts(t))
  <2> SUFFICES ASSUME NEW level PROVE Closing(level, t) \in Seq(Inserts(t))
    OBVIOUS
  <2> DEFINE type == IF level.start = "MappingStart" THEN "MappingEnd" ELSE "SequenceEnd"
             value == IF OwesValue(level) THEN <<Empty(t)>> ELSE <<>>
  <2>1. type \in NodeEnds
    BY DEF NodeEnds
  <2>2. Event(type, t) \in Inserts(t) /\ Empty(t) \in Inserts(t)
    BY <2>1, InsertsTyped
  <2>3. value \in Seq(Inserts(t))
    BY <2>2
  <2>4. Closing(level, t) = value \o <<Event(type, t)>>
    BY DEF Closing
  <2> HIDE DEF value, type
  <2> QED BY <2>2, <2>3, <2>4
<1>4. ends \in Seq(Seq(Inserts(t)))
  <2> HIDE DEF depth, levels
  <2> QED BY <1>2, <1>3
<1>5. q = [p EXCEPT !.events = s]
  BY Zenon DEF CloseOpenCollections
<1> HIDE DEF ends
<1>6. FlattenSeq(ends) \in Seq(Inserts(t))
  BY <1>4, FlattenTyped
<1>7. /\ FlattenSeq(ends) \in Seq(PartEvents) /\ FlattenSeq(ends) \in Seq(Fillers)
      /\ FlattenSeq(ends) \in Seq({e \in Events : ~e.anchor})
  <2>1. /\ Inserts(t) \subseteq PartEvents /\ Inserts(t) \subseteq Fillers
        /\ Inserts(t) \subseteq {e \in Events : ~e.anchor}
    BY DEF Inserts, PartEvents, Fillers
  <2> QED BY <1>6, <2>1
<1>8. Framed(s, 1)
  BY <1>7, FramedParts DEF Inside
<1>9. Words(s) = Words(p.events) /\ Nodes(s) = Nodes(p.events)
  BY <1>1, <1>7, WordsFillers, NodesBare
<1>10. Len(s) >= Len(p.events)
  <2>1. Len(s) = Len(p.events) + Len(FlattenSeq(ends))
    <3>1. FlattenSeq(ends) \in Seq(Events)
      <4>1. Inserts(t) \subseteq Events BY DEF Inserts, PartEvents
      <4> QED BY <1>6, <4>1
    <3> QED BY <1>1, <3>1, ConcatProperties
  <2>2. Len(FlattenSeq(ends)) \in Nat /\ Len(p.events) \in Nat
    BY <1>1, <1>6
  <2> HIDE DEF s
  <2> QED BY <2>1, <2>2
<1> HIDE DEF q, s
<1>11. Steps(p, q, t) /\ q.state = p.state /\ q.state_stack = p.state_stack
  BY <1>5, <1>8, <1>9, <1>10, EventsStep
<1> QED BY <1>11 DEF q

\* Starting a pair in a flow sequence is a step inside the document.
LEMMA StartPairSteps ==
    ASSUME NEW t, NEW p, Inside(p), p.state \in Inner
    PROVE  Steps(p, StartPair(p), t) /\ StartPair(p).state = p.state /\ StartPair(p).events = p.events
<1> DEFINE q == Save(p)
           r == StartPair(p)
<1>1. Steps(p, q, t) /\ q.state = p.state /\ q.events = p.events
  <2>1. q.events = p.events
    BY DEF Save, Inside, Parsers
  <2> QED BY <2>1, SaveSteps
<1>2. r = [q EXCEPT !.implicit_flow_pair_depth = @ + 1]
  BY DEF StartPair
<1>3. Inside(q)
  BY <1>1 DEF Steps
<1> HIDE DEF q, r
<1>4. /\ r \in Parsers /\ r.events = q.events /\ r.state = q.state
      /\ r.state_stack = q.state_stack /\ r.token_index = q.token_index
      /\ r.event_index = q.event_index /\ r.failed = q.failed /\ r.pending_anchor = q.pending_anchor
  <2>1. q \in Parsers
    BY <1>3 DEF Inside
  <2>2. q.implicit_flow_pair_depth + 1 \in Nat
    BY <2>1 DEF Parsers
  <2> QED BY <1>2, <2>1, <2>2 DEF Parsers
<1>5. Steps(q, r, t)
  BY <1>3, <1>4, OthersStep
<1>6. Steps(p, r, t) /\ r.state = p.state /\ r.events = p.events
  BY <1>1, <1>4, <1>5, StepsTogether
<1> QED BY <1>6 DEF r

\* Ending a pair is a step inside the document, and nothing outside a flow mapping.
LEMMA EndPairSteps ==
    ASSUME NEW p, Inside(p), NEW t \in Tokens
    PROVE  Steps(p, EndPair(p, t), t) /\ (p.state \notin FlowMappingStates => EndPair(p, t) = p)
<1> DEFINE Closes_ == p.implicit_flow_pair_depth > 0 /\ p.state \in FlowMappingStates /\ SavedIs(p, "FlowSequence")
<1>1. CASE ~Closes_
  <2>1. EndPair(p, t) = p
    BY <1>1 DEF EndPair
  <2> QED BY <2>1, SelfSteps
<1>2. CASE Closes_
  <2> DEFINE a == PushIf(OddChildren(p), p, Empty(t))
             b == Push(a, Event("MappingEnd", t))
             c == Restore(b)
             d == EndPair(p, t)
  <2>1. Empty(t) \in Inserts(t) /\ Event("MappingEnd", t) \in Inserts(t)
    BY InsertsTyped DEF NodeEnds
  <2>2. Steps(p, a, t) /\ a.state_stack = p.state_stack /\ a.implicit_flow_pair_depth = p.implicit_flow_pair_depth
    <3>1. a.implicit_flow_pair_depth = p.implicit_flow_pair_depth
      BY DEF PushIf, Inside, Parsers
    <3> QED BY <2>1, <3>1, PushIfSteps
  <2> HIDE DEF a
  <2>3. Steps(a, b, t) /\ b.state_stack = p.state_stack /\ b.implicit_flow_pair_depth = p.implicit_flow_pair_depth
    <3>1. b.implicit_flow_pair_depth = a.implicit_flow_pair_depth
      BY <2>2 DEF Push, Inside, Steps, Parsers
    <3>2. Inside(a) BY <2>2 DEF Steps
    <3> QED BY <2>1, <2>2, <3>1, <3>2, PushSteps
  <2> HIDE DEF b
  <2>4. Steps(b, c, t) /\ c.implicit_flow_pair_depth = p.implicit_flow_pair_depth
    <3>1. Inside(b) /\ b.state_stack # <<>>
      BY <1>2, <2>3 DEF Steps, SavedIs
    <3>2. c.implicit_flow_pair_depth = b.implicit_flow_pair_depth
      BY <3>1 DEF Restore, Inside, Parsers
    <3> QED BY <2>3, <3>1, <3>2, RestoreSteps
  <2> HIDE DEF c
  <2>5. d = [c EXCEPT !.implicit_flow_pair_depth = @ - 1]
    BY <1>2 DEF EndPair, a, b, c
  <2>6. Inside(c) /\ c.implicit_flow_pair_depth > 0 /\ c.implicit_flow_pair_depth \in Nat
    <3>1. Inside(c)
      BY <2>4 DEF Steps
    <3>2. c.implicit_flow_pair_depth \in Nat
      BY <3>1 DEF Inside, Parsers
    <3> QED BY <1>2, <2>4, <3>1, <3>2
  <2> HIDE DEF d
  <2>7. /\ d \in Parsers /\ d.events = c.events /\ d.state = c.state
        /\ d.state_stack = c.state_stack /\ d.token_index = c.token_index
        /\ d.event_index = c.event_index /\ d.failed = c.failed /\ d.pending_anchor = c.pending_anchor
    <3>1. c.implicit_flow_pair_depth - 1 \in Nat
      BY <2>6
    <3> QED BY <2>5, <2>6, <3>1 DEF Inside, Parsers
  <2>8. Steps(c, d, t)
    BY <2>6, <2>7, OthersStep
  <2>9. Inside(a) /\ Inside(b)
    BY <2>2, <2>3 DEF Steps
  <2>10. Steps(p, d, t)
    BY <2>2, <2>3, <2>4, <2>6, <2>8, <2>9, StepsTogether
  <2> QED BY <1>2, <2>10 DEF d
<1> QED BY <1>1, <1>2

-----------------------------------------------------------------------------
(***************************************************************************)
(* The beginning of a document, and words.                                 *)
(***************************************************************************)
\* What an arm meets: a parser in a document, or before one.
Ready(p) ==
    /\ p \in Parsers
    /\ p.state_stack \in Seq(Inner)
    /\ \/ p.state \in Inner /\ Framed(p.events, 1)
       \/ p.state = "ImplicitDocumentStart" /\ Framed(p.events, 0)

\* What it leaves, unless it leaves all as it was.
Arrives(p, q, t) == Inside(q) /\ q.state \in Inner /\ Same(p, q, t)

\* What was the same before steps inside a document is the same after them.
LEMMA SameSteps ==
    ASSUME NEW t, NEW p, p \in Parsers, NEW q, Inside(q), Same(p, q, t), NEW r, Steps(q, r, t)
    PROVE  Inside(r) /\ Same(p, r, t)
<1>1. Len(p.events) \in Nat /\ Len(q.events) \in Nat /\ Len(r.events) \in Nat
  <2>1. p.events \in Seq(Events)
    BY DEF Parsers
  <2>2. q.events \in Seq(Events) /\ r.events \in Seq(Events)
    BY DEF Steps, Inside, Framed
  <2> QED BY <2>1, <2>2
<1>2. Len(r.events) >= Len(p.events)
  BY <1>1 DEF Steps, Same
<1> QED BY <1>2, HandsTogether DEF Steps, Same

\* A DocumentStart where none is open leaves the stream framed with one open.
LEMMA BeginsDocument ==
    ASSUME NEW p, Ready(p), p.state = "ImplicitDocumentStart", NEW e \in Events,
           e.type = "DocumentStart", ~e.anchor, NEW s, s = Append(p.events, e)
    PROVE  /\ Framed(s, 1) /\ Words(s) = Words(p.events) /\ Len(s) >= Len(p.events)
           /\ Nodes(s) = Nodes(p.events)
<1>1. Framed(p.events, 0) /\ p.events \in Seq(Events)
  BY DEF Ready, Inner, Outside, Framed
<1>2. Border(e) = 1 /\ e.type \notin Parts /\ ~IsWord(e)
  BY DEF Border, Parts, NodeStarts, NodeEnds, Leaves, IsWord
<1>3. Framed(s, 0 + Border(e))
  BY <1>1, <1>2, FramedAppend
<1>4. Words(s) = Words(p.events)
  BY <1>1, <1>2, WordsAppend
<1>5. Len(s) >= Len(p.events)
  BY <1>1
<1>6. Nodes(s) = Nodes(p.events)
  BY <1>1, NodesAppend
<1> QED BY <1>2, <1>3, <1>4, <1>5, <1>6

\* The DocumentStart that is not in the text is an event.
LEMMA BeginEvents ==
    ASSUME NEW t \in Tokens, NEW e, e = [Event("DocumentStart", t) EXCEPT !.implicit = TRUE]
    PROVE  /\ e \in Events /\ e.type = "DocumentStart" /\ ~e.anchor
           /\ \A version \in BOOLEAN : LET f == [e EXCEPT !.version = version]
                                      IN  f \in Events /\ f.type = "DocumentStart" /\ ~f.anchor
<1> DEFINE f == Event("DocumentStart", t)
<1>1. f \in Events /\ f.type = "DocumentStart" /\ ~f.anchor
  BY EventTyped DEF EventTypes
<1> HIDE DEF f
<1>2. e = [f EXCEPT !.implicit = TRUE]
  BY DEF f
<1>3. e \in Events /\ e.type = "DocumentStart" /\ e.anchor = f.anchor
  BY <1>1, <1>2 DEF Events
<1>4. ~e.anchor
  BY <1>1, <1>3
<1>5. ASSUME NEW version \in BOOLEAN
      PROVE  LET g == [e EXCEPT !.version = version]
             IN  g \in Events /\ g.type = "DocumentStart" /\ ~g.anchor
  <2> DEFINE g == [e EXCEPT !.version = version]
  <2>1. g \in Events /\ g.type = "DocumentStart" /\ g.anchor = e.anchor
    BY <1>3 DEF Events
  <2> HIDE DEF g
  <2>2. ~g.anchor
    BY <1>4, <2>1
  <2> QED BY <2>1, <2>2 DEF g
<1> QED BY <1>3, <1>4, <1>5, Zenon

\* Begin opens a document if none is open, with no word more.
LEMMA BeginSteps ==
    ASSUME NEW p, Ready(p), NEW t \in Tokens
    PROVE  /\ Inside(Begin(p, t)) /\ Same(p, Begin(p, t), t) /\ Begin(p, t).state = p.state
           /\ Begin(p, t).state_stack = p.state_stack
<1> DEFINE e == [Event("DocumentStart", t) EXCEPT !.implicit = TRUE]
           s == IF p.state = "ImplicitDocumentStart" THEN Append(p.events, e) ELSE p.events
           q == Begin(p, t)
<1>1. q = [p EXCEPT !.events = s]
  BY DEF Begin, PushIf
<1>2. e \in Events /\ e.type = "DocumentStart" /\ ~e.anchor
  BY BeginEvents
<1>3. Framed(s, 1) /\ Words(s) = Words(p.events) /\ Nodes(s) = Nodes(p.events) /\ Len(s) >= Len(p.events)
  <2> HIDE DEF e
  <2>1. CASE p.state = "ImplicitDocumentStart"
    BY <1>2, <2>1, BeginsDocument
  <2>2. CASE p.state # "ImplicitDocumentStart"
    <3>1. Framed(p.events, 1) /\ Len(p.events) \in Nat
      BY <2>2 DEF Ready, Framed
    <3> QED BY <2>2, <3>1
  <2> QED BY <2>1, <2>2
<1> HIDE DEF s, q
<1>4. s \in Seq(Events)
  BY <1>3 DEF Framed
<1>5. /\ q \in Parsers /\ q.events = s /\ q.state = p.state
      /\ q.state_stack = p.state_stack /\ q.token_index = p.token_index
      /\ q.event_index = p.event_index /\ q.failed = p.failed /\ q.pending_anchor = p.pending_anchor
  BY <1>1, <1>4 DEF Ready, Parsers
<1>6. Inside(q) /\ Same(p, q, t)
  BY <1>3, <1>5 DEF Inside, Same, Hands, Ready
<1> QED BY <1>5, <1>6 DEF q

\* So does the document start that takes the %YAML version with it.
LEMMA BeginWithDirectivesSteps ==
    ASSUME NEW p, Ready(p), NEW t \in Tokens
    PROVE  LET q == BeginWithDirectives(p, t)
           IN  Inside(q) /\ Same(p, q, t) /\ q.state = p.state /\ q.state_stack = p.state_stack
<1> DEFINE q == BeginWithDirectives(p, t)
<1>1. CASE p.state # "ImplicitDocumentStart"
  <2>1. q = p
    BY <1>1 DEF BeginWithDirectives
  <2>2. Inside(p) /\ Len(p.events) \in Nat
    BY <1>1 DEF Ready, Inside, Framed
  <2> HIDE DEF q
  <2>3. Inside(q) /\ Same(p, q, t) /\ q.state = p.state /\ q.state_stack = p.state_stack
    BY <2>1, <2>2 DEF Same, Hands
  <2> QED BY <2>3 DEF q
<1>2. CASE p.state = "ImplicitDocumentStart"
  <2> DEFINE e == [Event("DocumentStart", t) EXCEPT !.implicit = TRUE, !.version = p.yaml_version]
             s == Append(p.events, e)
  <2>1. q = [p EXCEPT !.events = s, !.yaml_version = FALSE]
    BY <1>2 DEF BeginWithDirectives, Push, Ready, Parsers
  <2>2. e \in Events /\ e.type = "DocumentStart" /\ ~e.anchor
    <3> DEFINE f == [Event("DocumentStart", t) EXCEPT !.implicit = TRUE]
    <3>1. p.yaml_version \in BOOLEAN
      BY DEF Ready, Parsers
    <3> HIDE DEF f
    <3>2. /\ [f EXCEPT !.version = p.yaml_version] \in Events
          /\ [f EXCEPT !.version = p.yaml_version].type = "DocumentStart"
          /\ ~[f EXCEPT !.version = p.yaml_version].anchor
      BY <3>1, BeginEvents DEF f
    <3> QED BY <3>2 DEF f
  <2> HIDE DEF e
  <2>3. Framed(s, 1) /\ Words(s) = Words(p.events) /\ Nodes(s) = Nodes(p.events) /\ Len(s) >= Len(p.events)
    BY <1>2, <2>2, BeginsDocument
  <2> HIDE DEF s, q
  <2>4. s \in Seq(Events)
    BY <2>3 DEF Framed
  <2>5. /\ q \in Parsers /\ q.events = s /\ q.state = p.state
        /\ q.state_stack = p.state_stack /\ q.token_index = p.token_index
        /\ q.event_index = p.event_index /\ q.failed = p.failed /\ q.pending_anchor = p.pending_anchor
    BY <2>1, <2>4 DEF Ready, Parsers
  <2>6. Inside(q) /\ Same(p, q, t)
    BY <2>3, <2>5 DEF Inside, Same, Hands, Ready
  <2> QED BY <2>5, <2>6 DEF q
<1> QED BY <1>1, <1>2

\* So does BeginContent, which goes on to the content.
LEMMA BeginContentSteps ==
    ASSUME NEW p, Ready(p), NEW t \in Tokens
    PROVE  Arrives(p, BeginContent(p, t), t)
<1>1. CASE p.state = "ImplicitDocumentStart"
  <2> DEFINE q == Begin(p, t)
             r == Goto(q, "DocumentContent")
  <2>1. Inside(q) /\ Same(p, q, t)
    BY BeginSteps
  <2> HIDE DEF q
  <2>2. Steps(q, r, t) /\ r.state = "DocumentContent" /\ "DocumentContent" \in Inner
    BY <2>1, GotoSteps DEF Inner, ParserStates, Outside
  <2> HIDE DEF r
  <2>3. Inside(r) /\ Same(p, r, t)
    BY <2>1, <2>2, SameSteps DEF Ready
  <2>4. BeginContent(p, t) = r
    BY <1>1 DEF BeginContent, r, q
  <2> QED BY <2>2, <2>3, <2>4 DEF Arrives
<1>2. CASE p.state # "ImplicitDocumentStart"
  <2>1. BeginContent(p, t) = p
    BY <1>2 DEF BeginContent
  <2>2. Inside(p) /\ p.state \in Inner
    BY <1>2 DEF Ready, Inside
  <2>3. Same(p, p, t)
    BY <2>2, SelfSteps DEF Steps
  <2> QED BY <2>1, <2>2, <2>3 DEF Arrives
<1> QED BY <1>1, <1>2

\* The event of a word or an alias.
LEMMA WordAppends ==
    ASSUME NEW p, Inside(p), NEW e \in PartEvents, IsWord(e), NEW s, s = Append(p.events, e)
    PROVE  /\ Framed(s, 1) /\ Words(s) = Append(Words(p.events), Place(e))
           /\ Nodes(s) = IF e.anchor THEN Append(Nodes(p.events), Spot(e)) ELSE Nodes(p.events)
           /\ Len(s) >= Len(p.events)
<1>1. p.events \in Seq(Events) /\ e \in Events
  BY DEF Inside, Framed, PartEvents
<1> QED BY <1>1, AppendsInside, WordsAppend

\* A parser that has come from p by one word.
SameAndWord(p, q, t) ==
    /\ Inside(q) /\ q.state \in Inner
    /\ Words(q.events) = Append(Words(p.events), Place(t))
    /\ Hands(p, q, t) /\ (t.type = "Scalar" => ~q.pending_anchor)
    /\ Len(q.events) >= Len(p.events)
    /\ q.token_index = p.token_index /\ q.event_index = p.event_index /\ q.failed = p.failed

\* A word pushed is in the document, and the last word; a scalar takes the anchor that waits.
LEMMA PushWordSteps ==
    ASSUME NEW p, Inside(p), p.state \in Inner, NEW t \in Tokens, t.type \in Leaves,
           NEW q, q \in {Push(p, Event(t.type, t)), PushNode(p, Event(t.type, t))},
           t.type = "Scalar" => q = PushNode(p, Event(t.type, t))
    PROVE  SameAndWord(p, q, t)
<1> DEFINE e == Event(t.type, t)
           f == Carrying(e, p)
<1>1. t.type \in EventTypes
  BY DEF Leaves, EventTypes
<1>2. e \in Events /\ e.type = t.type /\ ~e.empty /\ Place(e) = Place(t) /\ ~e.anchor /\ Spot(e) = Spot(t)
  BY <1>1, EventTyped DEF Place, Spot
<1> HIDE DEF e
<1>3. /\ f \in Events /\ f.type = e.type /\ f.empty = e.empty /\ Place(f) = Place(e)
      /\ f.anchor = p.pending_anchor /\ Spot(f) = Spot(e) /\ p.pending_anchor \in BOOLEAN
  BY <1>2, CarryingTyped DEF Inside, Parsers
<1>4. PICK g \in {e, f} : /\ q.events = Append(p.events, g) /\ q.state = p.state
                          /\ q.state_stack = p.state_stack /\ q.token_index = p.token_index
                          /\ q.event_index = p.event_index /\ q.failed = p.failed
                          /\ q \in Parsers
                          /\ \/ g = e /\ q.pending_anchor = p.pending_anchor /\ t.type # "Scalar"
                             \/ g = f /\ q.pending_anchor = FALSE
  <2>1. p \in Parsers /\ Append(p.events, e) \in Seq(Events) /\ Append(p.events, f) \in Seq(Events)
    BY <1>2, <1>3 DEF Inside, Framed
  <2> HIDE DEF f
  <2>2. CASE q = PushNode(p, e)
    <3>1. q = [p EXCEPT !.events = Append(p.events, f), !.pending_anchor = FALSE, !.pending_tag = FALSE]
      BY <2>1, <2>2 DEF PushNode, Push, Carrying, Parsers, f
    <3> QED BY <2>1, <3>1 DEF Parsers
  <2>3. CASE q = Push(p, e) /\ q # PushNode(p, e)
    <3>1. q = [p EXCEPT !.events = Append(p.events, e)]
      BY <2>3 DEF Push
    <3>2. t.type # "Scalar"
      BY <2>3 DEF e
    <3> QED BY <2>1, <3>1, <3>2 DEF Parsers
  <2> QED BY <2>2, <2>3 DEF e
<1> HIDE DEF f
<1>5. g \in PartEvents /\ IsWord(g) /\ Place(g) = Place(t) /\ Spot(g) = Spot(t)
  BY <1>2, <1>3 DEF PartEvents, IsWord, Parts
<1>6. /\ Framed(q.events, 1) /\ Words(q.events) = Append(Words(p.events), Place(g))
      /\ Nodes(q.events) = IF g.anchor THEN Append(Nodes(p.events), Spot(g)) ELSE Nodes(p.events)
      /\ Len(q.events) >= Len(p.events)
  BY <1>4, <1>5, WordAppends
<1>7. Hands(p, q, t)
  BY <1>2, <1>3, <1>4, <1>5, <1>6 DEF Hands
<1>8. t.type = "Scalar" => ~q.pending_anchor
  BY <1>4
<1> QED BY <1>4, <1>5, <1>6, <1>7, <1>8 DEF SameAndWord, Inside

-----------------------------------------------------------------------------
(***************************************************************************)
(* The arms that may begin a document.                                     *)
(***************************************************************************)
\* From a beginning through a helper to a state inside.
LEMMA ArrivesThen ==
    ASSUME NEW t, NEW p, Ready(p), NEW q, Inside(q), Same(p, q, t), NEW r, Steps(q, r, t), r.state \in Inner
    PROVE  Arrives(p, r, t)
<1>1. p \in Parsers
  BY DEF Ready
<1> QED BY <1>1, SameSteps DEF Arrives

\* Begun, stepped and gone to a state of a document: the parser has arrived in one.
LEMMA ArrivesAt ==
    ASSUME NEW t, NEW p, Ready(p), NEW q, Inside(q), Same(p, q, t), NEW r, Steps(q, r, t), NEW state \in Inner
    PROVE  Arrives(p, Goto(r, state), t)
<1>1. p \in Parsers
  BY DEF Ready
<1>2. Inside(r) /\ Same(p, r, t)
  BY <1>1, SameSteps
<1>3. Steps(r, Goto(r, state), t) /\ Goto(r, state).state \in Inner
  BY <1>2, GotoSteps
<1> QED BY <1>2, <1>3, ArrivesThen

\* Inside a document, a helper is enough.
LEMMA InnerArrives ==
    ASSUME NEW t, NEW p, Ready(p), p.state \in Inner
    PROVE  Inside(p) /\ \A q : Steps(p, q, t) => Arrives(p, q, t)
<1>1. Inside(p)
  BY DEF Ready, Inside, Inner, Outside
<1> QED BY <1>1 DEF Steps, Arrives

\* Fields the proof is not about may be set first.
LEMMA ReadyOthers ==
    ASSUME NEW t, NEW p, Ready(p), NEW q \in Parsers, q.events = p.events, q.state = p.state,
           q.state_stack = p.state_stack, q.token_index = p.token_index,
           q.event_index = p.event_index, q.failed = p.failed /\ q.pending_anchor = p.pending_anchor
    PROVE  Ready(q) /\ \A r : Arrives(q, r, t) => Arrives(p, r, t)
<1>1. Ready(q)
  BY DEF Ready
<1>2. ASSUME NEW r, Same(q, r, t) PROVE Same(p, r, t)
  BY <1>2 DEF Same, Hands
<1> QED BY <1>1, <1>2 DEF Arrives

\* The states of an open document, by name.
LEMMA InnerStates ==
    /\ {"DocumentStart", "DocumentContent", "BlockMappingKey", "BlockMappingValue", "BlockSequence",
        "FlowMapping", "FlowMappingKey", "FlowMappingValue", "FlowSequence"} = Inner
    /\ FlowMappingStates \subseteq Inner
BY DEF Inner, ParserStates, Outside, FlowMappingStates

\* The arm for BlockSequenceStart leaves the parser in a document with the words it had.
LEMMA BlockSequenceStartArrives ==
    ASSUME NEW p, Ready(p), NEW t \in Tokens
    PROVE  Arrives(p, OnBlockSequenceStart(p, t), t)
<1> DEFINE a == BeginWithDirectives(p, t)
           states == {"BlockMappingValue", "BlockMappingKey", "BlockSequence"}
           e == Event("SequenceStart", t)
           b == SaveIf(states, a)
           c == PushNode(b, e)
<1>1. Inside(a) /\ Same(p, a, t)
  BY BeginWithDirectivesSteps
<1>2. states \in SUBSET Inner /\ "BlockSequence" \in Inner
  BY InnerStates
<1>3. e \in Inserts(t)
  BY InsertsTyped DEF NodeStarts
<1>4. OnBlockSequenceStart(p, t) = Goto(c, "BlockSequence")
  BY DEF OnBlockSequenceStart
<1> HIDE DEF a, e, states
<1>5. Steps(a, b, t) /\ Inside(b)
  BY <1>1, <1>2, SaveIfSteps DEF Steps
<1> HIDE DEF b
<1>6. Steps(a, c, t)
  BY <1>1, <1>3, <1>5, PushNodeSteps, StepsTogether
<1> HIDE DEF c
<1> QED BY <1>1, <1>2, <1>4, <1>6, ArrivesAt

\* So does the mapping that a Key makes.
LEMMA CreateMappingArrives ==
    ASSUME NEW p, Ready(p), NEW t \in Tokens
    PROVE  Arrives(p, CreateMapping(p, t), t)
<1> DEFINE a == BeginWithDirectives(p, t)
           states == {"BlockMappingValue", "BlockSequence"}
           e == Event("MappingStart", t)
           b == SaveIf(states, a)
           c == PushNode(b, e)
           d == [c EXCEPT !.pending_anchor_line = 0]
           f == Push(b, e)
<1>1. Inside(a) /\ Same(p, a, t)
  BY BeginWithDirectivesSteps
<1>2. states \in SUBSET Inner /\ "BlockMappingKey" \in Inner
  BY InnerStates
<1>3. e \in Inserts(t)
  BY InsertsTyped DEF NodeStarts
<1>4. CreateMapping(p, t) = Goto(d, "BlockMappingKey") \/ CreateMapping(p, t) = Goto(f, "BlockMappingKey")
  BY DEF CreateMapping
<1> HIDE DEF a, e, states
<1>5. Steps(a, b, t) /\ Inside(b)
  BY <1>1, <1>2, SaveIfSteps DEF Steps
<1> HIDE DEF b
<1>6. Steps(a, c, t) /\ Steps(a, f, t)
  BY <1>1, <1>3, <1>5, PushNodeSteps, PushSteps, StepsTogether
<1> HIDE DEF c, f
<1>7. Steps(a, d, t)
  <2>1. Inside(c) /\ c \in Parsers
    BY <1>6 DEF Steps, Inside
  <2>2. /\ d \in Parsers /\ d.events = c.events /\ d.state = c.state /\ d.state_stack = c.state_stack
        /\ d.token_index = c.token_index /\ d.event_index = c.event_index /\ d.failed = c.failed /\ d.pending_anchor = c.pending_anchor
    BY <2>1 DEF Parsers
  <2> HIDE DEF d
  <2> QED BY <1>1, <1>6, <2>1, <2>2, OthersStep, StepsTogether
<1> HIDE DEF d
<1> QED BY <1>1, <1>2, <1>4, <1>6, <1>7, ArrivesAt

\* So does the arm for BlockMappingStart.
LEMMA BlockMappingStartArrives ==
    ASSUME NEW p, Ready(p), NEW t \in Tokens
    PROVE  Arrives(p, OnBlockMappingStart(p, t), t)
<1>1. CASE CreatesMapping(p)
  BY <1>1, CreateMappingArrives DEF OnBlockMappingStart
<1>2. CASE ~CreatesMapping(p)
  <2>1. OnBlockMappingStart(p, t) = ContinueMapping(p)
    BY <1>2 DEF OnBlockMappingStart
  <2>2. p.state # "ImplicitDocumentStart"
    <3>1. p.state = "ImplicitDocumentStart" => CreatesMapping(p)
      BY Zenon DEF CreatesMapping
    <3> QED BY <1>2, <3>1
  <2>3. p.state \in Inner
    BY <2>2 DEF Ready
  <2>4. Inside(p) /\ \A q : Steps(p, q, t) => Arrives(p, q, t)
    BY <2>3, InnerArrives
  <2>5. "BlockMappingKey" \in Inner
    BY InnerStates
  <2>6. Steps(p, Goto(p, "BlockMappingKey"), t) /\ Steps(p, p, t)
    BY <2>4, <2>5, GotoSteps, SelfSteps
  <2>7. SavedIs(p, "BlockMappingValue") => Steps(p, Completed(Restore(p)), t)
    <3>1. ASSUME p.state_stack # <<>> PROVE Steps(p, Completed(Restore(p)), t)
      <4>1. Steps(p, Restore(p), t) /\ Inside(Restore(p))
        BY <2>4, <3>1, RestoreSteps DEF Steps
      <4> QED BY <2>4, <4>1, CompletedSteps, StepsTogether
    <3> QED BY <3>1 DEF SavedIs
  <2> QED BY <2>1, <2>4, <2>6, <2>7 DEF ContinueMapping
<1> QED BY <1>1, <1>2

\* So do the arms for `[` and `{`.
LEMMA FlowStartArrives ==
    ASSUME NEW p, Ready(p), NEW t \in Tokens
    PROVE  Arrives(p, OnFlowStart(p, t), t)
<1> DEFINE type == IF t.type = "FlowSequenceStart" THEN "SequenceStart" ELSE "MappingStart"
           state == IF type = "SequenceStart" THEN "FlowSequence" ELSE "FlowMapping"
           states == {"BlockMappingValue", "BlockMappingKey", "BlockSequence", "FlowSequence"}
                         \cup FlowMappingStates
           a == Begin(p, t)
           e == FlowEvent(type, t)
           b == SaveIf(states, a)
           c == PushNode(b, e)
<1>1. Inside(a) /\ Same(p, a, t)
  BY BeginSteps
<1>2. states \in SUBSET Inner /\ state \in Inner
  BY InnerStates
<1>3. e \in Inserts(t)
  <2>1. type \in NodeStarts \cup NodeEnds
    BY DEF NodeStarts
  <2> HIDE DEF type
  <2> QED BY <2>1, InsertsTyped
<1>4. OnFlowStart(p, t) = Goto(c, state)
  BY DEF OnFlowStart
<1> HIDE DEF a, e, states, state, type
<1>5. Steps(a, b, t) /\ Inside(b)
  BY <1>1, <1>2, SaveIfSteps DEF Steps
<1> HIDE DEF b
<1>6. Steps(a, c, t)
  BY <1>1, <1>3, <1>5, PushNodeSteps, StepsTogether
<1> HIDE DEF c
<1> QED BY <1>1, <1>2, <1>4, <1>6, ArrivesAt

\* So does the arm for `- `.
LEMMA BlockEntryArrives ==
    ASSUME NEW p, Ready(p), NEW t \in Tokens
    PROVE  Arrives(p, OnBlockEntry(p, t), t)
<1> DEFINE q == OnBlockEntry(p, t)
           start == Event("SequenceStart", t)
           end == Event("MappingEnd", t)
           filled == PushNode(p, Empty(t))
           sequence == [filled EXCEPT !.pending_anchor_line = 0, !.pending_tag_line = 0]
           mapping == Goto(Push(p, end), "BlockSequence")
           begun == Begin(p, t)
           other == Goto(PushNode(begun, start), "BlockSequence")
<1>1. /\ p.state = "BlockSequence" => q = sequence \/ q = p
      /\ p.state = "BlockMappingValue" => q = mapping
      /\ p.state \notin {"BlockSequence", "BlockMappingValue"} => q = other
  <2>1. CASE p.state = "BlockSequence"
    <3>1. ~(p.state = "BlockMappingValue")
      BY <2>1
    <3>2. q = sequence \/ q = p
      BY <2>1, <3>1, Zenon DEF OnBlockEntry
    <3> QED BY <2>1, <3>2
  <2>2. CASE p.state = "BlockMappingValue"
    <3>1. ~(p.state = "BlockSequence")
      BY <2>2
    <3>2. q = mapping
      BY <2>2, <3>1, Zenon DEF OnBlockEntry
    <3> QED BY <2>2, <3>2
  <2>3. CASE ~(p.state = "BlockSequence") /\ ~(p.state = "BlockMappingValue")
    <3>1. q = other
      BY <2>3, Zenon DEF OnBlockEntry
    <3> QED BY <2>3, <3>1
  <2> QED BY <2>1, <2>2, <2>3
<1>2. start \in Inserts(t) /\ end \in Inserts(t) /\ Empty(t) \in Inserts(t) /\ "BlockSequence" \in Inner
  BY InsertsTyped, InnerStates DEF NodeStarts, NodeEnds
<1>3. ASSUME p.state \in {"BlockSequence", "BlockMappingValue"} PROVE Inside(p) /\ p.state \in Inner
  BY <1>3, InnerStates, InnerArrives
<1> HIDE DEF q, start, end
<1>4. CASE p.state = "BlockSequence"
  <2>1. Inside(p) /\ p.state \in Inner
    BY <1>3, <1>4
  <2>2. Steps(p, filled, t)
    BY <1>2, <2>1, PushNodeSteps
  <2> HIDE DEF filled
  <2>3. Inside(filled) /\ filled \in Parsers
    BY <2>2 DEF Steps, Inside
  <2>4. /\ sequence \in Parsers /\ sequence.events = filled.events /\ sequence.state = filled.state
        /\ sequence.state_stack = filled.state_stack /\ sequence.token_index = filled.token_index
        /\ sequence.event_index = filled.event_index /\ sequence.failed = filled.failed /\ sequence.pending_anchor = filled.pending_anchor
    BY <2>3 DEF Parsers
  <2> HIDE DEF sequence
  <2>5. Steps(p, sequence, t) /\ Steps(p, p, t)
    BY <2>1, <2>2, <2>3, <2>4, OthersStep, StepsTogether, SelfSteps
  <2> QED BY <1>1, <1>4, <2>1, <2>5, InnerArrives DEF q
<1>5. CASE p.state = "BlockMappingValue"
  <2>1. Inside(p) /\ p.state \in Inner
    BY <1>3, <1>5
  <2>2. Steps(p, Push(p, end), t) /\ Same(p, p, t)
    BY <1>2, <2>1, PushSteps, SelfSteps DEF Steps
  <2>3. Arrives(p, mapping, t)
    BY <1>2, <2>1, <2>2, ArrivesAt
  <2> QED BY <1>1, <1>5, <2>3 DEF q
<1>6. CASE p.state \notin {"BlockSequence", "BlockMappingValue"}
  <2>1. Inside(begun) /\ Same(p, begun, t)
    BY BeginSteps
  <2> HIDE DEF begun
  <2>2. Steps(begun, PushNode(begun, start), t)
    BY <1>2, <2>1, PushNodeSteps
  <2>3. Arrives(p, other, t)
    BY <1>2, <2>1, <2>2, ArrivesAt
  <2> QED BY <1>1, <1>6, <2>3 DEF q
<1> QED BY <1>4, <1>5, <1>6

\* So does the arm for Key.
LEMMA KeyArrives ==
    ASSUME NEW old, Ready(old), NEW t \in Tokens
    PROVE  Arrives(old, OnKey(old, t), t)
<1> DEFINE p == [old EXCEPT !.explicit_key_pending = TRUE, !.last_key_marker_line = t.line,
                            !.last_key_marker_column = t.column]
           q == OnKey(old, t)
           content == p.state = "DocumentContent" /\ LastEvent(p, {"Scalar"}) /\ UnclosedMapping(p.events, 1)
           key == p.state \in {"FlowMapping", "FlowMappingKey", "BlockMappingKey"}
           start == Event("MappingStart", t)
           pair == FlowEvent("MappingStart", t)
           sequence == Goto(Push(StartPair(p), pair), "FlowMappingKey")
           begun == BeginWithDirectives(p, t)
           states == {"BlockSequence", "BlockMappingValue"}
           saved == SaveIf(states, begun)
           other == Goto(PushNode(saved, start), "BlockMappingKey")
<1>1. Ready(p) /\ (Arrives(p, q, t) => Arrives(old, q, t)) /\ p.state \in ParserStates
  <2>1. old \in Parsers /\ t.line \in Nat /\ t.column \in Nat
    BY DEF Ready, Tokens
  <2>2. /\ p \in Parsers /\ p.events = old.events /\ p.state = old.state
        /\ p.state_stack = old.state_stack /\ p.token_index = old.token_index
        /\ p.event_index = old.event_index /\ p.failed = old.failed /\ p.pending_anchor = old.pending_anchor
    BY <2>1 DEF Parsers
  <2>3. p.state \in ParserStates
    BY <2>2 DEF Parsers
  <2> HIDE DEF p, q
  <2> QED BY <2>2, <2>3, ReadyOthers
<1>2. /\ content => q = Goto(p, "BlockMappingKey")
      /\ ~content /\ key => q = Goto(p, "FlowMappingKey") \/ q = PushIf(OddChildren(p), p, Empty(t))
      /\ ~content /\ ~key /\ p.state = "FlowSequence" => q = sequence
      /\ ~content /\ ~key /\ p.state # "FlowSequence" => q = other
  <2>1. q = CASE content -> Goto(p, "BlockMappingKey")
              [] key -> IF p.state = "FlowMapping" THEN Goto(p, "FlowMappingKey")
                        ELSE PushIf(OddChildren(p), p, Empty(t))
              [] p.state = "FlowSequence" -> sequence
              [] OTHER -> other
    BY DEF OnKey
  <2>2. /\ content => ~key /\ ~(p.state = "FlowSequence")
        /\ key => ~(p.state = "FlowSequence")
    BY DEF content, key
  <2> HIDE DEF p, q, content, key, sequence, other
  <2>3. CASE content
    <3>1. q = Goto(p, "BlockMappingKey")
      BY <2>1, <2>2, <2>3, Zenon
    <3> QED BY <2>3, <3>1
  <2>4. CASE ~content /\ key
    <3>1. q = IF p.state = "FlowMapping" THEN Goto(p, "FlowMappingKey")
              ELSE PushIf(OddChildren(p), p, Empty(t))
      BY <2>1, <2>2, <2>4, Zenon
    <3> QED BY <2>4, <3>1
  <2>5. CASE ~content /\ ~key /\ p.state = "FlowSequence"
    <3>1. q = sequence
      BY <2>1, <2>5, Zenon
    <3> QED BY <2>5, <3>1
  <2>6. CASE ~content /\ ~key /\ ~(p.state = "FlowSequence")
    <3>1. q = other
      BY <2>1, <2>6, Zenon
    <3> QED BY <2>6, <3>1
  <2> QED BY <2>3, <2>4, <2>5, <2>6
<1>3. /\ start \in Inserts(t) /\ pair \in Inserts(t) /\ Empty(t) \in Inserts(t)
      /\ "BlockMappingKey" \in Inner /\ "FlowMappingKey" \in Inner /\ states \in SUBSET Inner
  BY InsertsTyped, InnerStates DEF NodeStarts
<1>4. content \/ key \/ p.state = "FlowSequence" => p.state \in Inner
  BY InnerStates DEF content, key
<1>5. p.state \in Inner => /\ Inside(p) /\ Same(p, p, t)
                           /\ \A r : Steps(p, r, t) => Arrives(p, r, t)
  <2> HIDE DEF p
  <2> QED BY <1>1, InnerArrives, SelfSteps DEF Steps
<1> HIDE DEF p, q, start, pair, content, key, states
<1>6. CASE content \/ key
  <2>1. p.state \in Inner /\ Inside(p)
    BY <1>4, <1>5, <1>6
  <2>2. /\ Steps(p, Goto(p, "BlockMappingKey"), t) /\ Steps(p, Goto(p, "FlowMappingKey"), t)
        /\ Steps(p, PushIf(OddChildren(p), p, Empty(t)), t)
    BY <1>3, <2>1, GotoSteps, PushIfSteps
  <2> QED BY <1>1, <1>2, <1>5, <1>6, <2>1, <2>2 DEF q
<1>7. CASE ~content /\ ~key /\ p.state = "FlowSequence"
  <2>1. p.state \in Inner /\ Inside(p) /\ Same(p, p, t)
    BY <1>4, <1>5, <1>7
  <2>2. Steps(p, StartPair(p), t) /\ Inside(StartPair(p))
    BY <2>1, StartPairSteps DEF Steps
  <2>3. Steps(p, Push(StartPair(p), pair), t)
    BY <1>3, <2>1, <2>2, PushSteps, StepsTogether
  <2>4. Arrives(p, sequence, t)
    BY <1>1, <1>3, <2>1, <2>3, ArrivesAt
  <2> QED BY <1>1, <1>2, <1>7, <2>4 DEF q
<1>8. CASE ~content /\ ~key /\ p.state # "FlowSequence"
  <2>1. Inside(begun) /\ Same(p, begun, t)
    BY <1>1, BeginWithDirectivesSteps
  <2> HIDE DEF begun
  <2>2. Steps(begun, saved, t) /\ Inside(saved)
    BY <1>3, <2>1, SaveIfSteps DEF Steps
  <2> HIDE DEF saved
  <2>3. Steps(begun, PushNode(saved, start), t)
    BY <1>3, <2>1, <2>2, PushNodeSteps, StepsTogether
  <2>4. Arrives(p, other, t)
    BY <1>1, <1>3, <2>1, <2>3, ArrivesAt
  <2> QED BY <1>1, <1>2, <1>8, <2>4 DEF q
<1> QED BY <1>6, <1>7, <1>8

\* A tag waits for a node, and changes nothing else.
LEMMA TagWaits ==
    ASSUME NEW p \in Parsers, NEW t \in Tokens, NEW q, q = OnTag(p, t)
    PROVE  /\ q \in Parsers /\ q.events = p.events /\ q.state = p.state
           /\ q.state_stack = p.state_stack /\ q.token_index = p.token_index
           /\ q.event_index = p.event_index /\ q.failed = p.failed
           /\ q.pending_anchor = p.pending_anchor
<1>1. t.line \in Nat
  BY DEF Tokens
<1> QED BY <1>1 DEF OnTag, Parsers

\* So does an anchor.
LEMMA AnchorWaits ==
    ASSUME NEW p \in Parsers, NEW t \in Tokens, NEW q, q = OnAnchor(p, t)
    PROVE  /\ q \in Parsers /\ q.events = p.events /\ q.state = p.state
           /\ q.state_stack = p.state_stack /\ q.token_index = p.token_index
           /\ q.event_index = p.event_index /\ q.failed = p.failed
           /\ q.pending_anchor
<1>1. t.line \in Nat
  BY DEF Tokens
<1> QED BY <1>1 DEF OnAnchor, Parsers

-----------------------------------------------------------------------------
(***************************************************************************)
(* The arms that end a collection.                                         *)
(***************************************************************************)
\* The collection's end event, and back to what was around it.
LEMMA EndsCollection ==
    ASSUME NEW t, NEW p, Inside(p), NEW q, Steps(p, q, t), NEW e \in Inserts(t)
    PROVE  Steps(p, Completed(Resume(Push(q, e))), t)
<1> DEFINE a == Push(q, e)
           b == Resume(a)
<1>1. Inside(q)
  BY DEF Steps
<1>2. Steps(p, a, t) /\ Inside(a)
  BY <1>1, PushSteps, StepsTogether DEF Steps
<1> HIDE DEF a
<1>3. Steps(p, b, t) /\ Inside(b)
  BY <1>2, ResumeSteps, StepsTogether DEF Steps
<1> HIDE DEF b
<1>4. Steps(p, Completed(b), t)
  BY <1>3, CompletedSteps, StepsTogether
<1> QED BY <1>4 DEF a, b

\* The arm for `]` stays inside the document with the words it had.
LEMMA FlowSequenceEndSteps ==
    ASSUME NEW p, Inside(p), NEW t \in Tokens
    PROVE  Steps(p, OnFlowSequenceEnd(p, t), t)
<1>1. Steps(p, EndPair(p, t), t) /\ Event("SequenceEnd", t) \in Inserts(t)
  BY EndPairSteps, InsertsTyped DEF NodeEnds
<1> QED BY <1>1, EndsCollection DEF OnFlowSequenceEnd

\* So does the arm for `}`.
LEMMA FlowMappingEndSteps ==
    ASSUME NEW p, Inside(p), NEW t \in Tokens
    PROVE  Steps(p, OnFlowMappingEnd(p, t), t)
<1> DEFINE c == /\ p.state = "FlowMappingKey" /\ p.explicit_key_pending
                /\ ~OddChildren(p)
           keyed == PushIf(c, p, Empty(t))
           valued == PushIf(OddChildren(keyed), keyed, Empty(t))
           end == Event("MappingEnd", t)
<1>1. end \in Inserts(t) /\ Empty(t) \in Inserts(t)
  BY InsertsTyped DEF NodeEnds
<1>2. OnFlowMappingEnd(p, t) = Completed(Resume(Push(valued, end)))
  BY DEF OnFlowMappingEnd
<1> HIDE DEF c, end
<1>3. Steps(p, keyed, t) /\ Inside(keyed)
  BY <1>1, PushIfSteps DEF Steps
<1> HIDE DEF keyed
<1>4. Steps(p, valued, t)
  BY <1>1, <1>3, PushIfSteps, StepsTogether
<1> HIDE DEF valued
<1> QED BY <1>1, <1>2, <1>4, EndsCollection

\* So does the end of a block sequence.
LEMMA EndBlockSequenceSteps ==
    ASSUME NEW p, Inside(p), NEW t \in Tokens
    PROVE  Steps(p, EndBlockSequence(p, t), t)
<1> DEFINE c == HasProperties(p) \/ p.last_token_type = "BlockEntry"
           filled == PushNodeIf(c, p, Empty(t))
           end == Event("SequenceEnd", t)
<1>1. end \in Inserts(t) /\ Empty(t) \in Inserts(t)
  BY InsertsTyped DEF NodeEnds
<1>2. EndBlockSequence(p, t) = Completed(Resume(Push(filled, end)))
  BY DEF EndBlockSequence
<1> HIDE DEF c, end
<1>3. Steps(p, filled, t)
  BY <1>1, PushNodeIfSteps
<1> HIDE DEF filled
<1> QED BY <1>1, <1>2, <1>3, EndsCollection

\* So does the end of a block mapping, with the empty value it may need.
LEMMA EndBlockMappingSteps ==
    ASSUME NEW p, Inside(p), NEW t \in Tokens
    PROVE  Steps(p, EndBlockMapping(p, t), t)
<1> DEFINE valued == PushNodeIf(OddChildren(p), p, Empty(t))
           propertied == PushNodeIf(HasProperties(valued), valued, Empty(t))
           last == PushIf(OddChildren(propertied), propertied, Empty(t))
           end == Event("MappingEnd", t)
           closed == Push(last, end)
           goes == closed.state_stack = <<>> /\ UnclosedMapping(closed.events, LastDocument(closed.events))
           q == EndBlockMapping(p, t)
<1>1. end \in Inserts(t) /\ Empty(t) \in Inserts(t) /\ "BlockMappingKey" \in Inner
  BY InsertsTyped, InnerStates DEF NodeEnds
<1>2. q = CASE SavedIs(closed, "BlockMappingValue") -> Completed(Restore(closed))
            [] goes -> Goto(closed, "BlockMappingKey")
            [] OTHER -> Resume(closed)
  BY DEF EndBlockMapping
<1>3. SavedIs(closed, "BlockMappingValue") => closed.state_stack # <<>>
  BY DEF SavedIs
<1>4. ~(SavedIs(closed, "BlockMappingValue") /\ goes)
  BY <1>3
<1> HIDE DEF goes, q, end
<1>5. q \in {Completed(Restore(closed)), Goto(closed, "BlockMappingKey"), Resume(closed)}
      /\ (q = Completed(Restore(closed)) \/ q \in {Goto(closed, "BlockMappingKey"), Resume(closed)})
      /\ (~SavedIs(closed, "BlockMappingValue") => q \in {Goto(closed, "BlockMappingKey"), Resume(closed)})
  <2> HIDE DEF closed
  <2>1. CASE SavedIs(closed, "BlockMappingValue")
    <3>1. q = Completed(Restore(closed))
      BY <1>2, <1>4, <2>1, Zenon
    <3> QED BY <2>1, <3>1
  <2>2. CASE ~SavedIs(closed, "BlockMappingValue") /\ goes
    <3>1. q = Goto(closed, "BlockMappingKey")
      BY <1>2, <2>2, Zenon
    <3> QED BY <2>2, <3>1
  <2>3. CASE ~SavedIs(closed, "BlockMappingValue") /\ ~goes
    <3>1. q = Resume(closed)
      BY <1>2, <2>3, Zenon
    <3> QED BY <2>3, <3>1
  <2> QED BY <2>1, <2>2, <2>3
<1>6. Steps(p, valued, t) /\ Inside(valued)
  BY <1>1, PushNodeIfSteps DEF Steps
<1> HIDE DEF valued
<1>7. Steps(p, propertied, t) /\ Inside(propertied)
  BY <1>1, <1>6, PushNodeIfSteps, StepsTogether DEF Steps
<1> HIDE DEF propertied
<1>8. Steps(p, last, t) /\ Inside(last)
  BY <1>1, <1>7, PushIfSteps, StepsTogether DEF Steps
<1> HIDE DEF last
<1>9. Steps(p, closed, t) /\ Inside(closed)
  BY <1>1, <1>8, PushSteps, StepsTogether DEF Steps
<1> HIDE DEF closed
<1>10. Steps(p, Goto(closed, "BlockMappingKey"), t) /\ Steps(p, Resume(closed), t)
  BY <1>1, <1>9, GotoSteps, ResumeSteps, StepsTogether
<1>11. closed.state_stack # <<>> => Steps(p, Completed(Restore(closed)), t)
  <2>1. ASSUME closed.state_stack # <<>> PROVE Steps(p, Completed(Restore(closed)), t)
    <3>1. Steps(p, Restore(closed), t) /\ Inside(Restore(closed))
      BY <1>9, <2>1, RestoreSteps, StepsTogether DEF Steps
    <3> QED BY <3>1, CompletedSteps, StepsTogether
  <2> QED BY <2>1
<1> QED BY <1>3, <1>5, <1>10, <1>11 DEF q

\* The arm for BlockEnd stays inside the document, or does nothing outside one.
LEMMA BlockEndSteps ==
    ASSUME NEW p, NEW t \in Tokens
    PROVE  /\ Inside(p) => Steps(p, OnBlockEnd(p, t), t)
           /\ p.state = "ImplicitDocumentStart" => OnBlockEnd(p, t) = p
<1> DEFINE q == OnBlockEnd(p, t)
           mapping == p.state \in {"BlockMappingKey", "BlockMappingValue"}
<1>1. /\ p.state = "BlockSequence" => q = EndBlockSequence(p, t)
      /\ mapping => q = EndBlockMapping(p, t)
      /\ ~mapping /\ p.state # "BlockSequence" => q = p
  <2>1. q = CASE p.state = "BlockSequence" -> EndBlockSequence(p, t)
              [] mapping -> EndBlockMapping(p, t)
              [] OTHER -> p
    BY DEF OnBlockEnd
  <2>2. mapping => ~(p.state = "BlockSequence")
    OBVIOUS
  <2> HIDE DEF q, mapping
  <2>3. CASE p.state = "BlockSequence"
    <3>1. q = EndBlockSequence(p, t)
      BY <2>1, <2>2, <2>3, Zenon
    <3> QED BY <2>2, <2>3, <3>1
  <2>4. CASE mapping
    <3>1. q = EndBlockMapping(p, t)
      BY <2>1, <2>2, <2>4, Zenon
    <3> QED BY <2>2, <2>4, <3>1
  <2>5. CASE ~mapping /\ ~(p.state = "BlockSequence")
    <3>1. q = p
      BY <2>1, <2>5, Zenon
    <3> QED BY <2>5, <3>1
  <2> QED BY <2>3, <2>4, <2>5
<1> QED BY <1>1, EndBlockSequenceSteps, EndBlockMappingSteps, SelfSteps

\* The arm for `,` stays inside the document, or only ends a pair.
LEMMA FlowEntrySteps ==
    ASSUME NEW p, NEW t \in Tokens
    PROVE  /\ Inside(p) => Steps(p, OnFlowEntry(p, t), t)
           /\ p.state \notin FlowMappingStates => OnFlowEntry(p, t) = EndPair(p, t)
<1> DEFINE c == p.state \in FlowMappingStates /\ OddChildren(p)
           a == Goto(PushNode(p, Empty(t)), "FlowMapping")
           b == IF c THEN a ELSE p
<1>1. OnFlowEntry(p, t) = EndPair(b, t)
  BY DEF OnFlowEntry
<1>2. ASSUME Inside(p) PROVE Steps(p, OnFlowEntry(p, t), t)
  <2>1. Empty(t) \in Inserts(t) /\ "FlowMapping" \in Inner
    BY InsertsTyped, InnerStates
  <2>2. Steps(p, PushNode(p, Empty(t)), t) /\ Inside(PushNode(p, Empty(t)))
    BY <1>2, <2>1, PushNodeSteps DEF Steps
  <2>3. Steps(p, a, t) /\ Steps(p, p, t)
    BY <1>2, <2>1, <2>2, GotoSteps, StepsTogether, SelfSteps
  <2>4. Steps(p, b, t) /\ Inside(b)
    BY <2>3 DEF Steps
  <2> HIDE DEF b
  <2>5. Steps(p, EndPair(b, t), t)
    BY <1>2, <2>4, EndPairSteps, StepsTogether
  <2> QED BY <1>1, <2>5
<1>3. p.state \notin FlowMappingStates => b = p
  OBVIOUS
<1> QED BY <1>1, <1>2, <1>3

-----------------------------------------------------------------------------
(***************************************************************************)
(* The arms for words and aliases.                                         *)
(***************************************************************************)
LEMMA EventsTyped == ASSUME NEW p \in Parsers PROVE p.events \in Seq(Events) /\ Len(p.events) \in Nat
<1>1. p.events \in Seq(Events)
  BY DEF Parsers
<1> QED BY <1>1

\* A word after arriving in a document: one word more, the token's.
LEMMA WordArrives ==
    ASSUME NEW p \in Parsers, NEW t \in Tokens, t.type \in Leaves, NEW a, Arrives(p, a, t),
           NEW b, Steps(a, b, t),
           NEW c, c \in {Push(b, Event(t.type, t)), PushNode(b, Event(t.type, t))},
           t.type = "Scalar" => c = PushNode(b, Event(t.type, t))
    PROVE  SameAndWord(p, Completed(c), t)
<1>1. Inside(b) /\ b.state \in Inner /\ Same(a, b, t) /\ Same(p, a, t) /\ Inside(a)
  BY DEF Arrives, Steps
<1>2. SameAndWord(b, c, t)
  BY <1>1, PushWordSteps
<1>3. Steps(c, Completed(c), t) /\ Inside(c)
  BY <1>2, CompletedSteps DEF SameAndWord
<1> DEFINE d == Completed(c)
<1> HIDE DEF d
<1>4. Inside(d) /\ d.state \in Inner /\ Same(c, d, t)
  BY <1>2, <1>3 DEF SameAndWord, Steps, d
<1>5. Words(d.events) = Append(Words(p.events), Place(t))
  BY <1>1, <1>2, <1>4 DEF SameAndWord, Same
<1>6. Len(d.events) >= Len(p.events)
  <2>1. /\ Len(b.events) >= Len(a.events) /\ Len(a.events) >= Len(p.events)
        /\ Len(c.events) >= Len(b.events) /\ Len(d.events) >= Len(c.events)
    BY <1>1, <1>2, <1>4 DEF SameAndWord, Same
  <2>2. /\ Len(a.events) \in Nat /\ Len(b.events) \in Nat /\ Len(c.events) \in Nat
        /\ Len(d.events) \in Nat /\ Len(p.events) \in Nat
    <3>1. a \in Parsers /\ b \in Parsers /\ c \in Parsers /\ d \in Parsers
      BY <1>1, <1>3, <1>4 DEF Inside
    <3> QED BY <3>1, EventsTyped
  <2> DEFINE i == Len(p.events)
             j == Len(a.events)
             k == Len(b.events)
             l == Len(c.events)
             m == Len(d.events)
  <2>3. i \in Nat /\ j \in Nat /\ k \in Nat /\ l \in Nat /\ m \in Nat
    BY <2>2
  <2>4. j >= i /\ k >= j /\ l >= k /\ m >= l
    BY <2>1
  <2> HIDE DEF i, j, k, l, m
  <2>5. m >= i
    BY <2>3, <2>4
  <2> QED BY <2>5 DEF m, i
<1>7. d.token_index = p.token_index /\ d.event_index = p.event_index /\ d.failed = p.failed
  BY <1>1, <1>2, <1>4 DEF SameAndWord, Same
<1>8. Hands(p, d, t)
  <2>1. Hands(p, a, t) /\ Hands(a, b, t) /\ Hands(b, c, t) /\ Hands(c, d, t)
    BY <1>1, <1>2, <1>4 DEF SameAndWord, Same
  <2>2. Hands(p, b, t)
    BY <2>1, HandsTogether
  <2>3. Hands(p, c, t)
    BY <2>1, <2>2, HandsTogether
  <2> QED BY <2>1, <2>3, HandsTogether
<1>9. t.type = "Scalar" => ~d.pending_anchor
  <2>1. d.pending_anchor = c.pending_anchor
    <3>1. c \in Parsers
      BY <1>3 DEF Inside
    <3> QED BY <3>1 DEF d, Completed, Parsers
  <2> QED BY <1>2, <2>1 DEF SameAndWord
<1> QED BY <1>4, <1>5, <1>6, <1>7, <1>8, <1>9 DEF SameAndWord, d

\* The arm for an alias leaves one word more.
LEMMA AliasArrives ==
    ASSUME NEW p, Ready(p), NEW t \in Tokens, t.type = "Alias"
    PROVE  SameAndWord(p, OnAlias(p, t), t)
<1> DEFINE a == BeginContent(p, t)
<1>1. Arrives(p, a, t)
  BY BeginContentSteps
<1>0. p \in Parsers
  BY DEF Ready
<1>2. Steps(a, a, t)
  BY <1>1, SelfSteps DEF Arrives
<1>3. OnAlias(p, t) = Completed(Push(a, Event(t.type, t)))
  BY DEF OnAlias
<1>4. t.type \in Leaves
  BY DEF Leaves
<1> HIDE DEF a
<1> QED BY <1>0, <1>1, <1>2, <1>3, <1>4, WordArrives

\* The mapping that a scalar key opens is a step inside the document.
LEMMA OpenKeyMappingSteps ==
    ASSUME NEW p, Inside(p), p.state \in Inner, NEW t \in Tokens
    PROVE  Steps(p, OpenKeyMapping(p, t), t)
<1> DEFINE start == Event("MappingStart", t)
           pair == FlowEvent("MappingStart", t)
           block == Goto(PushNode(Save(p), start), "BlockMappingKey")
           flow == Goto(Push(StartPair(p), pair), "FlowMappingKey")
           inline == Goto(Push(Save(p), start), "BlockMappingKey")
           wrapped == p.state = "BlockMappingValue" /\ p.just_closed_inline_wrap /\ ColonOnLine
           q == OpenKeyMapping(p, t)
<1>1. q \in {block, flow, inline, p}
  <2>1. q = CASE p.state = "BlockSequence" /\ ColonAhead -> block
              [] p.state = "FlowSequence" /\ ColonAhead -> flow
              [] wrapped -> inline
              [] OTHER -> p
    BY DEF OpenKeyMapping
  <2> DEFINE A == p.state = "BlockSequence" /\ ColonAhead
             B == p.state = "FlowSequence" /\ ColonAhead
  <2>2. (A => ~B /\ ~wrapped) /\ (B => ~wrapped)
    OBVIOUS
  <2> HIDE DEF A, B, wrapped, q, block, flow, inline
  <2>3. q = CASE A -> block [] B -> flow [] wrapped -> inline [] OTHER -> p
    BY <2>1 DEF A, B
  <2>4. A => q = block
    BY <2>2, <2>3, Zenon
  <2>5. B => q = flow
    BY <2>2, <2>3, Zenon
  <2>6. wrapped => q = inline
    BY <2>2, <2>3, Zenon
  <2>7. ~A /\ ~B /\ ~wrapped => q = p
    BY <2>3, Zenon
  <2> QED BY <2>4, <2>5, <2>6, <2>7
<1>2. start \in Inserts(t) /\ pair \in Inserts(t) /\ "BlockMappingKey" \in Inner /\ "FlowMappingKey" \in Inner
  BY InsertsTyped, InnerStates DEF NodeStarts
<1> HIDE DEF start, pair, q
<1>3. Steps(p, Save(p), t) /\ Inside(Save(p)) /\ Steps(p, StartPair(p), t) /\ Inside(StartPair(p))
  BY SaveSteps, StartPairSteps DEF Steps
<1>4. Steps(p, PushNode(Save(p), start), t) /\ Inside(PushNode(Save(p), start))
  BY <1>2, <1>3, PushNodeSteps, StepsTogether DEF Steps
<1>5. Steps(p, Push(Save(p), start), t) /\ Inside(Push(Save(p), start))
  BY <1>2, <1>3, PushSteps, StepsTogether DEF Steps
<1>6. Steps(p, Push(StartPair(p), pair), t) /\ Inside(Push(StartPair(p), pair))
  BY <1>2, <1>3, PushSteps, StepsTogether DEF Steps
<1>7. Steps(p, block, t)
  BY <1>2, <1>4, GotoSteps, StepsTogether
<1>8. Steps(p, flow, t)
  BY <1>2, <1>6, GotoSteps, StepsTogether
<1>9. Steps(p, inline, t)
  BY <1>2, <1>5, GotoSteps, StepsTogether
<1> QED BY <1>1, <1>7, <1>8, <1>9, SelfSteps DEF q

\* The arm for a scalar leaves one word more, behind the empty nodes it may make.
LEMMA ScalarArrives ==
    ASSUME NEW p, Ready(p), NEW t \in Tokens, t.type = "Scalar"
    PROVE  SameAndWord(p, OnScalar(p, t), t)
<1> DEFINE begun == BeginContent(p, t)
           key == OpenKeyMapping(begun, t)
           b == key.just_closed_inline_wrap /\ begun.state # "BlockMappingValue"
           marked == [key EXCEPT !.just_closed_inline_wrap = b]
           opened == EmptyValue(marked, t)
           c == opened.state = "BlockMappingKey" /\ OddChildren(opened)
           keyed == PushIf(c, opened, Empty(t))
           last == PushNode(keyed, Event(t.type, t))
<1>1. OnScalar(p, t) = Completed(last)
  BY DEF OnScalar
<1>2. Arrives(p, begun, t) /\ Inside(begun) /\ begun.state \in Inner
  BY BeginContentSteps DEF Arrives
<1>3. Empty(t) \in Inserts(t) /\ "BlockMappingKey" \in Inner /\ t.type \in Leaves
  BY InsertsTyped, InnerStates DEF Leaves
<1> HIDE DEF begun, c
<1>4. Steps(begun, key, t) /\ Inside(key)
  BY <1>2, OpenKeyMappingSteps DEF Steps
<1> HIDE DEF key
<1>5. Steps(begun, marked, t) /\ Inside(marked)
  <2>1. key \in Parsers
    BY <1>4 DEF Inside
  <2>2. b \in BOOLEAN
    BY <2>1 DEF Parsers
  <2> HIDE DEF b
  <2>3. /\ marked \in Parsers /\ marked.events = key.events /\ marked.state = key.state
        /\ marked.state_stack = key.state_stack /\ marked.token_index = key.token_index
        /\ marked.event_index = key.event_index /\ marked.failed = key.failed /\ marked.pending_anchor = key.pending_anchor
    BY <2>1, <2>2 DEF Parsers
  <2> HIDE DEF marked
  <2> QED BY <1>2, <1>4, <2>3, OthersStep, StepsTogether DEF Steps
<1> HIDE DEF marked
<1>6. Steps(begun, opened, t) /\ Inside(opened)
  <2>1. Steps(marked, PushNode(marked, Empty(t)), t) /\ Inside(PushNode(marked, Empty(t)))
    BY <1>3, <1>5, PushNodeSteps DEF Steps
  <2>2. Steps(marked, Goto(PushNode(marked, Empty(t)), "BlockMappingKey"), t)
    BY <1>3, <1>5, <2>1, GotoSteps, StepsTogether
  <2>3. Steps(marked, EmptyValue(marked, t), t)
    BY <1>5, <2>2, SelfSteps DEF EmptyValue
  <2> QED BY <1>2, <1>5, <2>3, StepsTogether DEF Steps
<1> HIDE DEF opened
<1>7. Steps(begun, keyed, t)
  BY <1>2, <1>3, <1>6, PushIfSteps, StepsTogether
<1> HIDE DEF keyed
<1>8. p \in Parsers
  BY DEF Ready
<1> QED BY <1>1, <1>2, <1>3, <1>7, <1>8, WordArrives

-----------------------------------------------------------------------------
(***************************************************************************)
(* The arm for ":".                                                        *)
(***************************************************************************)
LEMMA EmptyKeyMappingArrives ==
    ASSUME NEW p, Ready(p), NEW t \in Tokens
    PROVE  Arrives(p, EmptyKeyMapping(BeginWithDirectives(p, t), t), t)
<1> DEFINE a == BeginWithDirectives(p, t)
           start == Event("MappingStart", t)
           b == Push(a, start)
           c == PushNode(b, Empty(t))
<1>1. Inside(a) /\ Same(p, a, t)
  BY BeginWithDirectivesSteps
<1>2. start \in Inserts(t) /\ Empty(t) \in Inserts(t) /\ "BlockMappingValue" \in Inner
  BY InsertsTyped, InnerStates DEF NodeStarts
<1>3. EmptyKeyMapping(a, t) = Goto(c, "BlockMappingValue")
  BY DEF EmptyKeyMapping
<1> HIDE DEF a, start
<1>4. Steps(a, b, t) /\ Inside(b)
  BY <1>1, <1>2, PushSteps DEF Steps
<1> HIDE DEF b
<1>5. Steps(a, c, t)
  BY <1>1, <1>2, <1>4, PushNodeSteps, StepsTogether
<1> HIDE DEF c
<1>6. Arrives(p, EmptyKeyMapping(a, t), t)
  BY <1>1, <1>2, <1>3, <1>5, ArrivesAt
<1> QED BY <1>6 DEF a

\* Closing an inline key stays inside the document.
LEMMA CloseInlineKeySteps ==
    ASSUME NEW p, Inside(p), p.state \in Inner, NEW t \in Tokens
    PROVE  Steps(p, CloseInlineKey(p, t), t)
<1> DEFINE c == p.inline_wrap_column = t.column /\ SavedIs(p, "BlockMappingKey") /\ ~OddChildren(p)
           end == Event("MappingEnd", t)
           a == Push(p, end)
           b == Restore(a)
           d == [b EXCEPT !.inline_wrap_column = 0, !.just_closed_inline_wrap = TRUE]
           q == CloseInlineKey(p, t)
<1>1. q = IF c THEN d ELSE p
  BY DEF CloseInlineKey
<1>2. end \in Inserts(t)
  BY InsertsTyped DEF NodeEnds
<1>3. c => p.state_stack # <<>>
  BY DEF SavedIs
<1> HIDE DEF end, c
<1>4. Steps(p, a, t) /\ Inside(a) /\ a.state_stack = p.state_stack
  BY <1>2, PushSteps DEF Steps
<1> HIDE DEF a
<1>5. CASE c
  <2>1. Steps(p, b, t) /\ Inside(b) /\ b \in Parsers
    BY <1>3, <1>4, <1>5, RestoreSteps, StepsTogether DEF Steps, Inside
  <2> HIDE DEF b
  <2>2. /\ d \in Parsers /\ d.events = b.events /\ d.state = b.state
        /\ d.state_stack = b.state_stack /\ d.token_index = b.token_index
        /\ d.event_index = b.event_index /\ d.failed = b.failed /\ d.pending_anchor = b.pending_anchor
    BY <2>1 DEF Parsers
  <2> HIDE DEF d
  <2>3. Steps(p, d, t)
    BY <2>1, <2>2, OthersStep, StepsTogether
  <2> QED BY <1>1, <1>5, <2>3
<1>6. CASE ~c
  BY <1>1, <1>6, SelfSteps
<1> QED BY <1>5, <1>6

\* A start put in front of a finished node stays inside the document.
LEMMA OpenInlineKeySteps ==
    ASSUME NEW p, Inside(p), p.state \in Inner, NEW t \in Tokens
    PROVE  Steps(p, OpenInlineKey(p, t), t)
<1> DEFINE a == Save(p)
           saved == [a EXCEPT !.last_key_marker_line = 0, !.state = "BlockMappingValue"]
           i == LastNode(p.events)
           wrapped == WrapFrom(saved, i, FALSE)
           b == [wrapped EXCEPT !.inline_wrap_column = p.last_key_marker_column]
           start == Event("MappingStart", t)
           c == Push(saved, start)
           d == Push(c, Empty(t))
           q == OpenInlineKey(p, t)
<1>1. q = IF OddChildren(p) THEN b ELSE d
  BY DEF OpenInlineKey
<1>2. start \in Inserts(t) /\ Empty(t) \in Inserts(t) /\ "BlockMappingValue" \in Inner
  BY InsertsTyped, InnerStates DEF NodeStarts
<1>3. Steps(p, a, t) /\ Inside(a) /\ a.events = p.events /\ a \in Parsers
  <2>1. a.events = p.events
    BY DEF Save, Inside, Parsers
  <2> QED BY <2>1, SaveSteps DEF Steps, Inside
<1> HIDE DEF a, start
<1>4. Steps(p, saved, t) /\ Inside(saved) /\ saved.events = p.events
  <2>1. /\ saved \in Parsers /\ saved.events = a.events /\ saved.state = "BlockMappingValue"
        /\ saved.state_stack = a.state_stack /\ saved.token_index = a.token_index
        /\ saved.event_index = a.event_index /\ saved.failed = a.failed /\ saved.pending_anchor = a.pending_anchor
    BY <1>3 DEF Parsers, ParserStates
  <2> HIDE DEF saved
  <2>2. saved.state_stack \in Seq(Inner)
    BY <1>3, <2>1 DEF Inside
  <2>3. Steps(a, saved, t)
    BY <1>2, <1>3, <2>1, <2>2, StateStep
  <2> QED BY <1>3, <2>1, <2>3, StepsTogether DEF Steps
<1> HIDE DEF saved
<1>5. CASE OddChildren(p)
  <2>1. p.events \in Seq(Events) /\ Levels(p.events) # <<>>
    BY <1>5 DEF OddChildren, Inside, Framed
  <2>2. i \in DOMAIN saved.events /\ saved.events[i].type \in Parts
    BY <1>4, <2>1, LastNodeTyped
  <2> HIDE DEF i
  <2>3. Steps(p, wrapped, t) /\ Inside(wrapped) /\ wrapped \in Parsers
    BY <1>4, <2>2, WrapFromSteps, StepsTogether DEF Steps, Inside
  <2> HIDE DEF wrapped
  <2>4. p.last_key_marker_column \in Nat
    BY DEF Inside, Parsers
  <2>5. /\ b \in Parsers /\ b.events = wrapped.events /\ b.state = wrapped.state
        /\ b.state_stack = wrapped.state_stack /\ b.token_index = wrapped.token_index
        /\ b.event_index = wrapped.event_index /\ b.failed = wrapped.failed /\ b.pending_anchor = wrapped.pending_anchor
    BY <2>3, <2>4 DEF Parsers
  <2> HIDE DEF b
  <2>6. Steps(p, b, t)
    BY <2>3, <2>5, OthersStep, StepsTogether
  <2> QED BY <1>1, <1>5, <2>6
<1>6. CASE ~OddChildren(p)
  <2>1. Steps(p, c, t) /\ Inside(c)
    BY <1>2, <1>4, PushSteps, StepsTogether DEF Steps
  <2> HIDE DEF c
  <2>2. Steps(p, d, t)
    BY <1>2, <2>1, PushSteps, StepsTogether
  <2> QED BY <1>1, <1>6, <2>2
<1> QED BY <1>5, <1>6

\* A value after its key stays inside the document.
LEMMA ValueOfKeySteps ==
    ASSUME NEW p, Inside(p), p.state \in Inner, NEW t \in Tokens
    PROVE  Steps(p, ValueOfKey(p, t), t)
<1> DEFINE closed == CloseInlineKey(p, t)
           filled == PushNodeIf(~OddChildren(closed), closed, Empty(t))
<1>1. ValueOfKey(p, t) = IF InlineKey(closed, t) THEN OpenInlineKey(closed, t)
                         ELSE Goto(filled, "BlockMappingValue")
  BY DEF ValueOfKey
<1>2. Steps(p, closed, t) /\ Inside(closed) /\ closed.state \in Inner
  BY CloseInlineKeySteps DEF Steps
<1>3. Empty(t) \in Inserts(t) /\ "BlockMappingValue" \in Inner
  BY InsertsTyped, InnerStates
<1> HIDE DEF closed
<1>4. Steps(p, filled, t) /\ Inside(filled)
  BY <1>2, <1>3, PushNodeIfSteps, StepsTogether DEF Steps
<1> HIDE DEF filled
<1>5. Steps(p, Goto(filled, "BlockMappingValue"), t)
  BY <1>3, <1>4, GotoSteps, StepsTogether
<1>6. Steps(p, OpenInlineKey(closed, t), t)
  BY <1>2, OpenInlineKeySteps, StepsTogether
<1> QED BY <1>1, <1>5, <1>6

\* A pair with an empty key stays inside the document.
LEMMA OpenPairWithEmptyKeySteps ==
    ASSUME NEW p, Inside(p), p.state \in Inner, NEW t \in Tokens
    PROVE  Steps(p, OpenPairWithEmptyKey(p, t), t)
<1> DEFINE a == StartPair(p)
           pair == FlowEvent("MappingStart", t)
           b == Push(a, pair)
           c == Push(b, Empty(t))
<1>1. OpenPairWithEmptyKey(p, t) = Goto(c, "FlowMappingValue")
  BY DEF OpenPairWithEmptyKey
<1>2. pair \in Inserts(t) /\ Empty(t) \in Inserts(t) /\ "FlowMappingValue" \in Inner
  BY InsertsTyped, InnerStates DEF NodeStarts
<1>3. Steps(p, a, t) /\ Inside(a)
  BY StartPairSteps DEF Steps
<1> HIDE DEF a, pair
<1>4. Steps(p, b, t) /\ Inside(b)
  BY <1>2, <1>3, PushSteps, StepsTogether DEF Steps
<1> HIDE DEF b
<1>5. Steps(p, c, t) /\ Inside(c)
  BY <1>2, <1>4, PushSteps, StepsTogether DEF Steps
<1> HIDE DEF c
<1> QED BY <1>1, <1>2, <1>5, GotoSteps, StepsTogether

\* A value in a flow sequence stays inside the document.
LEMMA ValueInFlowSequenceSteps ==
    ASSUME NEW p, Inside(p), p.state \in Inner, NEW t \in Tokens
    PROVE  Steps(p, ValueInFlowSequence(p, t), t)
<1> DEFINE opens(i) == /\ p.events[i].type \in NodeStarts /\ p.events[i].flow
                       /\ Pieces(p.events, NodeEnds, i) = Cardinality(
                              {j \in i .. Len(p.events) : p.events[j].type \in NodeStarts /\ p.events[j].flow})
           key == {i \in DOMAIN p.events : opens(i)}
           a == StartPair(p)
           k == Max(key)
           b == WrapFrom(a, k, TRUE)
           q == ValueInFlowSequence(p, t)
<1>1. /\ LastEvent(p, NodeEnds) /\ key # {} => q = Goto(b, "FlowMappingValue")
      /\ ~(LastEvent(p, NodeEnds) /\ key # {}) => q = OpenPairWithEmptyKey(p, t)
  BY Zenon DEF ValueInFlowSequence
<1>2. \A i \in key : i \in DOMAIN p.events /\ p.events[i].type \in Parts
  BY DEF Parts
<1> HIDE DEF key, q, a
<1>3. Steps(p, a, t) /\ Inside(a) /\ a.events = p.events
  BY StartPairSteps DEF Steps, a
<1>4. CASE LastEvent(p, NodeEnds) /\ key # {}
  <2>1. Len(p.events) \in Nat /\ DOMAIN p.events = 1 .. Len(p.events)
    BY DEF Inside, Framed
  <2>2. key \in SUBSET Nat /\ \A n \in key : n <= Len(p.events)
    BY <1>2, <2>1
  <2>3. k \in key
    BY <1>4, <2>1, <2>2, MaxBounds
  <2> HIDE DEF k
  <2>4. k \in DOMAIN a.events /\ a.events[k].type \in Parts
    BY <1>2, <1>3, <2>3
  <2>5. Steps(p, b, t) /\ Inside(b)
    BY <1>3, <2>4, WrapFromSteps, StepsTogether DEF Steps
  <2> HIDE DEF b
  <2>6. Steps(p, Goto(b, "FlowMappingValue"), t)
    BY <2>5, InnerStates, GotoSteps, StepsTogether
  <2> QED BY <1>1, <1>4, <2>6 DEF q
<1>5. CASE ~(LastEvent(p, NodeEnds) /\ key # {})
  BY <1>1, <1>5, OpenPairWithEmptyKeySteps DEF q
<1> QED BY <1>4, <1>5

\* The arm for Value leaves the parser in a document with the words it had.
LEMMA ValueArrives ==
    ASSUME NEW old, Ready(old), NEW t \in Tokens
    PROVE  Arrives(old, OnValue(old, t), t)
<1> DEFINE p == [old EXCEPT !.last_value_token_line = t.line, !.explicit_key_pending = FALSE]
           q == OnValue(old, t)
           A == p.state \in {"ImplicitDocumentStart", "DocumentStart", "DocumentContent"}
           B == p.state = "BlockMappingKey"
           C == p.state = "BlockSequence" /\ p.last_token_type = "BlockEntry"
           D == p.state = "FlowMappingKey"
           E == p.state = "FlowMapping"
           F == p.state = "FlowSequence"
           start == Event("MappingStart", t)
           mapping == EmptyKeyMapping(BeginWithDirectives(p, t), t)
           saved == Save(p)
           opened == PushNode(saved, start)
           entry == Goto(Push(opened, Empty(t)), "BlockMappingValue")
           filled == PushNodeIf(~OddChildren(p), p, Empty(t))
           flow == Goto(filled, "FlowMappingValue")
<1>1. Ready(p) /\ (Arrives(p, q, t) => Arrives(old, q, t)) /\ p.state \in ParserStates
  <2>1. old \in Parsers /\ t.line \in Nat
    BY DEF Ready, Tokens
  <2>2. /\ p \in Parsers /\ p.events = old.events /\ p.state = old.state
        /\ p.state_stack = old.state_stack /\ p.token_index = old.token_index
        /\ p.event_index = old.event_index /\ p.failed = old.failed /\ p.pending_anchor = old.pending_anchor
    BY <2>1 DEF Parsers
  <2>3. p.state \in ParserStates
    BY <2>2 DEF Parsers
  <2> HIDE DEF p, q
  <2> QED BY <2>2, <2>3, ReadyOthers
<1>2. q = CASE A -> mapping
            [] B -> ValueOfKey(p, t)
            [] C -> entry
            [] D -> Goto(p, "FlowMappingValue")
            [] E -> flow
            [] F -> ValueInFlowSequence(p, t)
            [] OTHER -> p
  BY DEF OnValue
<1>3. /\ A => ~B /\ ~C /\ ~D /\ ~E /\ ~F
      /\ B => ~C /\ ~D /\ ~E /\ ~F
      /\ C => ~D /\ ~E /\ ~F
      /\ D => ~E /\ ~F
      /\ E => ~F
      /\ ~A => p.state \in Inner
  <2> HIDE DEF p
  <2>1. p.state \notin {"ImplicitDocumentStart", "DocumentStart", "DocumentContent"} => p.state \in Inner
    BY <1>1 DEF Ready
  <2> QED BY <2>1
<1>4. p.state \in Inner => /\ Inside(p) /\ Same(p, p, t)
                           /\ \A r : Steps(p, r, t) => Arrives(p, r, t)
  <2> HIDE DEF p
  <2> QED BY <1>1, InnerArrives, SelfSteps DEF Steps
<1>5. start \in Inserts(t) /\ Empty(t) \in Inserts(t) /\ "BlockMappingValue" \in Inner /\ "FlowMappingValue" \in Inner
  BY InsertsTyped, InnerStates DEF NodeStarts
<1>6. Arrives(p, mapping, t)
  <2> HIDE DEF p
  <2> QED BY <1>1, EmptyKeyMappingArrives
<1> HIDE DEF p, q, A, B, C, D, E, F, start, mapping
<1>7. /\ A => q = mapping
      /\ B => q = ValueOfKey(p, t)
      /\ C => q = entry
  <2> HIDE DEF entry, flow
  <2>1. A => q = mapping
    BY <1>2, <1>3, Zenon
  <2>2. B => q = ValueOfKey(p, t)
    BY <1>2, <1>3, Zenon
  <2>3. C => q = entry
    BY <1>2, <1>3, Zenon
  <2> QED BY <2>1, <2>2, <2>3
<1>8. /\ D => q = Goto(p, "FlowMappingValue")
      /\ E => q = flow
      /\ F => q = ValueInFlowSequence(p, t)
      /\ ~A /\ ~B /\ ~C /\ ~D /\ ~E /\ ~F => q = p
  <2> HIDE DEF entry, flow
  <2>1. D => q = Goto(p, "FlowMappingValue")
    BY <1>2, <1>3, Zenon
  <2>2. E => q = flow
    BY <1>2, <1>3, Zenon
  <2>3. F => q = ValueInFlowSequence(p, t)
    BY <1>2, <1>3, Zenon
  <2>4. ~A /\ ~B /\ ~C /\ ~D /\ ~E /\ ~F => q = p
    BY <1>2, Zenon
  <2> QED BY <2>1, <2>2, <2>3, <2>4
<1>9. CASE A
  BY <1>1, <1>6, <1>7, <1>9 DEF q
<1>10. CASE ~A
  <2>1. Inside(p) /\ p.state \in Inner
    BY <1>3, <1>4, <1>10
  <2>2. Steps(p, saved, t) /\ Inside(saved)
    BY <2>1, SaveSteps DEF Steps
  <2> HIDE DEF saved
  <2>3. Steps(p, opened, t) /\ Inside(opened)
    BY <1>5, <2>1, <2>2, PushNodeSteps, StepsTogether DEF Steps
  <2> HIDE DEF opened
  <2>4. Steps(p, Push(opened, Empty(t)), t) /\ Inside(Push(opened, Empty(t)))
    BY <1>5, <2>1, <2>3, PushSteps, StepsTogether DEF Steps
  <2>5. Steps(p, entry, t)
    BY <1>5, <2>1, <2>4, GotoSteps, StepsTogether
  <2>6. Steps(p, filled, t) /\ Inside(filled)
    BY <1>5, <2>1, PushNodeIfSteps DEF Steps
  <2> HIDE DEF filled
  <2>7. Steps(p, flow, t) /\ Steps(p, Goto(p, "FlowMappingValue"), t)
    BY <1>5, <2>1, <2>6, GotoSteps, StepsTogether
  <2>8. Steps(p, ValueOfKey(p, t), t) /\ Steps(p, ValueInFlowSequence(p, t), t) /\ Steps(p, p, t)
    BY <2>1, ValueOfKeySteps, ValueInFlowSequenceSteps, SelfSteps
  <2>9. Steps(p, q, t)
    <3> HIDE DEF entry, flow
    <3> QED BY <1>7, <1>8, <1>10, <2>5, <2>7, <2>8
  <2> QED BY <1>1, <1>4, <2>1, <2>9 DEF q
<1> QED BY <1>9, <1>10

-----------------------------------------------------------------------------
(***************************************************************************)
(* The arms that begin and end documents.                                  *)
(***************************************************************************)
\* Between two tokens: whether a document is open, the state tells.
Shaped(p) ==
    /\ p \in Parsers
    /\ p.state_stack \in Seq(Inner)
    /\ Framed(p.events, IF p.state \in Outside THEN 0 ELSE 1)

\* What an arm that takes no word does.
Moves(p, q, t) == Shaped(q) /\ Same(p, q, t)

\* Between documents.
Closed(p) == p \in Parsers /\ p.state_stack \in Seq(Inner) /\ Framed(p.events, 0)

\* One event that is no part of a document, and the state behind it.
LEMMA PushBorder ==
    ASSUME NEW t, NEW p, p \in Parsers, p.state_stack \in Seq(Inner), NEW d, Framed(p.events, d),
           NEW e \in Events, e.type \notin Parts, ~e.anchor, d + Border(e) \in {0, 1},
           e.type = "StreamEnd" => d = 0,
           NEW q, q = Push(p, e)
    PROVE  /\ q \in Parsers /\ q.state_stack \in Seq(Inner) /\ Framed(q.events, d + Border(e))
           /\ Same(p, q, t) /\ q.state = p.state
<1> DEFINE s == Append(p.events, e)
<1>1. q = [p EXCEPT !.events = s]
  BY DEF Push
<1>2. Framed(s, d + Border(e))
  BY FramedAppend
<1>3. p.events \in Seq(Events) /\ ~IsWord(e)
  BY DEF Framed, IsWord, Parts
<1>4. /\ Words(s) = Words(p.events) /\ Nodes(s) = Nodes(p.events)
      /\ Len(s) >= Len(p.events) /\ s \in Seq(Events)
  <2>1. Words(s) = Words(p.events) /\ Nodes(s) = Nodes(p.events)
    BY <1>3, WordsAppend, NodesAppend
  <2>2. Len(s) >= Len(p.events) /\ s \in Seq(Events)
    BY <1>3
  <2> QED BY <2>1, <2>2
<1> HIDE DEF s
<1>5. /\ q \in Parsers /\ q.events = s /\ q.state = p.state /\ q.state_stack = p.state_stack
      /\ q.token_index = p.token_index /\ q.event_index = p.event_index /\ q.failed = p.failed /\ q.pending_anchor = p.pending_anchor
  BY <1>1, <1>4 DEF Parsers
<1> QED BY <1>2, <1>4, <1>5 DEF Same, Hands

\* Sameness is transitive.
LEMMA SameTogether ==
    ASSUME NEW t, NEW p \in Parsers, NEW q \in Parsers, NEW r \in Parsers, Same(p, q, t), Same(q, r, t)
    PROVE  Same(p, r, t)
<1>1. Len(p.events) \in Nat /\ Len(q.events) \in Nat /\ Len(r.events) \in Nat
  BY EventsTyped
<1>2. Len(r.events) >= Len(p.events)
  BY <1>1 DEF Same
<1> QED BY <1>2, HandsTogether DEF Same

\* Behind the end of a document none is open.
LEMMA EndSteps ==
    ASSUME NEW p, Inside(p), NEW t \in Tokens, NEW implicit \in BOOLEAN, NEW q,
           q = Push(p, [Event("DocumentEnd", t) EXCEPT !.implicit = implicit])
    PROVE  Closed(q) /\ Same(p, q, t) /\ q.state = p.state
<1> DEFINE e == [Event("DocumentEnd", t) EXCEPT !.implicit = implicit]
<1>1. e \in Events /\ e.type = "DocumentEnd" /\ ~e.anchor
  <2> DEFINE f == Event("DocumentEnd", t)
  <2>1. f \in Events /\ f.type = "DocumentEnd" /\ ~f.anchor
    BY EventTyped DEF EventTypes
  <2> HIDE DEF f
  <2>2. e = [f EXCEPT !.implicit = implicit]
    BY DEF f
  <2> HIDE DEF e
  <2>3. e \in Events /\ e.type = "DocumentEnd" /\ e.anchor = f.anchor
    BY <2>1, <2>2 DEF Events
  <2> QED BY <2>1, <2>3
<1> HIDE DEF e
<1>2. e.type \notin Parts /\ Border(e) = 0 - 1
  BY <1>1 DEF Parts, NodeStarts, NodeEnds, Leaves, Border
<1>3. p \in Parsers /\ p.state_stack \in Seq(Inner) /\ Framed(p.events, 1)
  BY DEF Inside
<1>4. 1 + Border(e) = 0 /\ q = Push(p, e)
  BY <1>2 DEF e
<1>5. /\ q \in Parsers /\ q.state_stack \in Seq(Inner) /\ Framed(q.events, 1 + Border(e))
      /\ Same(p, q, t) /\ q.state = p.state
  <2> DEFINE d == 1
  <2>1. d + Border(e) \in {0, 1} /\ e.type # "StreamEnd" /\ Framed(p.events, d)
    BY <1>1, <1>3, <1>4
  <2> HIDE DEF d
  <2>2. /\ q \in Parsers /\ q.state_stack \in Seq(Inner) /\ Framed(q.events, d + Border(e))
        /\ Same(p, q, t) /\ q.state = p.state
    BY <1>1, <1>2, <1>3, <1>4, <2>1, PushBorder
  <2> QED BY <2>2 DEF d
<1> QED BY <1>4, <1>5 DEF Closed

\* EndDocument closes the document with no word more.
LEMMA EndDocumentSteps ==
    ASSUME NEW p, Inside(p), NEW t \in Tokens, NEW implicit \in BOOLEAN
    PROVE  Closed(EndDocument(p, t, implicit)) /\ Same(p, EndDocument(p, t, implicit), t)
<1> DEFINE a == IF LastEvent(p, {"DocumentStart"}) THEN Push(p, Empty(t)) ELSE CloseOpenCollections(p, t)
           b == EndDocument(p, t, implicit)
<1>1. b = Push(a, [Event("DocumentEnd", t) EXCEPT !.implicit = implicit])
  BY DEF EndDocument
<1>2. Empty(t) \in Inserts(t)
  BY InsertsTyped
<1>3. Steps(p, a, t)
  BY <1>2, PushSteps, CloseOpenCollectionsSteps
<1> HIDE DEF a, b
<1>4. Inside(a) /\ Same(p, a, t)
  BY <1>3 DEF Steps
<1>5. Closed(b) /\ Same(a, b, t)
  BY <1>1, <1>4, EndSteps
<1>6. Same(p, b, t)
  <2>1. p \in Parsers /\ a \in Parsers /\ b \in Parsers
    BY <1>4, <1>5 DEF Inside, Closed
  <2> QED BY <1>4, <1>5, <2>1, SameTogether
<1> QED BY <1>5, <1>6 DEF b

\* What is open ends, before the next document begins.
LEMMA EndsIfOpen ==
    ASSUME NEW p, Shaped(p), NEW t \in Tokens, NEW implicit \in BOOLEAN, NEW q,
           q = IF HasOpenDocument(p.events) THEN EndDocument(p, t, implicit) ELSE p
    PROVE  Closed(q) /\ Same(p, q, t)
<1> DEFINE d == IF p.state \in Outside THEN 0 ELSE 1
<1>1. Framed(p.events, d) /\ p \in Parsers /\ p.state_stack \in Seq(Inner) /\ p.state \in ParserStates
  <2>1. p.state \in ParserStates
    BY DEF Shaped, Parsers
  <2> QED BY <2>1 DEF Shaped
<1>2. CASE HasOpenDocument(p.events)
  <2>1. d = 1
    <3> HIDE DEF d
    <3> QED BY <1>1, <1>2, FramedOpen
  <2>2. Inside(p)
    BY <1>1, <2>1 DEF Inside, Inner
  <2> QED BY <1>2, <2>2, EndDocumentSteps
<1>3. CASE ~HasOpenDocument(p.events)
  <2>1. d = 0
    <3>1. d # 1 /\ d \in {0, 1}
      <4> HIDE DEF d
      <4> QED BY <1>1, <1>3, FramedOpen DEF Framed
    <3> QED BY <3>1
  <2>2. Len(p.events) \in Nat
    BY <1>1, EventsTyped
  <2>3. Same(p, p, t)
    BY <2>2 DEF Same, Hands
  <2> QED BY <1>1, <1>3, <2>1, <2>3 DEF Closed
<1> QED BY <1>2, <1>3

\* A state between documents, after the end of one.
LEMMA GotoOutside ==
    ASSUME NEW t, NEW p, Closed(p), NEW state \in Outside, NEW q, q = Goto(p, state)
    PROVE  Shaped(q) /\ Same(p, q, t) /\ q.state = state
<1>1. p \in Parsers /\ p.state_stack \in Seq(Inner) /\ Framed(p.events, 0) /\ Len(p.events) \in Nat
      /\ state \in ParserStates
  BY EventsTyped DEF Closed, Outside, ParserStates
<1>2. /\ q \in Parsers /\ q.events = p.events /\ q.state = state /\ q.state_stack = p.state_stack
      /\ q.token_index = p.token_index /\ q.event_index = p.event_index /\ q.failed = p.failed /\ q.pending_anchor = p.pending_anchor
  BY <1>1 DEF Goto, Parsers
<1> QED BY <1>1, <1>2 DEF Shaped, Same, Hands

\* The arm for `...` leaves no document open.
LEMMA DocumentEndLeaves ==
    ASSUME NEW p, Shaped(p), NEW t \in Tokens, NEW q, q = OnDocumentEnd(p, t)
    PROVE  Moves(p, q, t) /\ q.state = "ImplicitDocumentStart"
<1> DEFINE a == IF HasOpenDocument(p.events) THEN EndDocument(p, t, FALSE) ELSE p
<1>1. Closed(a) /\ Same(p, a, t)
  BY EndsIfOpen
<1>2. q = Goto(a, "ImplicitDocumentStart") /\ "ImplicitDocumentStart" \in Outside
  BY DEF OnDocumentEnd, Outside
<1> HIDE DEF a
<1>3. Shaped(q) /\ Same(a, q, t) /\ q.state = "ImplicitDocumentStart"
  BY <1>1, <1>2, GotoOutside
<1>4. p \in Parsers /\ a \in Parsers /\ q \in Parsers
  BY <1>1, <1>3 DEF Shaped, Closed
<1> QED BY <1>1, <1>3, <1>4, SameTogether DEF Moves

\* The arm for `---` closes the document that is open and leaves one started.
LEMMA DocumentStartLeaves ==
    ASSUME NEW p, Shaped(p), NEW t \in Tokens, NEW q, q = OnDocumentStart(p, t)
    PROVE  Moves(p, q, t) /\ q.state = "DocumentStart"
<1> DEFINE a == IF HasOpenDocument(p.events) THEN EndDocument(p, t, TRUE) ELSE p
           e == [Event("DocumentStart", t) EXCEPT !.version = p.yaml_version]
           b == Push(a, e)
<1>1. Closed(a) /\ Same(p, a, t)
  BY EndsIfOpen
<1>2. q = [b EXCEPT !.yaml_version = FALSE, !.state = "DocumentStart"]
  BY DEF OnDocumentStart
<1>3. e \in Events /\ e.type = "DocumentStart" /\ ~e.anchor
  <2> DEFINE f == Event("DocumentStart", t)
  <2>1. f \in Events /\ f.type = "DocumentStart" /\ ~f.anchor /\ p.yaml_version \in BOOLEAN
    BY EventTyped DEF EventTypes, Shaped, Parsers
  <2> HIDE DEF f
  <2>2. e = [f EXCEPT !.version = p.yaml_version]
    BY DEF f
  <2> HIDE DEF e
  <2>3. e \in Events /\ e.type = "DocumentStart" /\ e.anchor = f.anchor
    BY <2>1, <2>2 DEF Events
  <2> QED BY <2>1, <2>3
<1> HIDE DEF a, e
<1>4. e.type \notin Parts /\ Border(e) = 1 /\ 0 + Border(e) = 1
  BY <1>3 DEF Parts, NodeStarts, NodeEnds, Leaves, Border
<1>5. b \in Parsers /\ b.state_stack \in Seq(Inner) /\ Framed(b.events, 1) /\ Same(a, b, t)
  <2>1. /\ b \in Parsers /\ b.state_stack \in Seq(Inner) /\ Framed(b.events, 0 + Border(e))
        /\ Same(a, b, t)
    BY <1>1, <1>3, <1>4, PushBorder DEF Closed
  <2> QED BY <1>4, <2>1
<1> HIDE DEF b
<1>6. /\ q \in Parsers /\ q.events = b.events /\ q.state = "DocumentStart" /\ q.state_stack = b.state_stack
      /\ q.token_index = b.token_index /\ q.event_index = b.event_index /\ q.failed = b.failed /\ q.pending_anchor = b.pending_anchor
  BY <1>2, <1>5 DEF Parsers, ParserStates
<1>7. Shaped(q) /\ Same(b, q, t)
  <2>1. Len(b.events) \in Nat
    BY <1>5, EventsTyped
  <2> QED BY <1>5, <1>6, <2>1 DEF Shaped, Same, Hands, Outside
<1>8. p \in Parsers /\ a \in Parsers
  BY <1>1 DEF Shaped, Closed
<1>9. Same(p, b, t)
  BY <1>1, <1>5, <1>8, SameTogether
<1>10. Same(p, q, t)
  BY <1>5, <1>6, <1>7, <1>8, <1>9, SameTogether
<1> QED BY <1>6, <1>7, <1>10 DEF Moves

\* The arm for StreamStart leaves the parser ready for a document.
LEMMA StreamStartLeaves ==
    ASSUME NEW p, Shaped(p), p.state = "StreamStart", NEW t \in Tokens, NEW q, q = OnStreamStart(p, t)
    PROVE  Moves(p, q, t) /\ q.state = "ImplicitDocumentStart"
<1> DEFINE e == Event("StreamStart", t)
           a == Push(p, e)
<1>1. p \in Parsers /\ p.state_stack \in Seq(Inner) /\ Framed(p.events, 0)
  BY DEF Shaped, Outside
<1>2. e \in Events /\ e.type = "StreamStart" /\ ~e.anchor
  BY EventTyped DEF EventTypes
<1>3. q = Goto(a, "ImplicitDocumentStart") /\ "ImplicitDocumentStart" \in Outside
  BY DEF OnStreamStart, Outside
<1> HIDE DEF e
<1>4. e.type \notin Parts /\ 0 + Border(e) = 0 /\ e.type # "StreamEnd"
  BY <1>2 DEF Parts, NodeStarts, NodeEnds, Leaves, Border
<1>5. Closed(a) /\ Same(p, a, t)
  <2>1. /\ a \in Parsers /\ a.state_stack \in Seq(Inner) /\ Framed(a.events, 0 + Border(e))
        /\ Same(p, a, t)
    BY <1>1, <1>2, <1>4, PushBorder
  <2> QED BY <1>4, <2>1 DEF Closed
<1> HIDE DEF a
<1>6. Shaped(q) /\ Same(a, q, t) /\ q.state = "ImplicitDocumentStart"
  BY <1>3, <1>5, GotoOutside
<1>7. a \in Parsers /\ q \in Parsers
  BY <1>5, <1>6 DEF Shaped, Closed
<1> QED BY <1>1, <1>5, <1>6, <1>7, SameTogether DEF Moves

\* The end of the stream ends what is open before it.
LEMMA StreamEndLeaves ==
    ASSUME NEW p, Shaped(p), NEW t \in Tokens, NEW q, q = OnStreamEnd(p, t)
    PROVE  Moves(p, q, t) /\ q.state = "StreamEnd"
<1> DEFINE c == p.state = "BlockMappingKey" /\ ~p.explicit_key_pending /\ OddChildren(p)
           valued == PushIf(c, p, Empty(t))
           begun == LastEvent(valued, {"DocumentStart"})
           rooted == PushIf(begun, valued, Empty(t))
           waits == rooted.state = "ImplicitDocumentStart" /\ HasProperties(rooted)
           opened == BeginWithDirectives(rooted, t)
           filled == PushNode(opened, Empty(t))
           propertied == IF waits THEN Goto(filled, "DocumentContent") ELSE rooted
           closed == CloseOpenCollections(propertied, t)
           last == Push(closed, [Event("DocumentEnd", t) EXCEPT !.implicit = TRUE])
           ended == IF propertied.state \in {"StreamStart", "ImplicitDocumentStart", "StreamEnd"}
                    THEN propertied ELSE last
           e == Event("StreamEnd", t)
           a == Push(ended, e)
<1>1. q = Goto(a, "StreamEnd")
  BY Zenon DEF OnStreamEnd
<1>2. Empty(t) \in Inserts(t) /\ "DocumentContent" \in Inner
  BY InsertsTyped, InnerStates
<1>3. e \in Events /\ e.type = "StreamEnd" /\ ~e.anchor
  BY EventTyped DEF EventTypes
<1>4. p \in Parsers /\ p.state \in ParserStates /\ p.state_stack \in Seq(Inner) /\ Len(p.events) \in Nat
  <2>1. p \in Parsers
    BY DEF Shaped
  <2> QED BY <2>1, EventsTyped DEF Shaped, Parsers
<1> HIDE DEF e
<1>5. /\ \/ Inside(rooted) /\ rooted.state \in Inner
         \/ Closed(rooted) /\ rooted.state \in Outside
      /\ Same(p, rooted, t)
  <2>1. CASE p.state \in Inner
    <3>1. Inside(p)
      BY <1>4, <2>1 DEF Inside, Shaped, Inner
    <3> HIDE DEF c, begun
    <3>2. Steps(p, valued, t) /\ Inside(valued)
      BY <1>2, <3>1, PushIfSteps DEF Steps
    <3> HIDE DEF valued
    <3>3. Steps(p, rooted, t)
      BY <1>2, <3>1, <3>2, PushIfSteps, StepsTogether
    <3> QED BY <2>1, <3>3 DEF Steps
  <2>2. CASE p.state \in Outside
    <3>1. Closed(p) /\ Same(p, p, t)
      BY <1>4, <2>2 DEF Closed, Shaped, Same, Hands
    <3>2. ~c
      BY <2>2 DEF Outside
    <3> HIDE DEF c
    <3>3. valued \in Parsers /\ valued = p
      <4>1. valued = [p EXCEPT !.events = p.events]
        BY <3>2 DEF PushIf
      <4> QED BY <1>4, <4>1 DEF Parsers
    <3> HIDE DEF valued
    <3>4. ~begun
      <4>1. Framed(p.events, 0)
        BY <3>1 DEF Closed
      <4> QED BY <3>3, <4>1, FramedBegun DEF LastEvent
    <3> HIDE DEF begun
    <3>5. rooted = p
      <4>1. rooted = [p EXCEPT !.events = p.events]
        BY <3>3, <3>4 DEF PushIf
      <4> QED BY <1>4, <4>1 DEF Parsers
    <3> HIDE DEF rooted
    <3> QED BY <2>2, <3>1, <3>5
  <2> QED BY <1>4, <2>1, <2>2 DEF Inner
<1> HIDE DEF rooted
<1>6. rooted \in Parsers
  BY <1>5 DEF Inside, Closed
<1>7. /\ \/ Inside(propertied) /\ propertied.state \in Inner
         \/ Closed(propertied) /\ propertied.state \in Outside
      /\ Same(rooted, propertied, t)
  <2>1. CASE waits
    <3>1. Ready(rooted)
      BY <1>5, <2>1 DEF Ready, Closed, Inner, Outside
    <3>2. Inside(opened) /\ Same(rooted, opened, t)
      BY <3>1, BeginWithDirectivesSteps
    <3> HIDE DEF opened
    <3>3. Steps(opened, filled, t)
      BY <1>2, <3>2, PushNodeSteps
    <3> HIDE DEF filled
    <3>4. Arrives(rooted, Goto(filled, "DocumentContent"), t)
      BY <1>2, <3>1, <3>2, <3>3, ArrivesAt
    <3> QED BY <2>1, <3>4 DEF Arrives
  <2>2. CASE ~waits
    <3>1. propertied = rooted
      BY <2>2
    <3>2. Same(rooted, rooted, t)
      <4>1. Len(rooted.events) \in Nat
        BY <1>6, EventsTyped
      <4> QED BY <4>1 DEF Same, Hands
    <3> QED BY <1>5, <3>1, <3>2
  <2> QED BY <2>1, <2>2
<1> HIDE DEF propertied
<1>8. Closed(ended) /\ Same(propertied, ended, t)
  <2>1. CASE propertied.state \in Outside
    <3>1. ended = propertied
      BY <2>1 DEF Outside
    <3>2. Closed(propertied)
      BY <1>7, <2>1 DEF Inner
    <3>3. Same(propertied, propertied, t)
      <4>1. Len(propertied.events) \in Nat
        BY <3>2, EventsTyped DEF Closed
      <4> QED BY <4>1 DEF Same, Hands
    <3> QED BY <3>1, <3>2, <3>3
  <2>2. CASE propertied.state \notin Outside
    <3>1. ended = last
      BY <2>2 DEF Outside
    <3>2. Inside(propertied)
      BY <1>7, <2>2
    <3>3. Steps(propertied, closed, t)
      BY <3>2, CloseOpenCollectionsSteps
    <3> HIDE DEF closed
    <3>4. Inside(closed) /\ Same(propertied, closed, t)
      BY <3>3 DEF Steps
    <3>5. Closed(last) /\ Same(closed, last, t)
      BY <3>4, EndSteps
    <3> HIDE DEF last
    <3>6. propertied \in Parsers /\ closed \in Parsers /\ last \in Parsers
      BY <3>2, <3>4, <3>5 DEF Inside, Closed
    <3> QED BY <3>1, <3>4, <3>5, <3>6, SameTogether
  <2> QED BY <2>1, <2>2
<1> HIDE DEF ended
<1>9. Closed(a) /\ Same(ended, a, t)
  <2>1. e.type \notin Parts /\ 0 + Border(e) = 0
    BY <1>3 DEF Parts, NodeStarts, NodeEnds, Leaves, Border
  <2>2. /\ a \in Parsers /\ a.state_stack \in Seq(Inner) /\ Framed(a.events, 0 + Border(e))
        /\ Same(ended, a, t)
    BY <1>3, <1>8, <2>1, PushBorder DEF Closed
  <2> QED BY <2>1, <2>2 DEF Closed
<1> HIDE DEF a
<1>10. Shaped(q) /\ Same(a, q, t) /\ q.state = "StreamEnd"
  BY <1>1, <1>9, GotoOutside DEF Outside
<1>11. propertied \in Parsers /\ ended \in Parsers /\ a \in Parsers /\ q \in Parsers
  BY <1>7, <1>8, <1>9, <1>10 DEF Inside, Closed, Shaped
<1>12. Same(p, propertied, t)
  BY <1>4, <1>5, <1>6, <1>7, <1>11, SameTogether
<1>13. Same(p, ended, t)
  BY <1>4, <1>8, <1>11, <1>12, SameTogether
<1>14. Same(p, a, t)
  BY <1>4, <1>9, <1>11, <1>13, SameTogether
<1>15. Same(p, q, t)
  BY <1>4, <1>10, <1>11, <1>14, SameTogether
<1> QED BY <1>10, <1>15 DEF Moves

-----------------------------------------------------------------------------
(***************************************************************************)
(* Anchors and their nodes.                                                *)
(***************************************************************************)
\* Tokens taken and events made: every anchor but the one that waits has a node, at one of
\* the tokens, and no word or alias stands between the two, or behind the one that waits.
Met(ts, events, waits) ==
    /\ Len(Anchors(ts)) = IF waits THEN Len(Nodes(events)) + 1 ELSE Len(Nodes(events))
    /\ \A k \in DOMAIN Anchors(ts), i \in DOMAIN ts :
           ts[i].type \in Leaves =>
               ~(/\ Before(Anchors(ts)[k], Spot(ts[i]))
                 /\ k <= Len(Nodes(events)) => Before(Spot(ts[i]), Nodes(events)[k]))
    /\ \A k \in DOMAIN Nodes(events) : \E i \in DOMAIN ts : Nodes(events)[k] = Spot(ts[i])

\* A sequence of places, and one place more.
LEMMA PlacesTyped ==
    ASSUME NEW s \in Seq(Spots)
    PROVE  /\ Len(s) \in Nat /\ DOMAIN s = 1 .. Len(s)
           /\ \A w \in Spots :
                  /\ Len(Append(s, w)) = Len(s) + 1 /\ DOMAIN Append(s, w) = 1 .. Len(s) + 1
                  /\ Append(s, w)[Len(s) + 1] = w
                  /\ \A k \in 1 .. Len(s) : Append(s, w)[k] = s[k]
OBVIOUS

\* The token that comes next, if it is an anchor, a word or an alias, is before none taken.
InOrder(ts, t) == t.type \in Named => \A i \in DOMAIN ts : ~Before(Spot(t), Spot(ts[i]))

\* Before the first token nothing waits.
LEMMA MetNone == Met(<<>>, <<>>, FALSE)
<1>1. Anchors(<<>>) = <<>> /\ Nodes(<<>>) = <<>>
  BY AnchorsFold, NodesFold, AnchorFold!FoldEmpty, NodeFold!FoldEmpty
<1>2. Len(<<>>) = 0 /\ DOMAIN <<>> = {}
  OBVIOUS
<1> QED BY <1>1, <1>2 DEF Met

\* A token that is no anchor: what waits goes on waiting, or meets its node there.
LEMMA MetNext ==
    ASSUME NEW ts \in Seq(Tokens), NEW t \in Tokens, InOrder(ts, t), t.type # "Anchor",
           NEW p \in Parsers, NEW q \in Parsers, Met(ts, p.events, p.pending_anchor), Hands(p, q, t),
           t.type \in Leaves => ~q.pending_anchor
    PROVE  Met(Append(ts, t), q.events, q.pending_anchor)
<1> DEFINE as == Anchors(ts)
           ns == Nodes(p.events)
           ms == Nodes(q.events)
           us == Append(ts, t)
           n == Len(ts)
<1>1. as \in Seq(Spots) /\ ns \in Seq(Spots) /\ ms \in Seq(Spots)
  BY AnchorsTyped, NodesTyped, EventsTyped
<1>2. Anchors(us) = as
  BY AnchorsAppend
<1>3. /\ n \in Nat /\ DOMAIN ts = 1 .. n /\ DOMAIN us = 1 .. n + 1 /\ us[n + 1] = t
      /\ \A i \in 1 .. n : us[i] = ts[i]
  OBVIOUS
<1>4. \A i \in 1 .. n + 1 : Spot(us[i]) \in Spots
  <2>1. us \in Seq(Tokens) /\ Len(us) = n + 1
    OBVIOUS
  <2> HIDE DEF us
  <2> QED BY <2>1, SpotTyped
<1>5. /\ Len(as) = IF p.pending_anchor THEN Len(ns) + 1 ELSE Len(ns)
      /\ \A k \in DOMAIN as, i \in 1 .. n :
             ts[i].type \in Leaves =>
                 ~(/\ Before(as[k], Spot(ts[i]))
                   /\ k <= Len(ns) => Before(Spot(ts[i]), ns[k]))
      /\ \A k \in DOMAIN ns : \E i \in 1 .. n : ns[k] = Spot(ts[i])
  BY <1>3 DEF Met
<1>6. t.type \in Leaves => \A i \in 1 .. n : ~Before(Spot(t), Spot(ts[i]))
  BY <1>3 DEF InOrder, Leaves, Named
<1>7. ~Before(Spot(t), Spot(t))
  BY SpotTyped, BeforeOrders
<1> DEFINE w == Spot(t)
<1>8. \/ q.pending_anchor = p.pending_anchor /\ ms = ns
      \/ p.pending_anchor /\ ~q.pending_anchor /\ ms = Append(ns, w)
  BY DEF Hands
<1> HIDE DEF as, ns, ms, us, n, w
<1>9. /\ Len(ns) \in Nat /\ Len(as) \in Nat /\ Len(ms) \in Nat
      /\ DOMAIN as = 1 .. Len(as) /\ DOMAIN ns = 1 .. Len(ns) /\ DOMAIN ms = 1 .. Len(ms)
  BY <1>1, PlacesTyped
<1>10. CASE q.pending_anchor = p.pending_anchor /\ ms = ns
  <2>1. Len(as) = IF q.pending_anchor THEN Len(ms) + 1 ELSE Len(ms)
    BY <1>5, <1>10
  <2>2. ASSUME NEW k \in DOMAIN as, NEW i \in 1 .. n + 1, us[i].type \in Leaves,
               Before(as[k], Spot(us[i])), k <= Len(ms) => Before(Spot(us[i]), ms[k])
        PROVE  FALSE
    <3>1. CASE i \in 1 .. n
      BY <1>3, <1>5, <1>10, <2>2, <3>1
    <3>2. CASE i = n + 1
      <4>1. us[i] = t /\ ~q.pending_anchor
        BY <1>3, <2>2, <3>2
      <4>2. k \in 1 .. Len(ms)
        BY <1>9, <2>1, <4>1
      <4>3. PICK j \in 1 .. n : ms[k] = Spot(ts[j])
        BY <1>5, <1>9, <1>10, <4>2
      <4>4. Before(Spot(t), Spot(ts[j]))
        BY <2>2, <4>1, <4>2, <4>3
      <4> QED BY <1>6, <2>2, <4>1, <4>4
    <3> QED BY <1>3, <3>1, <3>2
  <2>3. \A k \in DOMAIN ms : \E i \in 1 .. n + 1 : ms[k] = Spot(us[i])
    BY <1>3, <1>5, <1>10
  <2>4. /\ Len(Anchors(us))
               = IF q.pending_anchor THEN Len(Nodes(q.events)) + 1 ELSE Len(Nodes(q.events))
        /\ \A k \in DOMAIN Anchors(us), i \in DOMAIN us :
               us[i].type \in Leaves =>
                   ~(/\ Before(Anchors(us)[k], Spot(us[i]))
                     /\ k <= Len(Nodes(q.events)) => Before(Spot(us[i]), Nodes(q.events)[k]))
        /\ \A k \in DOMAIN Nodes(q.events) : \E i \in DOMAIN us : Nodes(q.events)[k] = Spot(us[i])
    BY <1>2, <1>3, <2>1, <2>2, <2>3 DEF ms
  <2> QED BY <2>4 DEF Met, us
<1>11. CASE p.pending_anchor /\ ~q.pending_anchor /\ ms = Append(ns, w)
  <2>0. /\ Len(ms) = Len(ns) + 1 /\ ms[Len(ns) + 1] = w /\ (\A k \in 1 .. Len(ns) : ms[k] = ns[k])
        /\ Len(as) = Len(ns) + 1
    <3>1. w \in Spots
      BY SpotTyped DEF w
    <3>2. Len(as) = Len(ns) + 1
      BY <1>5, <1>11
    <3>3. Len(ms) = Len(ns) + 1 /\ ms[Len(ns) + 1] = w /\ \A k \in 1 .. Len(ns) : ms[k] = ns[k]
      BY <1>1, <1>11, <3>1, PlacesTyped
    <3> QED BY <3>2, <3>3
  <2>1. Len(as) = IF q.pending_anchor THEN Len(ms) + 1 ELSE Len(ms)
    BY <1>9, <1>11, <2>0
  <2>2. ASSUME NEW k \in DOMAIN as, NEW i \in 1 .. n + 1, us[i].type \in Leaves,
               Before(as[k], Spot(us[i])), k <= Len(ms) => Before(Spot(us[i]), ms[k])
        PROVE  FALSE
    <3>0. k \in 1 .. Len(ms) /\ Before(Spot(us[i]), ms[k])
      BY <1>9, <2>0, <2>2
    <3>1. CASE i \in 1 .. n
      <4>1. us[i] = ts[i]
        BY <1>3, <3>1
      <4>2. k <= Len(ns) => ms[k] = ns[k]
        BY <1>9, <2>0, <3>0
      <4> QED BY <1>5, <2>2, <3>0, <3>1, <4>1, <4>2
    <3>2. CASE i = n + 1
      <4>1. us[i] = t
        BY <1>3, <3>2
      <4>2. CASE k = Len(ns) + 1
        BY <1>7, <2>0, <3>0, <4>1, <4>2 DEF w
      <4>3. CASE k \in 1 .. Len(ns)
        <5>1. PICK j \in 1 .. n : ms[k] = Spot(ts[j])
          BY <1>5, <1>9, <2>0, <4>3
        <5>2. Before(Spot(t), Spot(ts[j]))
          BY <3>0, <4>1, <5>1
        <5> QED BY <1>6, <2>2, <4>1, <5>2
      <4> QED BY <1>9, <2>0, <3>0, <4>2, <4>3
    <3> QED BY <1>3, <3>1, <3>2
  <2>3. \A k \in DOMAIN ms : \E i \in 1 .. n + 1 : ms[k] = Spot(us[i])
    <3> SUFFICES ASSUME NEW k \in 1 .. Len(ms) PROVE \E i \in 1 .. n + 1 : ms[k] = Spot(us[i])
      BY <1>9
    <3>1. CASE k = Len(ns) + 1
      <4>1. n + 1 \in 1 .. n + 1 /\ ms[k] = Spot(us[n + 1])
        BY <1>3, <2>0, <3>1 DEF w
      <4> QED BY <4>1
    <3>2. CASE k \in 1 .. Len(ns)
      <4>1. PICK j \in 1 .. n : ns[k] = Spot(ts[j])
        BY <1>5, <1>9, <3>2
      <4>2. j \in 1 .. n + 1 /\ ms[k] = Spot(us[j])
        BY <1>3, <2>0, <3>2, <4>1
      <4> QED BY <4>2
    <3> QED BY <1>9, <2>0, <3>1, <3>2
  <2>4. /\ Len(Anchors(us))
               = IF q.pending_anchor THEN Len(Nodes(q.events)) + 1 ELSE Len(Nodes(q.events))
        /\ \A k \in DOMAIN Anchors(us), i \in DOMAIN us :
               us[i].type \in Leaves =>
                   ~(/\ Before(Anchors(us)[k], Spot(us[i]))
                     /\ k <= Len(Nodes(q.events)) => Before(Spot(us[i]), Nodes(q.events)[k]))
        /\ \A k \in DOMAIN Nodes(q.events) : \E i \in DOMAIN us : Nodes(q.events)[k] = Spot(us[i])
    BY <1>2, <1>3, <2>1, <2>2, <2>3 DEF ms
  <2> QED BY <2>4 DEF Met, us
<1> QED BY <1>8, <1>10, <1>11

\* An anchor, if none waits: it waits.
LEMMA MetAnchor ==
    ASSUME NEW ts \in Seq(Tokens), NEW t \in Tokens, InOrder(ts, t), t.type = "Anchor",
           NEW events \in Seq(Events), Met(ts, events, FALSE)
    PROVE  Met(Append(ts, t), events, TRUE)
<1> DEFINE as == Anchors(ts)
           us == Append(ts, t)
           bs == Anchors(us)
           ns == Nodes(events)
           n == Len(ts)
           w == Spot(t)
<1>1. as \in Seq(Spots) /\ ns \in Seq(Spots) /\ w \in Spots
  BY AnchorsTyped, NodesTyped, SpotTyped
<1>2. bs = Append(as, w)
  BY AnchorsAppend
<1>3. /\ n \in Nat /\ DOMAIN ts = 1 .. n /\ DOMAIN us = 1 .. n + 1 /\ us[n + 1] = t
      /\ \A i \in 1 .. n : us[i] = ts[i]
  OBVIOUS
<1>4. /\ Len(as) = Len(ns) /\ Len(as) \in Nat
      /\ \A k \in DOMAIN as, i \in 1 .. n :
             ts[i].type \in Leaves =>
                 ~(/\ Before(as[k], Spot(ts[i]))
                   /\ k <= Len(ns) => Before(Spot(ts[i]), ns[k]))
      /\ \A k \in DOMAIN ns : \E i \in 1 .. n : ns[k] = Spot(ts[i])
  <2>1. /\ Len(as) = Len(ns)
        /\ \A k \in DOMAIN as, i \in 1 .. n :
               ts[i].type \in Leaves =>
                   ~(/\ Before(as[k], Spot(ts[i]))
                     /\ k <= Len(ns) => Before(Spot(ts[i]), ns[k]))
        /\ \A k \in DOMAIN ns : \E i \in 1 .. n : ns[k] = Spot(ts[i])
    BY <1>3 DEF Met
  <2> HIDE DEF as, ns, n
  <2>2. Len(as) \in Nat /\ Len(ns) \in Nat
    BY <1>1, PlacesTyped
  <2>3. Len(as) = Len(ns)
    BY <2>1, <2>2
  <2> QED BY <2>1, <2>2, <2>3
<1>5. \A i \in 1 .. n : ~Before(w, Spot(ts[i]))
  BY <1>3 DEF InOrder, Named
<1>6. t.type \notin Leaves
  BY DEF Leaves
<1> HIDE DEF as, bs, ns, us, n, w
<1>7. /\ Len(bs) = Len(as) + 1 /\ DOMAIN bs = 1 .. Len(as) + 1 /\ DOMAIN as = 1 .. Len(as)
      /\ bs[Len(as) + 1] = w /\ \A k \in 1 .. Len(as) : bs[k] = as[k]
  BY <1>1, <1>2, PlacesTyped
<1>8. ASSUME NEW k \in DOMAIN bs, NEW i \in 1 .. n + 1, us[i].type \in Leaves,
             Before(bs[k], Spot(us[i])), k <= Len(ns) => Before(Spot(us[i]), ns[k])
      PROVE  FALSE
  <2>1. i \in 1 .. n /\ us[i] = ts[i]
    BY <1>3, <1>6, <1>8
  <2>2. CASE k = Len(as) + 1
    BY <1>5, <1>7, <1>8, <2>1, <2>2
  <2>3. CASE k \in 1 .. Len(as)
    BY <1>4, <1>7, <1>8, <2>1, <2>3
  <2> QED BY <1>4, <1>7, <2>2, <2>3
<1>9. ASSUME NEW k \in DOMAIN ns PROVE \E i \in 1 .. n + 1 : ns[k] = Spot(us[i])
  <2>1. PICK j \in 1 .. n : ns[k] = Spot(ts[j])
    BY <1>4
  <2>2. j \in 1 .. n + 1 /\ us[j] = ts[j]
    BY <1>3
  <2> QED BY <2>1, <2>2
<1>10. /\ Len(Anchors(us)) = Len(Nodes(events)) + 1
       /\ \A k \in DOMAIN Anchors(us), i \in DOMAIN us :
              us[i].type \in Leaves =>
                  ~(/\ Before(Anchors(us)[k], Spot(us[i]))
                    /\ k <= Len(Nodes(events)) => Before(Spot(us[i]), Nodes(events)[k]))
       /\ \A k \in DOMAIN Nodes(events) : \E i \in DOMAIN us : Nodes(events)[k] = Spot(us[i])
  BY <1>3, <1>4, <1>7, <1>8, <1>9 DEF ns, bs
<1> QED BY <1>10 DEF Met, us

-----------------------------------------------------------------------------
(***************************************************************************)
(* The invariant.  Scanner and parser agree where the stream starts and    *)
(* ends; before a document no bracket is open, so that none can close; the *)
(* words of the tokens taken are the words of the events made, and their   *)
(* anchors have met their nodes, but for one that waits; and an eager      *)
(* parser that has handed out an event makes no more.                      *)
(***************************************************************************)
ParserInv ==
    /\ Shaped(parser)
    /\ (parser.state = "StreamStart") = (parser.token_index = 0)
    /\ parser.state = "StreamEnd" =>
           parser.token_index = Len(tokens) /\ scanning = "done" /\ ~parser.failed
    /\ parser.state = "ImplicitDocumentStart" /\ ~parser.failed =>
           Depth(tokens, parser.token_index) = 0
    /\ ~parser.failed =>
           WordsRead(SubSeq(tokens, 1, parser.token_index)) = Words(parser.events)
    /\ ~parser.failed =>
           Met(SubSeq(tokens, 1, parser.token_index), parser.events, parser.pending_anchor)

ConsumerInv ==
    /\ EagerDeliversOnce
    /\ ~lazy /\ parser.event_index # 0 => parser.failed \/ parser.state = "StreamEnd"

FrontInv == TypeOK /\ OrderInv /\ IndentsAccounted /\ BracketInv /\ ParserInv /\ ConsumerInv

\* A step that leaves the scanner leaves its invariants.
LEMMA ScannerStands ==
    ASSUME ScannerTypeOK, OrderInv, IndentsAccounted, BracketInv, UNCHANGED scanner
    PROVE  /\ ScannerTypeOK' /\ OrderInv' /\ IndentsAccounted' /\ BracketInv'
           /\ tokens' = tokens /\ scanning' = scanning
<1>1. ScannerTypeOK' /\ tokens' = tokens /\ scanning' = scanning
  BY DEF ScannerTypeOK, scanner, position, indents
<1>2. IndentsAccounted'
  BY DEF IndentsAccounted, scanner, position, indents, Count
<1>3. BracketInv'
  BY <1>1 DEF BracketInv, BracketsAccounted, StreamFramed, scanner, position, indents
<1>4. OrderInv'
  BY OrderStepInv
<1> QED BY <1>1, <1>2, <1>3, <1>4

\* What is known of the token to take.
LEMMA TokenToTake ==
    ASSUME FrontInv, Pending
    PROVE  /\ parser.token_index \in Nat /\ parser.token_index + 1 \in DOMAIN tokens
           /\ parser.token_index + 1 <= Len(tokens) /\ token \in Tokens /\ ~parser.failed
           /\ (token.type = "StreamStart") = (parser.token_index = 0)
           /\ token.type = "StreamEnd" => parser.token_index + 1 = Len(tokens) /\ scanning = "done"
           /\ token.type \in Boundary => Depth(tokens, parser.token_index + 1) = 0
           /\ token.type \notin FlowStarts \cup FlowEnds =>
                  Depth(tokens, parser.token_index + 1) = Depth(tokens, parser.token_index)
           /\ token.type \in FlowEnds => Depth(tokens, parser.token_index) # 0
           /\ SubSeq(tokens, 1, parser.token_index + 1)
                  = Append(SubSeq(tokens, 1, parser.token_index), token)
           /\ SubSeq(tokens, 1, parser.token_index) \in Seq(Tokens)
<1> DEFINE n == parser.token_index
           m == Len(tokens)
<1>1. n \in Nat /\ tokens \in Seq(Tokens) /\ m \in Nat /\ n < m /\ ~parser.failed /\ token = tokens[n + 1]
  <2>1. parser \in Parsers /\ tokens \in Seq(Tokens)
    BY DEF FrontInv, TypeOK, ScannerTypeOK
  <2> QED BY <2>1 DEF Parsers, Pending, token
<1> HIDE DEF n
<1>2. n + 1 \in DOMAIN tokens /\ n + 1 <= m /\ token \in Tokens /\ n + 1 \in 1 .. m
  BY <1>1
<1>3. /\ (token.type = "StreamStart") = (n = 0)
      /\ token.type = "StreamEnd" => n + 1 = m /\ scanning = "done"
  BY <1>1, <1>2 DEF FrontInv, BracketInv, StreamFramed
<1>4. /\ Depth(tokens, n + 1) >= 0
      /\ token.type \in Boundary => Depth(tokens, n + 1) = 0
  <2>1. Bracketed(tokens, flow_level)
    BY BracketsByDepth DEF FrontInv, BracketInv
  <2> QED BY <1>1, <1>2, <2>1 DEF Bracketed
<1>5. Depth(tokens, n + 1) = Depth(tokens, n) + Turn(token) /\ Depth(tokens, n) \in Int
  BY <1>1, DepthNext, DepthTyped
<1>6. token.type \notin FlowStarts \cup FlowEnds => Depth(tokens, n + 1) = Depth(tokens, n)
  BY <1>5 DEF Turn
<1>7. token.type \in FlowEnds => Depth(tokens, n) # 0
  <2>1. token.type \in FlowEnds => Turn(token) = 0 - 1
    BY DEF Turn, FlowStarts, FlowEnds
  <2> QED BY <1>4, <1>5, <2>1
<1>8. SubSeq(tokens, 1, n + 1) = Append(SubSeq(tokens, 1, n), token) /\ SubSeq(tokens, 1, n) \in Seq(Tokens)
  <2>1. SubSeq(tokens, 1, n) \in Seq(Tokens) /\ SubSeq(tokens, 1, n + 1) \in Seq(Tokens)
    BY <1>1
  <2>2. SubSeq(tokens, 1, n + 1) = SubSeq(tokens, 1, (n + 1) - 1) \o <<tokens[n + 1]>>
    <3>1. 1 \in 1 .. Len(tokens) /\ n + 1 \in 1 .. Len(tokens)
      BY <1>1, <1>2
    <3> QED BY <1>1, <3>1, SubSeqRecursiveSecond
  <2>3. (n + 1) - 1 = n
    BY <1>1
  <2>4. SubSeq(tokens, 1, n) \o <<token>> = Append(SubSeq(tokens, 1, n), token)
    BY <1>2, <2>1, AppendIsConcat
  <2> QED BY <1>1, <2>1, <2>2, <2>3, <2>4
<1> QED BY <1>1, <1>2, <1>3, <1>4, <1>6, <1>7, <1>8 DEF n

\* The scanner's tokens are in order.
LEMMA TakenInOrder ==
    ASSUME FrontInv, Pending
    PROVE  InOrder(SubSeq(tokens, 1, parser.token_index), token)
<1> DEFINE n == parser.token_index
           ts == SubSeq(tokens, 1, n)
<1>1. n \in Nat /\ n + 1 \in DOMAIN tokens /\ n + 1 <= Len(tokens) /\ token = tokens[n + 1]
  BY TokenToTake DEF token
<1>2. tokens \in Seq(Tokens)
  BY DEF FrontInv, TypeOK, ScannerTypeOK
<1>3. DOMAIN ts = 1 .. n /\ \A i \in 1 .. n : ts[i] = tokens[i]
  BY <1>1, <1>2
<1>4. token.type \in Named => \A i \in 1 .. n : ~Before(Spot(token), Spot(tokens[i]))
  <2>1. (n + 1) - 1 = n
    BY <1>1
  <2> QED BY <1>1, <2>1 DEF FrontInv, OrderInv, Sorted
<1> HIDE DEF ts, n
<1>5. InOrder(ts, token)
  BY <1>3, <1>4 DEF InOrder
<1> QED BY <1>5 DEF ts, n

\* A token taken that is no anchor.
LEMMA NextMeets ==
    ASSUME FrontInv, Pending, token.type # "Anchor", NEW q \in Parsers, Hands(parser, q, token),
           token.type \in Leaves => ~q.pending_anchor
    PROVE  Met(SubSeq(tokens, 1, parser.token_index + 1), q.events, q.pending_anchor)
<1> DEFINE ts == SubSeq(tokens, 1, parser.token_index)
<1>1. /\ ts \in Seq(Tokens) /\ token \in Tokens /\ ~parser.failed
      /\ SubSeq(tokens, 1, parser.token_index + 1) = Append(ts, token)
  BY TokenToTake
<1>2. parser \in Parsers /\ Met(ts, parser.events, parser.pending_anchor)
  BY <1>1 DEF FrontInv, TypeOK, ParserInv
<1>3. InOrder(ts, token)
  BY TakenInOrder
<1> HIDE DEF ts
<1>4. Met(Append(ts, token), q.events, q.pending_anchor)
  BY <1>1, <1>2, <1>3, MetNext
<1> QED BY <1>1, <1>4

\* An anchor taken while none waits.
LEMMA AnchorTaken ==
    ASSUME FrontInv, Pending, token.type = "Anchor", ~parser.pending_anchor
    PROVE  Met(SubSeq(tokens, 1, parser.token_index + 1), parser.events, TRUE)
<1> DEFINE ts == SubSeq(tokens, 1, parser.token_index)
<1>1. /\ ts \in Seq(Tokens) /\ token \in Tokens /\ ~parser.failed
      /\ SubSeq(tokens, 1, parser.token_index + 1) = Append(ts, token)
  BY TokenToTake
<1>2. parser.events \in Seq(Events) /\ Met(ts, parser.events, FALSE)
  <2>1. parser \in Parsers /\ parser.pending_anchor = FALSE
    <3>1. parser \in Parsers
      BY DEF FrontInv, TypeOK
    <3> QED BY <3>1 DEF Parsers
  <2>2. Met(ts, parser.events, parser.pending_anchor)
    BY <1>1 DEF FrontInv, ParserInv
  <2> QED BY <2>1, <2>2, EventsTyped
<1>3. InOrder(ts, token)
  BY TakenInOrder
<1> HIDE DEF ts
<1>4. Met(Append(ts, token), parser.events, TRUE)
  BY <1>1, <1>2, <1>3, MetAnchor
<1> QED BY <1>1, <1>4

\* A token other than the first finds a document, or the place where one may begin.
LEMMA ReadyForToken ==
    ASSUME FrontInv, Pending, token.type # "StreamStart"
    PROVE  /\ Ready(parser) /\ parser.state \notin {"StreamStart", "StreamEnd"}
           /\ parser.state = "ImplicitDocumentStart" => Depth(tokens, parser.token_index) = 0
           /\ parser.state # "ImplicitDocumentStart" => parser.state \in Inner
<1>1. Shaped(parser) /\ parser.state \in ParserStates /\ parser \in Parsers
  <2>1. Shaped(parser) /\ parser \in Parsers
    BY DEF FrontInv, ParserInv, Shaped
  <2> QED BY <2>1 DEF Parsers
<1>2. parser.state # "StreamStart" /\ parser.state # "StreamEnd" /\ ~parser.failed
  <2>1. parser.token_index # 0 /\ ~parser.failed
    BY TokenToTake
  <2>2. parser.token_index # Len(tokens)
    <3>1. Len(tokens) \in Nat /\ parser.token_index \in Nat /\ parser.token_index < Len(tokens)
      <4>1. tokens \in Seq(Tokens)
        BY DEF FrontInv, TypeOK, ScannerTypeOK
      <4>2. parser.token_index \in Nat
        BY <1>1 DEF Parsers
      <4> QED BY <4>1, <4>2 DEF Pending
    <3> QED BY <3>1
  <2> QED BY <2>1, <2>2 DEF FrontInv, ParserInv
<1>3. parser.state # "ImplicitDocumentStart" => parser.state \in Inner
  BY <1>1, <1>2 DEF Inner, Outside
<1>4. Ready(parser)
  BY <1>1, <1>2, <1>3 DEF Ready, Shaped, Outside, Inner
<1> QED BY <1>2, <1>3, <1>4 DEF FrontInv, ParserInv

\* While an eager parser takes tokens, nothing has been handed out.
LEMMA NothingHandedOut ==
    ASSUME FrontInv, Pending, ~lazy
    PROVE  parser.event_index = 0 /\ delivered = <<>> /\ ~parser.failed /\ parser.state # "StreamEnd"
<1>1. ~parser.failed
  BY TokenToTake
<1>2. parser.state # "StreamEnd"
  <2>1. CASE token.type = "StreamStart"
    <3>1. parser.token_index = 0
      BY <2>1, TokenToTake
    <3> QED BY <3>1 DEF FrontInv, ParserInv
  <2>2. CASE token.type # "StreamStart"
    BY <2>2, ReadyForToken
  <2> QED BY <2>1, <2>2
<1>3. parser.event_index = 0
  BY <1>1, <1>2 DEF FrontInv, ConsumerInv
<1>4. delivered = SubSeq(parser.events, 1, 0)
  BY <1>3 DEF FrontInv, ConsumerInv, EagerDeliversOnce, DeliveredOnce
<1>5. SubSeq(parser.events, 1, 0) = <<>>
  <2>1. parser.events \in Seq(Events)
    BY DEF FrontInv, TypeOK, Parsers
  <2> QED BY <2>1
<1> QED BY <1>1, <1>2, <1>3, <1>4, <1>5

\* A step that hands nothing out, taken while nothing is handed out, leaves it so.
LEMMA NothingStaysHandedOut ==
    ASSUME NEW q \in Parsers, parser' = q, lazy' = lazy, delivered' = delivered,
           ~lazy => q.event_index = 0 /\ delivered = <<>>
    PROVE  ConsumerInv'
<1>1. ~lazy => SubSeq(q.events, 1, 0) = <<>>
  <2>1. q.events \in Seq(Events)
    BY DEF Parsers
  <2> QED BY <2>1
<1> QED BY <1>1 DEF ConsumerInv, EagerDeliversOnce, DeliveredOnce

\* What an arm leaves, with the token counted.
LEMMA ArmKeeps ==
    ASSUME FrontInv, Pending, UNCHANGED <<scanner, lazy, delivered>>,
           NEW q, Shaped(q), Becomes(q), Len(q.events) >= Len(parser.events),
           q.token_index = parser.token_index, q.event_index = parser.event_index,
           q.failed = parser.failed,
           Met(SubSeq(tokens, 1, parser.token_index + 1), q.events, q.pending_anchor),
           Words(q.events) = IF token.type \in Leaves THEN Append(Words(parser.events), Place(token))
                             ELSE Words(parser.events),
           q.state # "StreamStart",
           q.state = "StreamEnd" => token.type = "StreamEnd",
           q.state = "ImplicitDocumentStart" => Depth(tokens, parser.token_index + 1) = 0
    PROVE  FrontInv'
<1> DEFINE n == parser.token_index
           last == IF ReturnsEarly(parser, token) THEN q.last_token_type ELSE token.type
<1>1. /\ n \in Nat /\ n + 1 \in DOMAIN tokens /\ n + 1 <= Len(tokens) /\ token \in Tokens
      /\ ~parser.failed
      /\ token.type = "StreamEnd" => n + 1 = Len(tokens) /\ scanning = "done"
      /\ SubSeq(tokens, 1, n + 1) = Append(SubSeq(tokens, 1, n), token)
      /\ SubSeq(tokens, 1, n) \in Seq(Tokens)
  BY TokenToTake
<1>2. /\ ScannerTypeOK' /\ OrderInv' /\ IndentsAccounted' /\ BracketInv' /\ tokens' = tokens
      /\ scanning' = scanning /\ lazy' = lazy /\ delivered' = delivered
  BY ScannerStands DEF FrontInv, TypeOK
<1>3. q \in Parsers /\ last \in TokenTypes \cup {"None"}
  <2>1. q \in Parsers
    BY DEF Shaped
  <2>2. token.type \in TokenTypes
    BY <1>1 DEF Tokens
  <2>3. q.last_token_type \in TokenTypes \cup {"None"}
    BY <2>1 DEF Parsers
  <2> QED BY <2>1, <2>2, <2>3
<1>4. parser' = [q EXCEPT !.token_index = @ + 1, !.last_token_type = last]
  BY DEF Becomes
<1> HIDE DEF n, last
<1>5. /\ parser' \in Parsers /\ parser'.events = q.events /\ parser'.state = q.state
      /\ parser'.state_stack = q.state_stack /\ parser'.token_index = n + 1
      /\ parser'.event_index = parser.event_index /\ ~parser'.failed
      /\ parser'.pending_anchor = q.pending_anchor
  <2>1. q.token_index = n /\ n + 1 \in Nat /\ q.event_index = parser.event_index /\ ~q.failed
    BY <1>1 DEF n
  <2> QED BY <1>3, <1>4, <2>1 DEF Parsers
<1>6. TypeOK'
  <2>1. parser'.event_index <= Len(parser'.events)
    <3>1. /\ parser.event_index <= Len(parser.events) /\ parser.event_index \in Nat
          /\ Len(parser.events) \in Nat /\ Len(q.events) \in Nat
      <4>1. parser \in Parsers /\ parser.event_index <= Len(parser.events)
        BY DEF FrontInv, TypeOK
      <4>2. parser.event_index \in Nat
        BY <4>1 DEF Parsers
      <4> QED BY <1>3, <4>1, <4>2, EventsTyped
    <3> DEFINE i == parser.event_index
               j == Len(parser.events)
               k == Len(q.events)
    <3>2. i <= j /\ j <= k /\ i \in Nat /\ j \in Nat /\ k \in Nat
      BY <3>1
    <3> HIDE DEF i, j, k
    <3>3. i <= k
      BY <3>2
    <3> QED BY <1>5, <3>3 DEF i, k
  <2> QED BY <1>1, <1>2, <1>5, <2>1 DEF TypeOK, FrontInv
<1>7. ParserInv'
  <2>1. Shaped(parser)'
    BY <1>5 DEF Shaped
  <2>2. (parser'.state = "StreamStart") = (parser'.token_index = 0)
    BY <1>1, <1>5
  <2>3. parser'.state = "StreamEnd" =>
            parser'.token_index = Len(tokens') /\ scanning' = "done" /\ ~parser'.failed
    BY <1>1, <1>2, <1>5
  <2>4. parser'.state = "ImplicitDocumentStart" => Depth(tokens', parser'.token_index) = 0
    BY <1>2, <1>5 DEF n
  <2>5. WordsRead(SubSeq(tokens', 1, parser'.token_index)) = Words(parser'.events)
    <3>1. WordsRead(SubSeq(tokens, 1, n)) = Words(parser.events)
      BY <1>1 DEF FrontInv, ParserInv, n
    <3>2. WordsRead(SubSeq(tokens, 1, n + 1)) = IF token.type \in Leaves
              THEN Append(WordsRead(SubSeq(tokens, 1, n)), Place(token))
              ELSE WordsRead(SubSeq(tokens, 1, n))
      BY <1>1, WordsReadAppend
    <3> QED BY <1>2, <1>5, <3>1, <3>2
  <2>6. Met(SubSeq(tokens', 1, parser'.token_index), parser'.events, parser'.pending_anchor)
    BY <1>2, <1>5 DEF n
  <2> QED BY <2>1, <2>2, <2>3, <2>4, <2>5, <2>6 DEF ParserInv
<1>8. ConsumerInv'
  BY <1>2, <1>5, NothingHandedOut, NothingStaysHandedOut
<1> QED BY <1>2, <1>6, <1>7, <1>8 DEF FrontInv

\* An arm that arrives in a document, with no word, keeps the invariant.
LEMMA ArriveKeeps ==
    ASSUME FrontInv, Pending, UNCHANGED <<scanner, lazy, delivered>>,
           token.type \notin Leaves \cup {"Anchor"}, NEW q, Arrives(parser, q, token), Becomes(q)
    PROVE  FrontInv'
<1>1. q.state # "StreamStart" /\ q.state # "StreamEnd" /\ q.state # "ImplicitDocumentStart"
  BY DEF Arrives, Inner, Outside
<1>2. Shaped(q)
  BY DEF Arrives, Inside, Shaped, Inner
<1>3. Met(SubSeq(tokens, 1, parser.token_index + 1), q.events, q.pending_anchor)
  BY NextMeets DEF Arrives, Inside, Same
<1> QED BY <1>1, <1>2, <1>3, ArmKeeps DEF Arrives, Same

\* An arm that takes a word keeps the invariant: it counts a word read and a word made.
LEMMA WordKeeps ==
    ASSUME FrontInv, Pending, UNCHANGED <<scanner, lazy, delivered>>,
           token.type \in Leaves, token.type = "Alias" => ~parser.pending_anchor,
           NEW q, SameAndWord(parser, q, token), Becomes(q)
    PROVE  FrontInv'
<1>1. q.state # "StreamStart" /\ q.state # "StreamEnd" /\ q.state # "ImplicitDocumentStart"
  BY DEF SameAndWord, Inner, Outside
<1>2. Shaped(q)
  BY DEF SameAndWord, Inside, Shaped, Inner
<1>3. q \in Parsers /\ Hands(parser, q, token) /\ ~q.pending_anchor
  <2>1. q \in Parsers /\ Hands(parser, q, token) /\ (token.type = "Scalar" => ~q.pending_anchor)
    BY DEF SameAndWord, Inside
  <2>2. token.type = "Alias" => ~q.pending_anchor
    BY <2>1 DEF Hands
  <2> QED BY <2>1, <2>2 DEF Leaves
<1>4. Met(SubSeq(tokens, 1, parser.token_index + 1), q.events, q.pending_anchor)
  <2>1. token.type # "Anchor"
    BY DEF Leaves
  <2> QED BY <1>3, <2>1, NextMeets
<1> QED BY <1>1, <1>2, <1>4, ArmKeeps DEF SameAndWord

\* An arm at a border of a document keeps the invariant.
LEMMA MoveKeeps ==
    ASSUME FrontInv, Pending, UNCHANGED <<scanner, lazy, delivered>>,
           token.type \notin Leaves \cup {"Anchor"}, NEW q, Moves(parser, q, token), Becomes(q),
           q.state # "StreamStart",
           q.state = "StreamEnd" => token.type = "StreamEnd",
           q.state = "ImplicitDocumentStart" => token.type \in Boundary
    PROVE  FrontInv'
<1>1. q.state = "ImplicitDocumentStart" => Depth(tokens, parser.token_index + 1) = 0
  BY TokenToTake
<1>2. Met(SubSeq(tokens, 1, parser.token_index + 1), q.events, q.pending_anchor)
  BY NextMeets DEF Moves, Shaped, Same
<1> QED BY <1>1, <1>2, ArmKeeps DEF Moves, Same

\* Tokens that leave state and events alone; an anchor waits from now on.
LEMMA WaitKeeps ==
    ASSUME FrontInv, Pending, UNCHANGED <<scanner, lazy, delivered>>,
           token.type \notin Leaves \cup FlowStarts \cup FlowEnds \cup {"StreamStart"},
           NEW q \in Parsers, q.events = parser.events, q.state = parser.state,
           q.state_stack = parser.state_stack, q.token_index = parser.token_index,
           q.event_index = parser.event_index, q.failed = parser.failed, Becomes(q),
           \/ token.type # "Anchor" /\ q.pending_anchor = parser.pending_anchor
           \/ token.type = "Anchor" /\ ~parser.pending_anchor /\ q.pending_anchor
    PROVE  FrontInv'
<1>1. Shaped(q)
  BY DEF FrontInv, ParserInv, Shaped
<1>2. parser.state \notin {"StreamStart", "StreamEnd"}
      /\ (parser.state = "ImplicitDocumentStart" => Depth(tokens, parser.token_index) = 0)
  BY ReadyForToken
<1>3. Depth(tokens, parser.token_index + 1) = Depth(tokens, parser.token_index)
  BY TokenToTake
<1>4. Len(q.events) >= Len(parser.events)
  <2>1. Len(q.events) \in Nat
    BY EventsTyped
  <2> QED BY <2>1
<1>5. Met(SubSeq(tokens, 1, parser.token_index + 1), q.events, q.pending_anchor)
  <2>1. CASE token.type # "Anchor"
    BY <2>1, NextMeets DEF Hands
  <2>2. CASE token.type = "Anchor"
    <3>1. q.pending_anchor = TRUE
      BY <2>2 DEF Parsers
    <3> QED BY <2>2, <3>1, AnchorTaken
  <2> QED BY <2>1, <2>2
<1> QED BY <1>1, <1>2, <1>3, <1>4, <1>5, ArmKeeps

-----------------------------------------------------------------------------
(***************************************************************************)
(* The steps of process_token.                                             *)
(***************************************************************************)
LEMMA BorderArms ==
    ASSUME FrontInv, UNCHANGED <<scanner, lazy, delivered>>,
           StreamStart \/ StreamEnd \/ DocumentStart \/ DocumentEnd \/ YamlDirective
    PROVE  FrontInv'
<1>1. Pending /\ token \in Tokens
  <2>1. Pending
    BY DEF StreamStart, StreamEnd, DocumentStart, DocumentEnd, YamlDirective, Takes
  <2> QED BY <2>1, TokenToTake
<1>2. Shaped(parser)
  BY DEF FrontInv, ParserInv
<1>3. CASE StreamStart
  <2>1. token.type = "StreamStart" /\ Becomes(OnStreamStart(parser, token))
    BY <1>3 DEF StreamStart, Takes
  <2>2. parser.state = "StreamStart"
    <3>1. parser.token_index = 0
      BY <1>1, <2>1, TokenToTake
    <3> QED BY <3>1 DEF FrontInv, ParserInv
  <2> DEFINE q == OnStreamStart(parser, token)
  <2> HIDE DEF q
  <2>3. Moves(parser, q, token) /\ q.state = "ImplicitDocumentStart"
    BY <1>1, <1>2, <2>2, StreamStartLeaves DEF q
  <2>4. Becomes(q) /\ token.type \notin Leaves \cup {"Anchor"} /\ token.type \in Boundary
    BY <2>1 DEF Leaves, Boundary, q
  <2> QED BY <1>1, <2>3, <2>4, MoveKeeps
<1>4. CASE StreamEnd
  <2>1. token.type = "StreamEnd" /\ Becomes(OnStreamEnd(parser, token))
    BY <1>4 DEF StreamEnd, Takes
  <2> DEFINE q == OnStreamEnd(parser, token)
  <2> HIDE DEF q
  <2>2. Moves(parser, q, token) /\ q.state = "StreamEnd"
    BY <1>1, <1>2, StreamEndLeaves DEF q
  <2>3. Becomes(q) /\ token.type \notin Leaves \cup {"Anchor"}
    BY <2>1 DEF Leaves, q
  <2> QED BY <1>1, <2>1, <2>2, <2>3, MoveKeeps
<1>5. CASE DocumentStart
  <2>1. token.type = "DocumentStart" /\ Becomes(OnDocumentStart(parser, token))
    BY <1>5 DEF DocumentStart, Takes
  <2> DEFINE q == OnDocumentStart(parser, token)
  <2> HIDE DEF q
  <2>2. Moves(parser, q, token) /\ q.state = "DocumentStart"
    BY <1>1, <1>2, DocumentStartLeaves DEF q
  <2>3. Becomes(q) /\ token.type \notin Leaves \cup {"Anchor"}
    BY <2>1 DEF Leaves, q
  <2> QED BY <1>1, <2>2, <2>3, MoveKeeps
<1>6. CASE DocumentEnd
  <2>1. token.type = "DocumentEnd" /\ Becomes(OnDocumentEnd(parser, token))
    BY <1>6 DEF DocumentEnd, Takes
  <2> DEFINE q == OnDocumentEnd(parser, token)
  <2> HIDE DEF q
  <2>2. Moves(parser, q, token) /\ q.state = "ImplicitDocumentStart"
    BY <1>1, <1>2, DocumentEndLeaves DEF q
  <2>3. Becomes(q) /\ token.type \notin Leaves \cup {"Anchor"} /\ token.type \in Boundary
    BY <2>1 DEF Leaves, Boundary, q
  <2> QED BY <1>1, <2>2, <2>3, MoveKeeps
<1>7. CASE YamlDirective
  <2>1. token.type = "YamlDirective" /\ Becomes(OnYamlDirective(parser, token))
    BY <1>7 DEF YamlDirective, Takes
  <2> DEFINE q == OnYamlDirective(parser, token)
  <2>2. /\ q \in Parsers /\ q.events = parser.events /\ q.state = parser.state
        /\ q.state_stack = parser.state_stack /\ q.token_index = parser.token_index
        /\ q.event_index = parser.event_index /\ q.failed = parser.failed
        /\ q.pending_anchor = parser.pending_anchor
    BY <1>2 DEF OnYamlDirective, Shaped, Parsers
  <2>3. /\ Becomes(q) /\ token.type # "Anchor"
        /\ token.type \notin Leaves \cup FlowStarts \cup FlowEnds \cup {"StreamStart"}
    BY <2>1 DEF Leaves, FlowStarts, FlowEnds
  <2> HIDE DEF q
  <2> QED BY <1>1, <2>2, <2>3, WaitKeeps
<1> QED BY <1>3, <1>4, <1>5, <1>6, <1>7

\* The arms that start and continue collections keep the invariant.
LEMMA StartArms ==
    ASSUME FrontInv, UNCHANGED <<scanner, lazy, delivered>>,
           BlockSequenceStart \/ BlockMappingStart \/ BlockEntry \/ FlowStart \/ Key \/ Value
    PROVE  FrontInv'
<1>1. Pending /\ token \in Tokens
  <2>1. Pending
    BY DEF BlockSequenceStart, BlockMappingStart, BlockEntry, FlowStart, Key, Value, Takes
  <2> QED BY <2>1, TokenToTake
<1>2. token.type \notin Leaves \cup {"StreamStart", "Anchor"}
  BY DEF BlockSequenceStart, BlockMappingStart, BlockEntry, FlowStart, Key, Value, Takes, Leaves
<1>3. Ready(parser)
  BY <1>1, <1>2, ReadyForToken
<1>4. PICK q : Becomes(q) /\ q \in {OnBlockSequenceStart(parser, token), OnBlockMappingStart(parser, token),
                                   OnBlockEntry(parser, token), OnFlowStart(parser, token),
                                   OnKey(parser, token), OnValue(parser, token)}
  BY DEF BlockSequenceStart, BlockMappingStart, BlockEntry, FlowStart, Key, Value
<1>5. Arrives(parser, q, token)
  BY <1>1, <1>3, <1>4, BlockSequenceStartArrives, BlockMappingStartArrives, BlockEntryArrives,
     FlowStartArrives, KeyArrives, ValueArrives
<1> QED BY <1>1, <1>2, <1>4, <1>5, ArriveKeeps

\* The arms that take a word keep the invariant.
LEMMA WordArms ==
    ASSUME FrontInv, UNCHANGED <<scanner, lazy, delivered>>, Scalar \/ Alias
    PROVE  FrontInv'
<1>1. Pending /\ token \in Tokens
  <2>1. Pending
    BY DEF Scalar, Alias, Takes
  <2> QED BY <2>1, TokenToTake
<1>2. token.type \in Leaves /\ token.type # "StreamStart"
  BY DEF Scalar, Alias, Takes, Leaves
<1>3. Ready(parser)
  BY <1>1, <1>2, ReadyForToken
<1>4. CASE Scalar
  <2>1. token.type = "Scalar" /\ Becomes(OnScalar(parser, token))
    BY <1>4 DEF Scalar, Takes
  <2>2. SameAndWord(parser, OnScalar(parser, token), token)
    BY <1>1, <1>3, <2>1, ScalarArrives
  <2> QED BY <1>1, <1>2, <2>1, <2>2, WordKeeps
<1>5. CASE Alias
  <2>1. token.type = "Alias" /\ Becomes(OnAlias(parser, token)) /\ ~parser.pending_anchor
    BY <1>5 DEF Alias, Takes, Refuses, HasProperties
  <2>2. SameAndWord(parser, OnAlias(parser, token), token)
    BY <1>1, <1>3, <2>1, AliasArrives
  <2> QED BY <1>1, <1>2, <2>1, <2>2, WordKeeps
<1> QED BY <1>4, <1>5

\* The arms that take a property keep the invariant: they make no event but may open a
\* document.
LEMMA PropertyArms ==
    ASSUME FrontInv, UNCHANGED <<scanner, lazy, delivered>>, Anchor \/ Tag
    PROVE  FrontInv'
<1>1. Pending /\ token \in Tokens /\ parser \in Parsers
  <2>1. Pending
    BY DEF Anchor, Tag, Takes
  <2> QED BY <2>1, TokenToTake DEF FrontInv, TypeOK
<1>2. token.type \notin Leaves \cup FlowStarts \cup FlowEnds \cup {"StreamStart"}
  BY DEF Anchor, Tag, Takes, Leaves, FlowStarts, FlowEnds
<1>3. PICK q : /\ Becomes(q)
               /\ \/ q = OnTag(parser, token) /\ token.type = "Tag"
                  \/ q = OnAnchor(parser, token) /\ token.type = "Anchor" /\ ~parser.pending_anchor
  BY DEF Anchor, Tag, Takes, Refuses
<1>4. /\ q \in Parsers /\ q.events = parser.events /\ q.state = parser.state
      /\ q.state_stack = parser.state_stack /\ q.token_index = parser.token_index
      /\ q.event_index = parser.event_index /\ q.failed = parser.failed
      /\ \/ token.type # "Anchor" /\ q.pending_anchor = parser.pending_anchor
         \/ token.type = "Anchor" /\ ~parser.pending_anchor /\ q.pending_anchor
  <2>1. CASE q = OnTag(parser, token) /\ token.type = "Tag"
    BY <1>1, <2>1, TagWaits
  <2>2. CASE q = OnAnchor(parser, token) /\ token.type = "Anchor" /\ ~parser.pending_anchor
    BY <1>1, <2>2, AnchorWaits
  <2> QED BY <1>3, <2>1, <2>2
<1> QED BY <1>1, <1>2, <1>3, <1>4, WaitKeeps

\* Before a document no bracket can close, and ends of blocks and commas change nothing.
LEMMA EndArms ==
    ASSUME FrontInv, UNCHANGED <<scanner, lazy, delivered>>,
           BlockEnd \/ FlowSequenceEnd \/ FlowMappingEnd \/ FlowEntry
    PROVE  FrontInv'
<1>1. Pending /\ token \in Tokens
  <2>1. Pending
    BY DEF BlockEnd, FlowSequenceEnd, FlowMappingEnd, FlowEntry, Takes
  <2> QED BY <2>1, TokenToTake
<1>2. token.type \notin Leaves \cup FlowStarts \cup {"StreamStart", "Anchor"}
  BY DEF BlockEnd, FlowSequenceEnd, FlowMappingEnd, FlowEntry, Takes, Leaves, FlowStarts
<1>3. /\ Ready(parser)
      /\ parser.state = "ImplicitDocumentStart" => Depth(tokens, parser.token_index) = 0
      /\ parser.state # "ImplicitDocumentStart" => parser.state \in Inner
  BY <1>1, <1>2, ReadyForToken
<1>4. PICK q : /\ Becomes(q)
               /\ \/ q = OnBlockEnd(parser, token) /\ token.type = "BlockEnd"
                  \/ q = OnFlowEntry(parser, token) /\ token.type = "FlowEntry"
                  \/ /\ q \in {OnFlowSequenceEnd(parser, token), OnFlowMappingEnd(parser, token)}
                     /\ token.type \in FlowEnds
  BY DEF BlockEnd, FlowSequenceEnd, FlowMappingEnd, FlowEntry, Takes, FlowEnds
<1>5. CASE parser.state = "ImplicitDocumentStart"
  <2>1. token.type \notin FlowEnds
    BY <1>1, <1>3, <1>5, TokenToTake
  <2>2. parser.state \notin FlowMappingStates /\ parser \in Parsers
    BY <1>3, <1>5 DEF FlowMappingStates, Ready
  <2>3. OnBlockEnd(parser, token) = parser
    BY <1>1, <1>5, BlockEndSteps
  <2>4. OnFlowEntry(parser, token) = parser
    <3>1. OnFlowEntry(parser, token) = EndPair(parser, token)
      BY <1>1, <2>2, FlowEntrySteps
    <3>2. EndPair(parser, token) = parser
      BY <2>2 DEF EndPair
    <3> QED BY <3>1, <3>2
  <2>5. q = parser
    BY <1>4, <2>1, <2>3, <2>4
  <2> QED BY <1>1, <1>2, <1>4, <2>1, <2>2, <2>5, WaitKeeps
<1>6. CASE parser.state # "ImplicitDocumentStart"
  <2>1. Inside(parser) /\ \A r : Steps(parser, r, token) => Arrives(parser, r, token)
    BY <1>3, <1>6, InnerArrives
  <2>2. Steps(parser, q, token)
    BY <1>1, <1>4, <2>1, BlockEndSteps, FlowEntrySteps, FlowSequenceEndSteps, FlowMappingEndSteps
  <2> QED BY <1>1, <1>2, <1>4, <2>1, <2>2, ArriveKeeps
<1> QED BY <1>5, <1>6

\* A token refused keeps the invariant: events and state stay, and the parser has failed.
LEMMA RefuseArm ==
    ASSUME FrontInv, UNCHANGED <<scanner, lazy, delivered>>, RefuseToken
    PROVE  FrontInv'
<1> DEFINE n == parser.token_index
<1>1. /\ Pending /\ n \in Nat /\ n + 1 <= Len(tokens) /\ token.type # "StreamStart"
      /\ parser' = [parser EXCEPT !.token_index = @ + 1, !.failed = TRUE]
  <2>1. Pending /\ Refuses(parser, token) /\ parser' = [parser EXCEPT !.token_index = @ + 1, !.failed = TRUE]
    BY DEF RefuseToken
  <2>2. token.type # "StreamStart"
    BY <2>1 DEF Refuses
  <2> QED BY <2>1, <2>2, TokenToTake
<1>2. parser \in Parsers /\ parser.state \notin {"StreamStart", "StreamEnd"}
  BY <1>1, ReadyForToken DEF FrontInv, TypeOK
<1> HIDE DEF n
<1>3. /\ parser' \in Parsers /\ parser'.events = parser.events /\ parser'.state = parser.state
      /\ parser'.state_stack = parser.state_stack /\ parser'.token_index = n + 1
      /\ parser'.event_index = parser.event_index /\ parser'.failed
  <2>1. n + 1 \in Nat /\ parser.token_index = n
    BY <1>1 DEF n
  <2> QED BY <1>1, <1>2, <2>1 DEF Parsers
<1>4. /\ ScannerTypeOK' /\ OrderInv' /\ IndentsAccounted' /\ BracketInv' /\ tokens' = tokens
      /\ scanning' = scanning /\ lazy' = lazy /\ delivered' = delivered
  BY ScannerStands DEF FrontInv, TypeOK
<1>5. TypeOK'
  BY <1>1, <1>3, <1>4 DEF TypeOK, FrontInv
<1>6. ParserInv'
  <2>1. Shaped(parser)'
    BY <1>3 DEF FrontInv, ParserInv, Shaped
  <2>2. parser'.state # "StreamStart" /\ parser'.state # "StreamEnd" /\ parser'.token_index # 0
    BY <1>1, <1>2, <1>3
  <2> QED BY <1>3, <2>1, <2>2 DEF ParserInv
<1>7. ConsumerInv'
  BY <1>1, <1>3, <1>4, NothingHandedOut, NothingStaysHandedOut
<1> QED BY <1>4, <1>5, <1>6, <1>7 DEF FrontInv

-----------------------------------------------------------------------------
(***************************************************************************)
(* Initial states, and the steps of the others.                            *)
(***************************************************************************)
LEMMA FrontInitInv == FrontEndInit => FrontInv
<1> SUFFICES ASSUME FrontEndInit PROVE FrontInv
  OBVIOUS
<1>1. text \in Texts /\ ScannerInit /\ parser = NewBasicParser /\ lazy \in BOOLEAN /\ delivered = <<>>
  BY DEF FrontEndInit, NewFrontEnd
<1>2. IndentsAccounted /\ BracketInv /\ ScannerTypeOK /\ OrderInv
  BY <1>1, ScannerInitInv, BracketInitInv, OrderInitInv DEF ScannerInv
<1>3. /\ parser \in Parsers /\ parser.token_index = 0 /\ parser.event_index = 0 /\ parser.events = <<>>
      /\ parser.state = "StreamStart" /\ parser.state_stack = <<>> /\ parser.pending_anchor = FALSE
  <2>1. /\ <<>> \in Seq(Events) /\ <<>> \in Seq(ParserStates) /\ "StreamStart" \in ParserStates
        /\ 0 \in Nat /\ TRUE \in BOOLEAN /\ FALSE \in BOOLEAN
    BY DEF ParserStates
  <2>2. "None" \in TokenTypes \cup {"None"}
    OBVIOUS
  <2>3. NewBasicParser \in Parsers
    BY <2>1, <2>2 DEF NewBasicParser, Parsers
  <2>4. /\ NewBasicParser.token_index = 0 /\ NewBasicParser.event_index = 0
        /\ NewBasicParser.events = <<>> /\ NewBasicParser.state = "StreamStart"
        /\ NewBasicParser.state_stack = <<>> /\ NewBasicParser.pending_anchor = FALSE
    BY DEF NewBasicParser
  <2> QED BY <1>1, <2>3, <2>4
<1>4. tokens \in Seq(Tokens) /\ Len(tokens) \in Nat /\ Len(parser.events) = 0
  BY <1>2, <1>3 DEF ScannerTypeOK
<1>5. TypeOK
  BY <1>1, <1>2, <1>3, <1>4 DEF TypeOK
<1>6. Shaped(parser)
  <2>1. Framed(parser.events, 0)
    BY <1>3, FramedEmpty
  <2>2. parser.state \in Outside /\ parser.state_stack \in Seq(Inner)
    BY <1>3 DEF Outside
  <2> QED BY <1>3, <2>1, <2>2 DEF Shaped
<1>7. WordsRead(SubSeq(tokens, 1, parser.token_index)) = Words(parser.events)
  <2>1. SubSeq(tokens, 1, 0) = <<>>
    BY <1>4
  <2>2. WordsRead(<<>>) = <<>> /\ Words(<<>>) = <<>>
    BY WordsFold, WordsReadFold, EventFold!FoldEmpty, TokenFold!FoldEmpty
  <2> QED BY <1>3, <2>1, <2>2
<1>8. ParserInv
  <2>1. SubSeq(tokens, 1, 0) = <<>>
    BY <1>4
  <2>2. Met(SubSeq(tokens, 1, parser.token_index), parser.events, parser.pending_anchor)
    BY <1>3, <2>1, MetNone
  <2> QED BY <1>3, <1>6, <1>7, <2>2 DEF ParserInv
<1>9. ConsumerInv
  <2>1. SubSeq(parser.events, 1, 0) = <<>>
    BY <1>3
  <2> QED BY <1>1, <1>3, <2>1 DEF ConsumerInv, EagerDeliversOnce, DeliveredOnce
<1> QED BY <1>2, <1>5, <1>8, <1>9 DEF FrontInv

\* The scanner adds tokens behind those the parser has taken.
LEMMA ScanKeeps ==
    ASSUME FrontInv, scan
    PROVE  FrontInv'
<1> DEFINE n == parser.token_index
<1>1. ScannerNext /\ parser' = parser /\ lazy' = lazy /\ delivered' = delivered
  BY DEF scan
<1>2. ScannerTypeOK /\ Keeps /\ Emits
  BY <1>1, StepKeeps, StepEmits DEF FrontInv, TypeOK
<1>3. ScannerTypeOK' /\ IndentsAccounted'
  BY <1>2, KeepsInvariant DEF FrontInv
<1>4. BracketInv'
  BY <1>1, BracketStepInv DEF FrontInv
<1>5. PICK new \in Seq(Tokens) : tokens' = tokens \o new
  BY <1>2 DEF Keeps, Adds, Emit
<1>6. scanning = "on"
  BY <1>2 DEF Emits
<1>7. /\ tokens \in Seq(Tokens) /\ n \in Nat /\ n <= Len(tokens) /\ Len(tokens) \in Nat
      /\ parser \in Parsers
  <2>1. tokens \in Seq(Tokens) /\ parser \in Parsers /\ parser.token_index <= Len(tokens)
    BY <1>2 DEF FrontInv, TypeOK, ScannerTypeOK
  <2> QED BY <2>1 DEF Parsers
<1> HIDE DEF n
<1>8. /\ tokens' \in Seq(Tokens) /\ Len(tokens') = Len(tokens) + Len(new) /\ Len(new) \in Nat
      /\ \A i \in 1 .. Len(tokens) : tokens'[i] = tokens[i]
  BY <1>5, <1>7
<1>9. \A i \in 1 .. n : tokens'[i] = tokens[i]
  BY <1>7, <1>8
<1>10. Depth(tokens', n) = Depth(tokens, n)
  BY <1>7, <1>9, DepthAgrees
<1>11. SubSeq(tokens', 1, n) = SubSeq(tokens, 1, n)
  <2>1. n <= Len(tokens')
    BY <1>7, <1>8
  <2>2. /\ SubSeq(tokens', 1, n) \in Seq(Tokens) /\ Len(SubSeq(tokens', 1, n)) = n
        /\ \A i \in 1 .. n : SubSeq(tokens', 1, n)[i] = tokens'[i]
    BY <1>7, <1>8, <2>1
  <2>3. /\ SubSeq(tokens, 1, n) \in Seq(Tokens) /\ Len(SubSeq(tokens, 1, n)) = n
        /\ \A i \in 1 .. n : SubSeq(tokens, 1, n)[i] = tokens[i]
    BY <1>7
  <2> DEFINE a == SubSeq(tokens', 1, n)
             b == SubSeq(tokens, 1, n)
  <2>4. a \in Seq(Tokens) /\ b \in Seq(Tokens) /\ Len(a) = Len(b) /\ \A i \in 1 .. Len(a) : a[i] = b[i]
    BY <1>9, <2>2, <2>3
  <2> HIDE DEF a, b
  <2>5. a = b
    BY <2>4, SeqEqual
  <2> QED BY <2>5 DEF a, b
<1>12. TypeOK'
  <2>1. n <= Len(tokens')
    BY <1>7, <1>8
  <2> QED BY <1>1, <1>3, <2>1 DEF FrontInv, TypeOK, n
<1>13. ParserInv'
  <2>1. parser.state # "StreamEnd"
    BY <1>6 DEF FrontInv, ParserInv
  <2>2. Shaped(parser)'
    BY <1>1 DEF FrontInv, ParserInv, Shaped
  <2> QED BY <1>1, <1>10, <1>11, <2>1, <2>2 DEF FrontInv, ParserInv, n
<1>14. ConsumerInv'
  BY <1>1 DEF FrontInv, ConsumerInv, EagerDeliversOnce, DeliveredOnce
<1>15. OrderInv'
  BY <1>1, OrderStepInv DEF FrontInv
<1> QED BY <1>3, <1>4, <1>12, <1>13, <1>14, <1>15 DEF FrontInv

\* Handing an event out keeps the invariant.
LEMMA GetEventKeeps ==
    ASSUME FrontInv, get_event
    PROVE  FrontInv'
<1> DEFINE i == parser.event_index
<1>1. /\ i < Len(parser.events) /\ delivered' = Append(delivered, parser.events[i + 1])
      /\ parser' = [parser EXCEPT !.event_index = @ + 1] /\ lazy' = lazy /\ UNCHANGED scanner
  BY DEF get_event, Cached
<1>2. parser \in Parsers /\ i \in Nat /\ parser.events \in Seq(Events) /\ Len(parser.events) \in Nat
      /\ delivered \in Seq(Events)
  <2>1. parser \in Parsers /\ delivered \in Seq(Events)
    BY DEF FrontInv, TypeOK
  <2> QED BY <2>1, EventsTyped DEF Parsers
<1> HIDE DEF i
<1>3. /\ parser' \in Parsers /\ parser'.events = parser.events /\ parser'.state = parser.state
      /\ parser'.state_stack = parser.state_stack /\ parser'.token_index = parser.token_index
      /\ parser'.event_index = i + 1 /\ parser'.failed = parser.failed
      /\ parser'.pending_anchor = parser.pending_anchor
  <2>1. i + 1 \in Nat /\ parser.event_index = i
    BY <1>2 DEF i
  <2> QED BY <1>1, <1>2, <2>1 DEF Parsers
<1>4. /\ ScannerTypeOK' /\ OrderInv' /\ IndentsAccounted' /\ BracketInv'
      /\ tokens' = tokens /\ scanning' = scanning
  BY <1>1, ScannerStands DEF FrontInv, TypeOK
<1>5. delivered' \in Seq(Events) /\ i + 1 <= Len(parser.events)
  <2>1. i + 1 \in 1 .. Len(parser.events)
    BY <1>1, <1>2
  <2>2. parser.events[i + 1] \in Events
    BY <1>2, <2>1
  <2> QED BY <1>1, <1>2, <2>1, <2>2
<1>6. TypeOK'
  BY <1>1, <1>3, <1>4, <1>5 DEF FrontInv, TypeOK
<1>7. ParserInv'
  <2>1. Shaped(parser)'
    BY <1>3 DEF FrontInv, ParserInv, Shaped
  <2> QED BY <1>3, <1>4, <2>1 DEF FrontInv, ParserInv
<1>8. ConsumerInv'
  <2>1. ~lazy' => parser'.failed \/ parser'.state = "StreamEnd"
    BY <1>1, <1>3 DEF get_event
  <2>2. ~lazy => delivered = SubSeq(parser.events, 1, i)
    BY DEF FrontInv, ConsumerInv, EagerDeliversOnce, DeliveredOnce, i
  <2>3. SubSeq(parser.events, 1, i + 1) = Append(SubSeq(parser.events, 1, i), parser.events[i + 1])
    <3>1. 1 \in 1 .. Len(parser.events) /\ i + 1 \in 1 .. Len(parser.events) /\ (i + 1) - 1 = i
      BY <1>1, <1>2, <1>5
    <3>2. SubSeq(parser.events, 1, i + 1) = SubSeq(parser.events, 1, i) \o <<parser.events[i + 1]>>
      <4>1. SubSeq(parser.events, 1, i + 1) = SubSeq(parser.events, 1, (i + 1) - 1) \o <<parser.events[i + 1]>>
        BY <1>2, <3>1, SubSeqRecursiveSecond
      <4> QED BY <3>1, <4>1
    <3>3. SubSeq(parser.events, 1, i) \in Seq(Events) /\ parser.events[i + 1] \in Events
      BY <1>1, <1>2, <3>1
    <3> QED BY <3>2, <3>3, AppendIsConcat
  <2>4. ~lazy => delivered' = SubSeq(parser'.events, 1, parser'.event_index)
    BY <1>1, <1>3, <2>2, <2>3
  <2> QED BY <1>1, <2>1, <2>4 DEF ConsumerInv, EagerDeliversOnce, DeliveredOnce
<1> QED BY <1>4, <1>6, <1>7, <1>8 DEF FrontInv

\* Every step keeps the invariant.
LEMMA FrontStepInv == FrontInv /\ [FrontEndNext]_vars => FrontInv'
<1> SUFFICES ASSUME FrontInv, [FrontEndNext]_vars PROVE FrontInv'
  OBVIOUS
<1>1. CASE scan
  BY <1>1, ScanKeeps
<1>2. CASE parse
  <2>1. process_token /\ UNCHANGED <<scanner, lazy, delivered>>
    BY <1>2 DEF parse
  <2> QED BY <2>1, BorderArms, StartArms, WordArms, PropertyArms, EndArms, RefuseArm DEF process_token
<1>3. CASE get_event
  BY <1>3, GetEventKeeps
<1>4. CASE UNCHANGED vars
  <2>1. UNCHANGED scanner /\ parser' = parser /\ lazy' = lazy /\ delivered' = delivered
    BY <1>4 DEF vars
  <2>2. /\ ScannerTypeOK' /\ OrderInv' /\ IndentsAccounted' /\ BracketInv'
      /\ tokens' = tokens /\ scanning' = scanning
    BY <2>1, ScannerStands DEF FrontInv, TypeOK
  <2>3. TypeOK'
    BY <2>1, <2>2 DEF FrontInv, TypeOK
  <2>4. ParserInv'
    <3>1. Shaped(parser)'
      BY <2>1 DEF FrontInv, ParserInv, Shaped
    <3> QED BY <2>1, <2>2, <3>1 DEF FrontInv, ParserInv
  <2>5. ConsumerInv'
    BY <2>1 DEF FrontInv, ConsumerInv, EagerDeliversOnce, DeliveredOnce
  <2> QED BY <2>2, <2>3, <2>4, <2>5 DEF FrontInv
<1> QED BY <1>1, <1>2, <1>3, <1>4 DEF FrontEndNext, answer

\* The invariant holds in every state of every behaviour.
LEMMA FrontAlwaysInv == FrontEndSpec => []FrontInv
BY FrontInitInv, FrontStepInv, PTL DEF FrontEndSpec

\* Whatever the text and whichever constructor made the parser, the fields of scanner and
\* parser (src/parser/mod.rs) keep their types; the parser never counts tokens or events
\* that are not there.
THEOREM FrontEndTypes == FrontEndSpec => []TypeOK
<1>1. FrontInv => TypeOK
  BY DEF FrontInv
<1> QED BY <1>1, FrontAlwaysInv, PTL

\* Every node is in a document, and one document ends before the next begins: the walk of
\* has_open_document over the events and the state of process_token never disagree on it.
THEOREM DocumentsAlwaysFramed == FrontEndSpec => []DocumentsFramed
<1>1. FrontInv => DocumentsFramed
  BY FramedProperty DEF FrontInv, ParserInv, Shaped
<1> QED BY <1>1, FrontAlwaysInv, PTL

\* Of a text that is accepted, the events that are not empty scalars are its words and
\* aliases in their order: process_token inserts events before others, fills in empty scalars
\* and closes what is open, and never loses, doubles or moves a word.
THEOREM WordsAlwaysInOrder == FrontEndSpec => []WordsInOrder
<1>1. FrontInv => WordsInOrder
  <2> SUFFICES ASSUME FrontInv, parser.state = "StreamEnd" PROVE WordsOfText = WordsOfEvents
    BY DEF WordsInOrder
  <2>1. parser.token_index = Len(tokens) /\ ~parser.failed
    BY DEF FrontInv, ParserInv
  <2>2. WordsRead(SubSeq(tokens, 1, Len(tokens))) = Words(parser.events)
    BY <2>1 DEF FrontInv, ParserInv
  <2>3. SubSeq(tokens, 1, Len(tokens)) = tokens
    <3>1. tokens \in Seq(Tokens)
      BY DEF FrontInv, TypeOK, ScannerTypeOK
    <3> QED BY <3>1, SubSeqFull
  <2> QED BY <2>2, <2>3 DEF WordsOfText, WordsOfEvents, WordsRead, Words
<1> QED BY <1>1, FrontAlwaysInv, PTL

\* Of a text that is accepted, an anchor is on the node that comes next: process_token keeps
\* it for the next node it makes, be that one it inserts or one it fills in, gives it to one
\* node only, and takes no word and no alias while it waits that it does not give it to.
THEOREM AnchorsAlwaysMeetNodes == FrontEndSpec => []AnchorsMeetNodes
<1>1. FrontInv => AnchorsMeetNodes
  <2> DEFINE as == Anchors(tokens)
             ns == Nodes(parser.events)
  <2> SUFFICES ASSUME FrontInv, parser.state = "StreamEnd", NEW k \in DOMAIN ns
               PROVE  /\ k <= Len(as)
                      /\ \A i \in DOMAIN tokens :
                             tokens[i].type \in Leaves =>
                                 ~(Before(as[k], Spot(tokens[i])) /\ Before(Spot(tokens[i]), ns[k]))
    BY Zenon DEF AnchorsMeetNodes, Anchors, Nodes
  <2>1. tokens \in Seq(Tokens) /\ parser \in Parsers
    BY DEF FrontInv, TypeOK, ScannerTypeOK
  <2>2. Met(tokens, parser.events, parser.pending_anchor)
    <3>1. parser.token_index = Len(tokens) /\ ~parser.failed
      BY DEF FrontInv, ParserInv
    <3>2. Met(SubSeq(tokens, 1, Len(tokens)), parser.events, parser.pending_anchor)
      BY <3>1 DEF FrontInv, ParserInv
    <3> QED BY <2>1, <3>2, SubSeqFull
  <2>3. as \in Seq(Spots) /\ ns \in Seq(Spots)
    BY <2>1, AnchorsTyped, NodesTyped, EventsTyped
  <2>4. /\ Len(as) = IF parser.pending_anchor THEN Len(ns) + 1 ELSE Len(ns)
        /\ \A j \in DOMAIN as, i \in DOMAIN tokens :
               tokens[i].type \in Leaves =>
                   ~(/\ Before(as[j], Spot(tokens[i]))
                     /\ j <= Len(ns) => Before(Spot(tokens[i]), ns[j]))
    BY <2>2 DEF Met
  <2>5. k \in DOMAIN ns
    OBVIOUS
  <2> HIDE DEF as, ns
  <2>6. k \in 1 .. Len(ns) /\ k \in DOMAIN as /\ k <= Len(as)
    <3>1. /\ Len(as) \in Nat /\ DOMAIN as = 1 .. Len(as)
          /\ Len(ns) \in Nat /\ DOMAIN ns = 1 .. Len(ns)
      BY <2>3, PlacesTyped
    <3> DEFINE a == Len(as)
               b == Len(ns)
    <3>2. a = IF parser.pending_anchor THEN b + 1 ELSE b
      BY <2>4
    <3>3. a \in Nat /\ b \in Nat /\ DOMAIN as = 1 .. a /\ k \in 1 .. b
      BY <2>5, <3>1
    <3> HIDE DEF a, b
    <3>4. b <= a
      BY <3>2, <3>3
    <3>5. k \in 1 .. a /\ k \in 1 .. b /\ k <= a
      BY <3>3, <3>4
    <3> QED BY <3>3, <3>5 DEF a, b
  <2> QED BY <2>4, <2>6
<1> QED BY <1>1, FrontAlwaysInv, PTL

\* An eager parser gives each of its events once and in their order (get_event,
\* src/parser/mod.rs): the constructor has processed every token, and inserted every event
\* that belongs before others, when the first event is asked for.
THEOREM EagerAlwaysDeliversOnce == FrontEndSpec => []EagerDeliversOnce
<1>1. FrontInv => EagerDeliversOnce
  BY DEF FrontInv, ConsumerInv
<1> QED BY <1>1, FrontAlwaysInv, PTL

\* In the company of a parser, which may ask for tokens before the text is read, the scanner
\* keeps account of its blocks and brackets as it does alone.
THEOREM FrontEndAccounts == FrontEndSpec => [](IndentsAccounted /\ BracketsAccounted)
<1>1. FrontInv => IndentsAccounted /\ BracketsAccounted
  BY DEF FrontInv, BracketInv
<1> QED BY <1>1, FrontAlwaysInv, PTL
=============================================================================
