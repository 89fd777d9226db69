---------------------------- MODULE StreamProofs -----------------------------
(***************************************************************************)
(* The streaming parsers, for every text, every size of the chunks and the *)
(* batches and both ways to read: what they make events of is in order,    *)
(* nothing is lost, documents are framed and keep their anchors, and the   *)
(* depth counts.                                                           *)
(***************************************************************************)
EXTENDS Streams, CollectionProofs

-----------------------------------------------------------------------------
(***************************************************************************)
(* Sequences of events.                                                    *)
(***************************************************************************)

\* The events are of the first n characters, and no character is of two of them.
Within(events, n) ==
    \A i \in DOMAIN events : events[i].first \in 1 .. n + 1 /\ events[i].last \in 0 .. n
InOrder(events) ==
    \A j \in DOMAIN events : Visible(events[j]) =>
        \A i \in 1 .. j - 1 : events[i].last < events[j].first
Spans(events, n) == Within(events, n) /\ InOrder(events)

\* Whether a document is open before the j-th event, and behind the last one.
OpenBefore(events, j) ==
    \E i \in 1 .. j - 1 :
        events[i].type = "DocumentStart" /\ \A k \in i + 1 .. j - 1 : events[k].type # "DocumentEnd"
Open(events) == OpenBefore(events, Len(events) + 1)

FramedEvent(event, j, open) ==
    CASE event.type = "StreamStart" -> j = 1
      [] event.type = "DocumentStart" -> j > 1 /\ ~open
      [] OTHER -> open
FramedEvents(events) == \A j \in DOMAIN events : FramedEvent(events[j], j, OpenBefore(events, j))

\* An event has this character.
Covered(events, i) == \E e \in DOMAIN events : events[e].first <= i /\ i <= events[e].last

\* One event more, made of characters behind those of all before it.
LEMMA SpansAppend ==
    ASSUME NEW T, NEW events \in Seq(T), NEW n \in Nat, Spans(events, n),
           NEW e, NEW m \in Nat, n <= m,
           e.first \in 1 .. m + 1, e.last \in 0 .. m, Visible(e) => n < e.first
    PROVE  Spans(Append(events, e), m)
<1> DEFINE s == Append(events, e)
<1>1. /\ DOMAIN s = 1 .. Len(events) + 1 /\ DOMAIN events = 1 .. Len(events) /\ Len(events) \in Nat
      /\ s[Len(events) + 1] = e
      /\ \A i \in 1 .. Len(events) : s[i] = events[i]
  OBVIOUS
<1> HIDE DEF s
<1>2. Within(s, m)
  BY <1>1 DEF Spans, Within
<1>3. ASSUME NEW j \in DOMAIN s, Visible(s[j]), NEW i \in 1 .. j - 1
      PROVE  s[i].last < s[j].first
  <2>1. i \in 1 .. Len(events) /\ s[i] = events[i]
    BY <1>1
  <2>2. CASE j = Len(events) + 1
    <3>1. events[i].last \in 0 .. n
      BY <1>1, <2>1 DEF Spans, Within
    <3>2. n < e.first
      BY <1>1, <1>3, <2>2
    <3> QED BY <1>1, <2>1, <2>2, <3>1, <3>2
  <2>3. CASE j \in 1 .. Len(events)
    BY <1>1, <1>3, <2>1, <2>3 DEF Spans, InOrder
  <2> QED BY <1>1, <2>2, <2>3
<1>4. InOrder(s)
  BY <1>3 DEF InOrder
<1> QED BY <1>2, <1>4 DEF Spans, s

\* The parser moves on.
LEMMA SpansWiden ==
    ASSUME NEW events, NEW n \in Nat, Spans(events, n), NEW m \in Nat, n <= m
    PROVE  Spans(events, m)
BY DEF Spans, Within, InOrder

\* The first events of a sequence, and it without its end.
LEMMA SpansPrefix ==
    ASSUME NEW T, NEW s \in Seq(T), NEW t \in Seq(T), NEW n \in Nat, Spans(s \o t, n)
    PROVE  Spans(s, n)
<1>1. /\ DOMAIN s = 1 .. Len(s) /\ DOMAIN (s \o t) = 1 .. Len(s) + Len(t)
      /\ Len(s) \in Nat /\ Len(t) \in Nat
      /\ \A i \in 1 .. Len(s) : (s \o t)[i] = s[i]
  OBVIOUS
<1> QED BY <1>1 DEF Spans, Within, InOrder

\* A document is open behind an event according to its type.
LEMMA OpenAppend ==
    ASSUME NEW T, NEW events \in Seq(T), NEW e
    PROVE  /\ e.type = "DocumentStart" => Open(Append(events, e))
           /\ e.type = "DocumentEnd" => ~Open(Append(events, e))
           /\ e.type \notin {"DocumentStart", "DocumentEnd"} =>
                  (Open(Append(events, e)) <=> Open(events))
<1> DEFINE s == Append(events, e)
           n == Len(events)
<1>1. /\ n \in Nat /\ Len(s) = n + 1 /\ s[n + 1] = e
      /\ \A i \in 1 .. n : s[i] = events[i]
  OBVIOUS
<1> HIDE DEF s, n
<1>2. Open(s) <=> \E i \in 1 .. n + 1 :
                      s[i].type = "DocumentStart" /\ \A k \in i + 1 .. n + 1 : s[k].type # "DocumentEnd"
  BY <1>1 DEF Open, OpenBefore
<1>3. Open(events) <=> \E i \in 1 .. n :
          events[i].type = "DocumentStart" /\ \A k \in i + 1 .. n : events[k].type # "DocumentEnd"
  BY <1>1 DEF Open, OpenBefore, n
<1>4. e.type = "DocumentStart" => Open(s)
  BY <1>1, <1>2
<1>5. e.type = "DocumentEnd" => ~Open(s)
  BY <1>1, <1>2
<1>6. ASSUME e.type \notin {"DocumentStart", "DocumentEnd"} PROVE Open(s) <=> Open(events)
  BY <1>1, <1>2, <1>3, <1>6
<1> QED BY <1>4, <1>5, <1>6 DEF s

\* A framed sequence with one event more.
LEMMA FramedAppend ==
    ASSUME NEW T, NEW events \in Seq(T), FramedEvents(events), NEW e,
           FramedEvent(e, Len(events) + 1, Open(events))
    PROVE  FramedEvents(Append(events, e))
<1> DEFINE s == Append(events, e)
           n == Len(events)
<1>1. /\ n \in Nat /\ DOMAIN s = 1 .. n + 1 /\ s[n + 1] = e /\ DOMAIN events = 1 .. n
      /\ \A i \in 1 .. n : s[i] = events[i]
  OBVIOUS
<1> HIDE DEF s
<1>2. ASSUME NEW j \in 1 .. n + 1 PROVE OpenBefore(s, j) <=> OpenBefore(events, j)
  <2>1. \A i \in 1 .. j - 1 : s[i] = events[i] /\ i + 1 .. j - 1 \subseteq 1 .. j - 1
    BY <1>1
  <2> HIDE DEF n
  <2> QED BY <2>1 DEF OpenBefore
<1>3. ASSUME NEW j \in 1 .. n PROVE FramedEvent(s[j], j, OpenBefore(s, j))
  BY <1>1, <1>2 DEF FramedEvents, FramedEvent
<1>4. FramedEvent(s[n + 1], n + 1, OpenBefore(s, n + 1))
  BY <1>1, <1>2 DEF FramedEvent, Open
<1>5. \A j \in 1 .. n + 1 : j \in 1 .. n \/ j = n + 1
  BY <1>1
<1> HIDE DEF n
<1> QED BY <1>1, <1>3, <1>4, <1>5 DEF FramedEvents, s

\* What is in an event stays in one.
LEMMA CoveredAppend ==
    ASSUME NEW T, NEW events \in Seq(T), NEW e, NEW i
    PROVE  /\ Covered(events, i) => Covered(Append(events, e), i)
           /\ e.first <= i /\ i <= e.last => Covered(Append(events, e), i)
<1> DEFINE s == Append(events, e)
<1>1. /\ DOMAIN s = 1 .. Len(events) + 1 /\ DOMAIN events = 1 .. Len(events) /\ Len(events) \in Nat
      /\ s[Len(events) + 1] = e
      /\ \A k \in 1 .. Len(events) : s[k] = events[k]
  OBVIOUS
<1> HIDE DEF s
<1> QED BY <1>1 DEF Covered, s

\* An event in the queue comes behind those that are delivered.
LEMMA QueueAppend ==
    ASSUME NEW T, NEW d \in Seq(T), NEW q \in Seq(T), NEW e \in T
    PROVE  /\ d \o Append(q, e) = Append(d \o q, e)
           /\ d \o q \in Seq(T) /\ Append(q, e) \in Seq(T)
OBVIOUS

\* Delivering leaves the events as they are.
LEMMA QueueDeliver ==
    ASSUME NEW T, NEW d \in Seq(T), NEW q \in Seq(T), q # <<>>
    PROVE  /\ Append(d, Head(q)) \o Tail(q) = d \o q
           /\ Append(d, Head(q)) \in Seq(T) /\ Tail(q) \in Seq(T)
<1>1. Head(q) \in T /\ Tail(q) \in Seq(T) /\ q = <<Head(q)>> \o Tail(q)
  OBVIOUS
<1>2. Append(d, Head(q)) = d \o <<Head(q)>> /\ <<Head(q)>> \in Seq(T)
  BY <1>1
<1>3. (d \o <<Head(q)>>) \o Tail(q) = d \o (<<Head(q)>> \o Tail(q))
  BY <1>1, <1>2
<1> QED BY <1>1, <1>2, <1>3

-----------------------------------------------------------------------------
(***************************************************************************)
(* BatchParser.                                                            *)
(***************************************************************************)
EventTypes ==
    {"StreamStart", "StreamEnd", "DocumentStart", "DocumentEnd", "Scalar", "Alias",
     "SequenceStart", "SequenceEnd", "MappingStart", "MappingEnd"}
NodeEvents == [type : EventTypes, first : Nat, last : Nat, anchor : BOOLEAN]

BatchStates ==
    {"StreamStart", "ImplicitDocumentStart", "DocumentStart", "DocumentEnd", "FlowSequence",
     "FlowMapping"}

BatchParsers ==
    [at : 0 .. Len(text), state : BatchStates, state_stack : Seq(BatchStates), depth : Nat,
     pending_anchor : BOOLEAN, stream_ended : BOOLEAN, events : Seq(NodeEvents)]

\* What holds of a parser behind the events d, of which n collections may be open.
BatchGood(d, p, n) ==
    /\ p \in BatchParsers
    /\ Spans(d \o p.events, p.at)
    /\ p.depth = Len(p.state_stack) /\ p.depth <= n

BatchText == text \in Seq(STRING) /\ option \in [zero_copy : BOOLEAN, batching : BOOLEAN]

\* q is p, further on; it may have other events, and others open.
Ahead(p, q) == q \in BatchParsers /\ p.at <= q.at /\ q.stream_ended = p.stream_ended
Pushed(p, q, e) ==
    /\ q \in BatchParsers /\ q.events = Append(p.events, e) /\ q.at = p.at
    /\ q.depth = p.depth /\ q.state_stack = p.state_stack /\ q.stream_ended = p.stream_ended
MadeOf(e, first, last) == e \in NodeEvents /\ e.first = first /\ e.last = last
SameNodes(p, q) ==
    /\ q.events = p.events /\ q.depth = p.depth /\ q.state_stack = p.state_stack
    /\ q.pending_anchor = p.pending_anchor /\ q.state = p.state

\* The fields of a parser.
LEMMA BatchFields ==
    ASSUME BatchText, NEW p \in BatchParsers
    PROVE  /\ p.at \in Nat /\ p.at <= Len(text) /\ Len(text) \in Nat
           /\ p.state \in BatchStates /\ p.state_stack \in Seq(BatchStates) /\ p.depth \in Nat
           /\ p.pending_anchor \in BOOLEAN /\ p.stream_ended \in BOOLEAN
           /\ p.events \in Seq(NodeEvents)
BY DEF BatchText, BatchParsers

\* The parser moves without an event.
LEMMA BatchMoves ==
    ASSUME BatchText, NEW d \in Seq(NodeEvents), NEW p, NEW n \in Nat, BatchGood(d, p, n),
           NEW q, Ahead(p, q), q.events = p.events, q.depth = p.depth, q.state_stack = p.state_stack,
           NEW m \in Nat, n <= m
    PROVE  BatchGood(d, q, m)
<1>1. /\ p \in BatchParsers /\ q \in BatchParsers /\ p.at <= q.at /\ Spans(d \o p.events, p.at)
      /\ p.depth = Len(p.state_stack) /\ p.depth <= n
  BY DEF BatchGood, Ahead
<1>2. p.at \in Nat /\ q.at \in Nat /\ p.depth \in Nat
  BY <1>1, BatchFields
<1>3. Spans(d \o q.events, q.at)
  BY <1>1, <1>2, SpansWiden
<1>4. p.depth <= m
  BY <1>1, <1>2
<1> QED BY <1>1, <1>3, <1>4 DEF BatchGood

\* ... or with one.
LEMMA BatchEmits ==
    ASSUME BatchText, NEW d \in Seq(NodeEvents), NEW p, NEW n \in Nat, BatchGood(d, p, n),
           NEW q \in BatchParsers, p.at <= q.at, NEW e \in NodeEvents, q.events = Append(p.events, e),
           e.first \in 1 .. q.at + 1, e.last \in 0 .. q.at, Visible(e) => p.at < e.first,
           NEW m \in Nat, q.depth = Len(q.state_stack), q.depth <= m
    PROVE  BatchGood(d, q, m)
<1>1. p \in BatchParsers /\ Spans(d \o p.events, p.at)
  BY DEF BatchGood
<1>2. p.at \in Nat /\ q.at \in Nat /\ p.events \in Seq(NodeEvents)
  BY <1>1, BatchFields
<1>3. d \o q.events = Append(d \o p.events, e) /\ d \o p.events \in Seq(NodeEvents)
  <2> DEFINE a == p.events
  <2>1. a \in Seq(NodeEvents)
    BY <1>2
  <2> HIDE DEF a
  <2>2. d \o Append(a, e) = Append(d \o a, e) /\ d \o a \in Seq(NodeEvents)
    BY <2>1, QueueAppend, SMTT(30)
  <2> QED BY <2>2 DEF a
<1>4. Spans(Append(d \o p.events, e), q.at)
  BY <1>1, <1>2, <1>3, SpansAppend
<1> QED BY <1>3, <1>4 DEF BatchGood

\* Skipping stops further on.
LEMMA SkipsAhead ==
    ASSUME BatchText, NEW p \in BatchParsers, NEW stops
    PROVE  LET q == Batched!SkipTo(p, stops) IN Ahead(p, q) /\ SameNodes(p, q)
<1> DEFINE found == {i \in p.at + 1 .. Len(text) : i \in stops}
           k == IF found = {} THEN Len(text) ELSE Batched!Min(found) - 1
           q == [p EXCEPT !.at = k]
<1>1. p.at \in Nat /\ p.at <= Len(text) /\ Len(text) \in Nat
  BY BatchFields
<1>2. found \in SUBSET Nat
  BY <1>1
<1>3. \A S : Batched!Min(S) = Min(S)
  BY DEF Batched!Min, Min
<1>4. found # {} => Min(found) \in found
  BY <1>2, MinBounds
<1>5. k \in 0 .. Len(text) /\ p.at <= k
  BY <1>1, <1>3, <1>4
<1>6. Batched!SkipTo(p, stops) = q
  BY DEF Batched!SkipTo
<1> HIDE DEF k
<1>7. Ahead(p, q) /\ SameNodes(p, q)
  BY <1>5 DEF BatchParsers, Ahead, SameNodes
<1> QED BY <1>6, <1>7

\* So does advancing.
LEMMA AdvancesAhead ==
    ASSUME BatchText, NEW p \in BatchParsers, NEW n \in Nat
    PROVE  LET q == Batched!advance(p, n)
           IN  Ahead(p, q) /\ SameNodes(p, q) /\ (p.at + n <= Len(text) => q.at = p.at + n)
<1> DEFINE k == IF p.at + n > Len(text) THEN Len(text) ELSE p.at + n
           q == [p EXCEPT !.at = k]
<1>1. p.at \in Nat /\ p.at <= Len(text) /\ Len(text) \in Nat
  BY BatchFields
<1>2. Batched!advance(p, n) = q
  BY <1>1 DEF Batched!advance
<1>3. k \in 0 .. Len(text) /\ p.at <= k /\ (p.at + n <= Len(text) => k = p.at + n)
  BY <1>1
<1> HIDE DEF k
<1>4. Ahead(p, q) /\ SameNodes(p, q) /\ q.at = k
  BY <1>3 DEF BatchParsers, Ahead, SameNodes
<1> QED BY <1>2, <1>3, <1>4

\* Further on than further on.
LEMMA AheadTwice ==
    ASSUME BatchText, NEW p \in BatchParsers, NEW q, Ahead(p, q), NEW r, Ahead(q, r)
    PROVE  Ahead(p, r)
<1>1. q \in BatchParsers /\ r \in BatchParsers
  BY DEF Ahead
<1>2. p.at \in Nat /\ q.at \in Nat /\ r.at \in Nat
  BY <1>1, BatchFields
<1> QED BY <1>2 DEF Ahead

\* The characters behind the parser.
LEMMA CharacterAhead ==
    ASSUME BatchText, NEW p \in BatchParsers, NEW k \in Nat, Batched!CharAt(p.at + k) # "end"
    PROVE  p.at + k <= Len(text)
<1>1. p.at \in Nat /\ Len(text) \in Nat /\ DOMAIN text = 1 .. Len(text)
  BY BatchFields DEF BatchText
<1>2. p.at + k \in DOMAIN text
  BY DEF Batched!CharAt
<1> QED BY <1>1, <1>2

\* A parser with one event more.
LEMMA PushTyped ==
    ASSUME BatchText, NEW p \in BatchParsers, NEW type \in EventTypes, NEW first \in Nat, NEW last \in Nat
    PROVE  LET e == Batched!Event(type, first, last, FALSE)
               q == Batched!Push(p, type, first, last)
           IN  MadeOf(e, first, last) /\ Pushed(p, q, e)
<1> DEFINE e == Batched!Event(type, first, last, FALSE)
           s == Append(p.events, e)
           q == [p EXCEPT !.events = s]
<1>1. e \in NodeEvents /\ e.first = first /\ e.last = last
  BY DEF Batched!Event, NodeEvents
<1>2. Batched!Push(p, type, first, last) = q
  BY DEF Batched!Push
<1> HIDE DEF e
<1>3. s \in Seq(NodeEvents)
  BY <1>1, BatchFields
<1> HIDE DEF s
<1>4. /\ q \in BatchParsers /\ q.events = s /\ q.at = p.at /\ q.depth = p.depth
      /\ q.state_stack = p.state_stack /\ q.stream_ended = p.stream_ended
  BY <1>3 DEF BatchParsers
<1> QED BY <1>1, <1>2, <1>4 DEF MadeOf, Pushed, e, s

\* ... of a node.
LEMMA PushNodeTyped ==
    ASSUME BatchText, NEW p \in BatchParsers, NEW type \in EventTypes, NEW first \in Nat, NEW last \in Nat
    PROVE  LET e == Batched!Event(type, first, last, p.pending_anchor)
               q == Batched!PushNode(p, type, first, last)
           IN  MadeOf(e, first, last) /\ Pushed(p, q, e)
<1> DEFINE e == Batched!Event(type, first, last, p.pending_anchor)
           s == Append(p.events, e)
           q == [p EXCEPT !.events = s, !.pending_anchor = FALSE]
<1>0. p.pending_anchor \in BOOLEAN
  BY BatchFields
<1>1. e \in NodeEvents /\ e.first = first /\ e.last = last
  BY <1>0 DEF Batched!Event, NodeEvents
<1>2. Batched!PushNode(p, type, first, last) = q
  BY DEF Batched!PushNode
<1> HIDE DEF e
<1>3. s \in Seq(NodeEvents)
  BY <1>1, BatchFields
<1> HIDE DEF s
<1>4. /\ q \in BatchParsers /\ q.events = s /\ q.at = p.at /\ q.depth = p.depth
      /\ q.state_stack = p.state_stack /\ q.stream_ended = p.stream_ended
  BY <1>3 DEF BatchParsers
<1> QED BY <1>1, <1>2, <1>4 DEF MadeOf, Pushed, e, s

-----------------------------------------------------------------------------
\* A document marker.
LEMMA MarkerGood ==
    ASSUME BatchText, NEW d \in Seq(NodeEvents), NEW p, NEW n \in Nat, BatchGood(d, p, n),
           NEW c, c # "end", Batched!IsMarker(p, c),
           NEW type \in EventTypes, type \in BatchStates
    PROVE  BatchGood(d, Batched!Marker(p, type), n)
<1> DEFINE s == Batched!Push(p, type, p.at + 1, p.at + 3)
           r == [s EXCEPT !.state = type]
           q == Batched!advance(r, 3)
<1>1. p \in BatchParsers /\ p.depth = Len(p.state_stack) /\ p.depth <= n
  BY DEF BatchGood
<1>2. p.at \in Nat /\ p.at + 1 \in Nat /\ p.at + 3 \in Nat
  BY <1>1, BatchFields
<1>3. p.at + 3 <= Len(text)
  <2>1. Batched!CharAt(p.at + 3) = c
    BY DEF Batched!IsMarker
  <2> QED BY <1>1, <2>1, CharacterAhead
<1>4. PICK e : MadeOf(e, p.at + 1, p.at + 3) /\ Pushed(p, s, e)
  <2> DEFINE a == p.at + 1
             b == p.at + 3
  <2>1. a \in Nat /\ b \in Nat
    BY <1>2
  <2> HIDE DEF a, b
  <2>2. MadeOf(Batched!Event(type, a, b, FALSE), a, b)
    BY <1>1, <2>1, PushTyped
  <2>3. Pushed(p, Batched!Push(p, type, a, b), Batched!Event(type, a, b, FALSE))
    BY <1>1, <2>1, PushTyped
  <2> QED BY <2>2, <2>3 DEF a, b
<1> HIDE DEF s
<1>5. /\ r \in BatchParsers /\ r.events = s.events /\ r.at = s.at
      /\ r.depth = s.depth /\ r.state_stack = s.state_stack
  BY <1>4 DEF Pushed, BatchParsers
<1> HIDE DEF r
<1>6. Ahead(r, q) /\ SameNodes(r, q) /\ (r.at + 3 <= Len(text) => q.at = r.at + 3)
  BY <1>5, AdvancesAhead
<1>7. Batched!Marker(p, type) = q
  BY DEF Batched!Marker, r, s
<1> HIDE DEF q
<1>8. /\ q \in BatchParsers /\ q.at = p.at + 3 /\ q.events = Append(p.events, e)
      /\ q.depth = p.depth /\ q.state_stack = p.state_stack
  BY <1>3, <1>4, <1>5, <1>6 DEF Pushed, Ahead, SameNodes
<1>9. /\ p.at <= q.at /\ e.first \in 1 .. q.at + 1 /\ e.last \in 0 .. q.at /\ p.at < e.first
      /\ q.depth = Len(q.state_stack) /\ q.depth <= n
  BY <1>1, <1>2, <1>4, <1>8 DEF MadeOf
<1>10. BatchGood(d, q, n)
  BY <1>4, <1>8, <1>9, BatchEmits DEF MadeOf
<1> QED BY <1>7, <1>10

\* A collection is opened.
LEMMA OpenGood ==
    ASSUME BatchText, NEW d \in Seq(NodeEvents), NEW p, NEW n \in Nat, BatchGood(d, p, n),
           p.at < Len(text), NEW state \in BatchStates, NEW type \in EventTypes
    PROVE  BatchGood(d, Batched!advance(
                 Batched!PushNode(Batched!push_state(p, state), type, p.at + 1, p.at + 1), 1), n + 1)
<1> DEFINE k == Append(p.state_stack, p.state)
           s == [p EXCEPT !.state_stack = k, !.state = state, !.depth = @ + 1]
           r == Batched!PushNode(s, type, p.at + 1, p.at + 1)
           q == Batched!advance(r, 1)
<1>1. p \in BatchParsers /\ p.depth = Len(p.state_stack) /\ p.depth <= n
  BY DEF BatchGood
<1>2. /\ p.at \in Nat /\ Len(text) \in Nat /\ p.at + 1 \in Nat /\ p.depth + 1 \in Nat
      /\ k \in Seq(BatchStates) /\ Len(k) = p.depth + 1
  BY <1>1, BatchFields
<1>3. Batched!push_state(p, state) = s
  BY DEF Batched!push_state
<1> HIDE DEF k
<1>4. /\ s \in BatchParsers /\ s.at = p.at /\ s.events = p.events
      /\ s.state_stack = k /\ s.depth = p.depth + 1
  BY <1>1, <1>2 DEF BatchParsers
<1> HIDE DEF s
<1>5. PICK e : MadeOf(e, p.at + 1, p.at + 1) /\ Pushed(s, r, e)
  <2> DEFINE a == p.at + 1
  <2>1. a \in Nat
    BY <1>2
  <2> HIDE DEF a
  <2>2. MadeOf(Batched!Event(type, a, a, s.pending_anchor), a, a)
    BY <1>4, <2>1, PushNodeTyped
  <2>3. Pushed(s, Batched!PushNode(s, type, a, a), Batched!Event(type, a, a, s.pending_anchor))
    BY <1>4, <2>1, PushNodeTyped
  <2> QED BY <2>2, <2>3 DEF a
<1> HIDE DEF r
<1>6. Ahead(r, q) /\ SameNodes(r, q) /\ (r.at + 1 <= Len(text) => q.at = r.at + 1)
  BY <1>5, AdvancesAhead DEF Pushed
<1> HIDE DEF q
<1>7. /\ q \in BatchParsers /\ q.at = p.at + 1 /\ q.events = Append(p.events, e)
      /\ q.depth = p.depth + 1 /\ q.state_stack = k
  BY <1>2, <1>4, <1>5, <1>6 DEF Pushed, Ahead, SameNodes
<1>8. /\ p.at <= q.at /\ e.first \in 1 .. q.at + 1 /\ e.last \in 0 .. q.at /\ p.at < e.first
      /\ q.depth = Len(q.state_stack) /\ q.depth <= n + 1 /\ n + 1 \in Nat
  BY <1>1, <1>2, <1>5, <1>7 DEF MadeOf
<1>9. BatchGood(d, q, n + 1)
  BY <1>5, <1>7, <1>8, BatchEmits DEF MadeOf
<1> QED BY <1>3, <1>9 DEF r, q

\* ... or closed, if one is open.
LEMMA CloseGood ==
    ASSUME BatchText, NEW d \in Seq(NodeEvents), NEW p, NEW n \in Nat, BatchGood(d, p, n),
           p.at < Len(text), NEW type \in EventTypes
    PROVE  BatchGood(d, Batched!advance(
                 Batched!pop_state(Batched!Push(p, type, p.at + 1, p.at + 1)), 1), n)
<1> DEFINE s == Batched!Push(p, type, p.at + 1, p.at + 1)
           r == Batched!pop_state(s)
           q == Batched!advance(r, 1)
<1>1. p \in BatchParsers /\ p.depth = Len(p.state_stack) /\ p.depth <= n
  BY DEF BatchGood
<1>2. p.at \in Nat /\ Len(text) \in Nat /\ p.at + 1 \in Nat /\ p.depth \in Nat
  BY <1>1, BatchFields
<1>3. PICK e : MadeOf(e, p.at + 1, p.at + 1) /\ Pushed(p, s, e)
  <2> DEFINE a == p.at + 1
  <2>1. a \in Nat
    BY <1>2
  <2> HIDE DEF a
  <2>2. MadeOf(Batched!Event(type, a, a, FALSE), a, a)
    BY <1>1, <2>1, PushTyped
  <2>3. Pushed(p, Batched!Push(p, type, a, a), Batched!Event(type, a, a, FALSE))
    BY <1>1, <2>1, PushTyped
  <2> QED BY <2>2, <2>3 DEF a
<1> HIDE DEF s
<1>4. /\ r \in BatchParsers /\ r.events = s.events /\ r.at = s.at
      /\ r.depth = Len(r.state_stack) /\ r.depth <= n
  <2>1. CASE s.state_stack = <<>>
    BY <1>1, <1>3, <2>1 DEF Pushed, Batched!pop_state
  <2>2. CASE s.state_stack # <<>>
    <3> DEFINE f == Batched!Front(s.state_stack)
               l == Batched!Last(s.state_stack)
    <3>1. s.state_stack \in Seq(BatchStates)
      BY <1>3, BatchFields DEF Pushed
    <3>2. f = Front(s.state_stack) /\ l = Last(s.state_stack)
      BY DEF Batched!Front, Batched!Last, Front, Last
    <3> DEFINE c == s.state_stack
    <3>8. Len(c) = p.depth
      BY <1>1, <1>3 DEF Pushed
    <3> HIDE DEF c
    <3>9. /\ Front(c) \in Seq(BatchStates) /\ Last(c) \in BatchStates /\ Len(Front(c)) = Len(c) - 1
      BY <2>2, <3>1, FrontAndLast DEF c
    <3>5. r = [s EXCEPT !.state = l, !.state_stack = f, !.depth = @ - 1]
      BY <2>2 DEF Batched!pop_state
    <3> HIDE DEF f, l
    <3>3. f \in Seq(BatchStates) /\ l \in BatchStates /\ Len(f) = p.depth - 1
      BY <3>2, <3>8, <3>9 DEF c
    <3>4. p.depth - 1 \in Nat
      BY <3>3
    <3> HIDE DEF r
    <3>6. r \in BatchParsers /\ r.events = s.events /\ r.at = s.at
      BY <1>3, <3>3, <3>4, <3>5 DEF Pushed, BatchParsers
    <3>7. r.state_stack = f /\ r.depth = p.depth - 1
      BY <1>3, <3>5 DEF Pushed, BatchParsers
    <3> QED BY <1>1, <1>2, <3>3, <3>6, <3>7
  <2> QED BY <2>1, <2>2
<1> HIDE DEF r
<1>5. Ahead(r, q) /\ SameNodes(r, q) /\ (r.at + 1 <= Len(text) => q.at = r.at + 1)
  BY <1>4, AdvancesAhead
<1> HIDE DEF q
<1>6. /\ q \in BatchParsers /\ q.at = p.at + 1 /\ q.events = Append(p.events, e)
      /\ q.depth = Len(q.state_stack) /\ q.depth <= n
  BY <1>2, <1>3, <1>4, <1>5 DEF Pushed, Ahead, SameNodes
<1>7. p.at <= q.at /\ e.first \in 1 .. q.at + 1 /\ e.last \in 0 .. q.at /\ p.at < e.first
  BY <1>2, <1>3, <1>6 DEF MadeOf
<1>8. BatchGood(d, q, n)
  BY <1>3, <1>6, <1>7, BatchEmits DEF MadeOf
<1> QED BY <1>8 DEF r, s, q

\* A run of characters, behind which the parser is.
LEMMA RunGood ==
    ASSUME BatchText, NEW d \in Seq(NodeEvents), NEW p, NEW n \in Nat, BatchGood(d, p, n),
           NEW first \in Nat, p.at < first,
           NEW r, Ahead(p, r), SameNodes(p, r), first <= r.at + 1, NEW q, NEW e,
           MadeOf(e, first, r.at), Pushed(r, q, e)
    PROVE  BatchGood(d, q, n)
<1>1. p \in BatchParsers /\ p.depth = Len(p.state_stack) /\ p.depth <= n /\ r \in BatchParsers
  BY DEF BatchGood, Ahead
<1>2. p.at \in Nat /\ r.at \in Nat
  BY <1>1, BatchFields
<1>3. /\ q \in BatchParsers /\ q.events = Append(p.events, e) /\ q.at = r.at /\ p.at <= q.at
      /\ q.depth = Len(q.state_stack) /\ q.depth <= n
  BY <1>1 DEF Ahead, SameNodes, Pushed
<1>4. /\ e \in NodeEvents /\ e.first \in 1 .. q.at + 1 /\ e.last \in 0 .. q.at /\ p.at < e.first
  BY <1>2, <1>3 DEF MadeOf
<1> QED BY <1>3, <1>4, BatchEmits

\* A plain scalar.
LEMMA ScalarGood ==
    ASSUME BatchText, NEW d \in Seq(NodeEvents), NEW p, NEW n \in Nat, BatchGood(d, p, n)
    PROVE  BatchGood(d, Batched!ScanScalar(p), n)
<1> DEFINE r == Batched!SkipTo(p, Batched!ScalarEnds)
           first == p.at + 1
           type == "Scalar"
           e == Batched!Event(type, first, r.at, r.pending_anchor)
           q == Batched!PushNode(r, type, first, r.at)
<1>1. p \in BatchParsers /\ p.at \in Nat
  BY BatchFields DEF BatchGood
<1>2. Ahead(p, r) /\ SameNodes(p, r)
  BY <1>1, SkipsAhead
<1>3. Batched!ScanScalar(p) = q
  BY DEF Batched!ScanScalar
<1>4. type \in EventTypes
  BY DEF EventTypes
<1> HIDE DEF r, type
<1>5. r \in BatchParsers /\ r.at \in Nat /\ first \in Nat /\ p.at < first /\ first <= r.at + 1
  BY <1>1, <1>2, BatchFields DEF Ahead
<1> HIDE DEF first
<1>6. MadeOf(e, first, r.at) /\ Pushed(r, q, e)
  BY <1>4, <1>5, PushNodeTyped
<1> HIDE DEF e, q
<1>7. BatchGood(d, q, n)
  BY <1>2, <1>5, <1>6, RunGood
<1> QED BY <1>3, <1>7

\* An alias.
LEMMA AliasGood ==
    ASSUME BatchText, NEW d \in Seq(NodeEvents), NEW p, NEW n \in Nat, BatchGood(d, p, n),
           p.at < Len(text)
    PROVE  BatchGood(d, Batched!ScanAlias(p), n)
<1> DEFINE s == Batched!advance(p, 1)
           r == Batched!IdentifierEnd(s)
           first == p.at + 2
           type == "Alias"
           e == Batched!Event(type, first, r.at, FALSE)
           q == Batched!Push(r, type, first, r.at)
<1>1. p \in BatchParsers /\ p.at \in Nat /\ Len(text) \in Nat
  BY BatchFields DEF BatchGood
<1>2. Ahead(p, s) /\ SameNodes(p, s) /\ (p.at + 1 <= Len(text) => s.at = p.at + 1)
  BY <1>1, AdvancesAhead
<1>3. Batched!ScanAlias(p) = q
  BY DEF Batched!ScanAlias
<1>4. type \in EventTypes
  BY DEF EventTypes
<1>5. s \in BatchParsers
  BY <1>2 DEF Ahead
<1>6. Ahead(s, r) /\ SameNodes(s, r)
  BY <1>5, SkipsAhead DEF Batched!IdentifierEnd
<1> HIDE DEF s, r, type
<1>7. Ahead(p, r)
  BY <1>1, <1>2, <1>6, AheadTwice
<1>8. SameNodes(p, r)
  BY <1>2, <1>6 DEF SameNodes
<1>9. r \in BatchParsers /\ r.at \in Nat /\ first \in Nat /\ p.at < first /\ first <= r.at + 1
  <2>1. r \in BatchParsers /\ s.at <= r.at
    BY <1>6 DEF Ahead
  <2>2. r.at \in Nat /\ s.at = p.at + 1
    BY <1>1, <1>2, <2>1, BatchFields
  <2> QED BY <1>1, <2>1, <2>2
<1> HIDE DEF first
<1>10. MadeOf(e, first, r.at) /\ Pushed(r, q, e)
  BY <1>4, <1>9, PushTyped
<1> HIDE DEF e, q
<1>11. BatchGood(d, q, n)
  BY <1>7, <1>8, <1>9, <1>10, RunGood
<1> QED BY <1>3, <1>11

\* An anchor.
LEMMA AnchorGood ==
    ASSUME BatchText, NEW d \in Seq(NodeEvents), NEW p, NEW n \in Nat, BatchGood(d, p, n)
    PROVE  BatchGood(d, Batched!ScanAnchor(p), n)
<1> DEFINE s == Batched!advance(p, 1)
           r == Batched!IdentifierEnd(s)
           q == [r EXCEPT !.pending_anchor = TRUE]
<1>1. p \in BatchParsers
  BY DEF BatchGood
<1>2. Ahead(p, s) /\ SameNodes(p, s)
  BY <1>1, AdvancesAhead
<1>3. s \in BatchParsers
  BY <1>2 DEF Ahead
<1>4. Ahead(s, r) /\ SameNodes(s, r)
  BY <1>3, SkipsAhead DEF Batched!IdentifierEnd
<1>5. Batched!ScanAnchor(p) = q
  BY DEF Batched!ScanAnchor
<1> HIDE DEF s, r
<1>6. Ahead(p, r) /\ SameNodes(p, r)
  BY <1>1, <1>2, <1>4, AheadTwice DEF SameNodes
<1>7. r \in BatchParsers
  BY <1>6 DEF Ahead
<1>8. q \in BatchParsers /\ q.at = r.at /\ q.events = r.events /\ q.depth = r.depth
      /\ q.state_stack = r.state_stack /\ q.stream_ended = r.stream_ended
  BY <1>7 DEF BatchParsers
<1> HIDE DEF q
<1>9. Ahead(p, q) /\ q.events = p.events /\ q.depth = p.depth /\ q.state_stack = p.state_stack
  BY <1>6, <1>8 DEF Ahead, SameNodes
<1>10. BatchGood(d, q, n)
  BY <1>9, BatchMoves
<1> QED BY <1>5, <1>10

\* A comment.
LEMMA CommentGood ==
    ASSUME BatchText, NEW d \in Seq(NodeEvents), NEW p, NEW n \in Nat, BatchGood(d, p, n)
    PROVE  BatchGood(d, Batched!skip_comment_simple(p), n)
<1> DEFINE s == Batched!SkipTo(p, {i \in DOMAIN text : text[i] = "\n"})
           q == Batched!advance(s, 1)
<1>1. p \in BatchParsers
  BY DEF BatchGood
<1>2. Ahead(p, s) /\ SameNodes(p, s)
  BY <1>1, SkipsAhead
<1>3. s \in BatchParsers
  BY <1>2 DEF Ahead
<1>4. Ahead(s, q) /\ SameNodes(s, q)
  BY <1>3, AdvancesAhead
<1>5. Batched!skip_comment_simple(p) = q
  BY DEF Batched!skip_comment_simple
<1> HIDE DEF s, q
<1>6. Ahead(p, q) /\ q.events = p.events /\ q.depth = p.depth /\ q.state_stack = p.state_stack
  BY <1>1, <1>2, <1>4, AheadTwice DEF SameNodes
<1>7. BatchGood(d, q, n)
  BY <1>6, BatchMoves
<1> QED BY <1>5, <1>7

\* Whitespace is skipped to the next character, or not at all.
LEMMA WhitespaceGood ==
    ASSUME BatchText, NEW d \in Seq(NodeEvents), NEW p, NEW n \in Nat, BatchGood(d, p, n)
    PROVE  /\ BatchGood(d, Batched!skip_whitespace(p), n)
           /\ Batched!current_char(p) \notin {" ", "end"} =>
                  /\ Batched!skip_whitespace(p).at = p.at
                  /\ p.at < Len(text)
<1> DEFINE stops == {i \in DOMAIN text : text[i] # " "}
           q == Batched!SkipTo(p, stops)
<1>1. p \in BatchParsers /\ p.at \in Nat /\ Len(text) \in Nat /\ DOMAIN text = 1 .. Len(text)
  BY BatchFields DEF BatchGood, BatchText
<1>2. Batched!skip_whitespace(p) = q
  BY DEF Batched!skip_whitespace
<1>3. Ahead(p, q) /\ SameNodes(p, q)
  BY <1>1, SkipsAhead
<1>4. ASSUME Batched!current_char(p) \notin {" ", "end"}
      PROVE  q.at = p.at /\ p.at < Len(text)
  <2> DEFINE k == p.at + 1
             found == {i \in k .. Len(text) : i \in stops}
             m == Batched!Min(found)
  <2>1. k \in DOMAIN text /\ text[k] # " "
    BY <1>4 DEF Batched!current_char, Batched!CharAt
  <2>2. k \in Nat /\ k <= Len(text) /\ p.at < Len(text) /\ k - 1 = p.at
    <3> DEFINE a == p.at
               n1 == Len(text)
    <3>1. a \in Nat /\ n1 \in Nat /\ a + 1 \in 1 .. n1
      BY <1>1, <2>1
    <3> HIDE DEF a, n1
    <3>2. a + 1 \in Nat /\ a + 1 <= n1 /\ a < n1 /\ a + 1 - 1 = a
      BY <3>1
    <3> QED BY <3>1, <3>2 DEF a, n1
  <2>3. Batched!SkipTo(p, stops) = [p EXCEPT !.at = IF found = {} THEN Len(text) ELSE m - 1]
    BY DEF Batched!SkipTo
  <2> HIDE DEF k
  <2>4. k \in found /\ found \in SUBSET Nat /\ \A i \in found : k <= i
    <3>0. k \in stops
      BY <2>1
    <3>1. k \in stops /\ k \in k .. Len(text)
      <4> HIDE DEF stops
      <4> QED BY <1>1, <2>2, <3>0
    <3>2. \A i \in k .. Len(text) : i \in Nat /\ k <= i
      BY <1>1, <2>2
    <3> HIDE DEF stops
    <3> QED BY <3>1, <3>2
  <2>5. m = Min(found)
    BY DEF Batched!Min, Min
  <2> HIDE DEF found, m
  <2>6. m \in found /\ m <= k
    BY <2>4, <2>5, MinBounds
  <2>7. m = k
    <3>1. m \in Nat /\ k <= m
      BY <2>4, <2>6
    <3> QED BY <2>2, <2>6, <3>1
  <2>8. q = [p EXCEPT !.at = m - 1] /\ m - 1 = p.at
    BY <2>2, <2>3, <2>4, <2>7
  <2> HIDE DEF q
  <2>9. q.at = p.at
    BY <1>1, <2>8 DEF BatchParsers
  <2> QED BY <2>2, <2>9
<1> HIDE DEF q
<1>5. BatchGood(d, q, n)
  BY <1>3, BatchMoves DEF SameNodes
<1> QED BY <1>2, <1>4, <1>5

\* A character that is nothing.
LEMMA AdvanceGood ==
    ASSUME BatchText, NEW d \in Seq(NodeEvents), NEW p, NEW n \in Nat, BatchGood(d, p, n)
    PROVE  BatchGood(d, Batched!advance(p, 1), n)
<1> DEFINE q == Batched!advance(p, 1)
<1>1. p \in BatchParsers
  BY DEF BatchGood
<1>2. Ahead(p, q) /\ SameNodes(p, q)
  BY <1>1, AdvancesAhead
<1> HIDE DEF q
<1>3. BatchGood(d, q, n)
  BY <1>2, BatchMoves DEF SameNodes
<1> QED BY <1>3 DEF q

\* One character of the batch opens one collection at most.
LEMMA StepGood ==
    ASSUME BatchText, NEW d \in Seq(NodeEvents), NEW p, NEW n \in Nat, BatchGood(d, p, n)
    PROVE  BatchGood(d, Batched!ZeroCopyStep(p), n + 1)
<1> DEFINE ch == Batched!current_char(p)
           q == Batched!skip_whitespace(p)
           z == Batched!ZeroCopyStep(p)
<1>1. BatchGood(d, q, n) /\ (ch \notin {" ", "end"} => q.at = p.at /\ q.at < Len(text))
  BY WhitespaceGood
<1>2. q \in BatchParsers /\ Batched!current_char(q) = Batched!CharAt(q.at + 1) /\ ch = Batched!CharAt(p.at + 1)
  BY <1>1 DEF BatchGood, Batched!current_char
<1>3. \A r : BatchGood(d, r, n) => BatchGood(d, r, n + 1)
  <2> SUFFICES ASSUME NEW r, BatchGood(d, r, n) PROVE BatchGood(d, r, n + 1)
    OBVIOUS
  <2>1. r \in BatchParsers /\ r.depth \in Nat /\ r.depth <= n
    BY BatchFields DEF BatchGood
  <2> QED BY <2>1 DEF BatchGood
<1>4. CASE ch = "-" /\ Batched!IsMarker(q, "-")
  <2>1. z = Batched!Marker(q, "DocumentStart")
    BY <1>4 DEF Batched!ZeroCopyStep
  <2>2. BatchGood(d, Batched!Marker(q, "DocumentStart"), n)
    BY <1>1, <1>4, MarkerGood DEF EventTypes, BatchStates
  <2> QED BY <1>3, <2>1, <2>2
<1>5. CASE ch = "." /\ Batched!IsMarker(q, ".")
  <2>1. z = Batched!Marker(q, "DocumentEnd")
    BY <1>5 DEF Batched!ZeroCopyStep
  <2>2. BatchGood(d, Batched!Marker(q, "DocumentEnd"), n)
    BY <1>1, <1>5, MarkerGood DEF EventTypes, BatchStates
  <2> QED BY <1>3, <2>1, <2>2
<1>6. CASE ch \in {"[", "]", "{", "}"}
  <2>1. z = Batched!advance(Batched!Bracket(q), 1)
    BY <1>6 DEF Batched!ZeroCopyStep
  <2>2. Batched!current_char(q) = ch /\ q.at < Len(text)
    BY <1>1, <1>2, <1>6
  <2>3. CASE ch = "["
    <3>1. Batched!Bracket(q) = Batched!PushNode(Batched!push_state(q, "FlowSequence"),
                                                "SequenceStart", q.at + 1, q.at + 1)
      BY <2>2, <2>3 DEF Batched!Bracket
    <3> QED BY <1>1, <2>1, <2>2, <3>1, OpenGood DEF EventTypes, BatchStates
  <2>4. CASE ch = "{"
    <3>1. Batched!Bracket(q) = Batched!PushNode(Batched!push_state(q, "FlowMapping"),
                                                "MappingStart", q.at + 1, q.at + 1)
      BY <2>2, <2>4 DEF Batched!Bracket
    <3> QED BY <1>1, <2>1, <2>2, <3>1, OpenGood DEF EventTypes, BatchStates
  <2>5. CASE ch = "]"
    <3>1. Batched!Bracket(q) = Batched!pop_state(Batched!Push(q, "SequenceEnd", q.at + 1, q.at + 1))
      BY <2>2, <2>5 DEF Batched!Bracket
    <3>2. BatchGood(d, z, n)
      BY <1>1, <2>1, <2>2, <3>1, CloseGood DEF EventTypes
    <3> QED BY <1>3, <3>2
  <2>6. CASE ch = "}"
    <3>1. Batched!Bracket(q) = Batched!pop_state(Batched!Push(q, "MappingEnd", q.at + 1, q.at + 1))
      BY <2>2, <2>6 DEF Batched!Bracket
    <3>2. BatchGood(d, z, n)
      BY <1>1, <2>1, <2>2, <3>1, CloseGood DEF EventTypes
    <3> QED BY <1>3, <3>2
  <2> QED BY <1>6, <2>3, <2>4, <2>5, <2>6
<1>7. CASE ch = "#"
  <2>1. z = Batched!skip_comment_simple(q)
    BY <1>7 DEF Batched!ZeroCopyStep
  <2> QED BY <1>1, <1>3, <2>1, CommentGood
<1>8. CASE ch = "a"
  <2>1. z = Batched!ScanScalar(q)
    BY <1>8 DEF Batched!ZeroCopyStep
  <2> QED BY <1>1, <1>3, <2>1, ScalarGood
<1>9. CASE ch = "&"
  <2>1. z = Batched!ScanAnchor(q)
    BY <1>9 DEF Batched!ZeroCopyStep
  <2> QED BY <1>1, <1>3, <2>1, AnchorGood
<1>10. CASE ch = "*"
  <2>1. z = Batched!ScanAlias(q)
    BY <1>10 DEF Batched!ZeroCopyStep
  <2>2. q.at < Len(text)
    BY <1>1, <1>10
  <2> QED BY <1>1, <1>3, <2>1, <2>2, AliasGood
<1>11. CASE /\ ~(ch = "-" /\ Batched!IsMarker(q, "-")) /\ ~(ch = "." /\ Batched!IsMarker(q, "."))
            /\ ch \notin {"[", "]", "{", "}", "#", "a", "&", "*"}
  <2>1. z = Batched!advance(q, 1)
    BY <1>11 DEF Batched!ZeroCopyStep
  <2> QED BY <1>1, <1>3, <2>1, AdvanceGood
<1> QED BY <1>4, <1>5, <1>6, <1>7, <1>8, <1>9, <1>10, <1>11

\* The end of the stream.
LEMMA EndGood ==
    ASSUME BatchText, NEW d \in Seq(NodeEvents), NEW p, NEW n \in Nat, BatchGood(d, p, n)
    PROVE  BatchGood(d, Batched!EndStream(p), n)
<1> DEFINE first == p.at + 1
           type == "StreamEnd"
           e == Batched!Event(type, first, p.at, FALSE)
           s == Batched!Push(p, type, first, p.at)
           q == [s EXCEPT !.stream_ended = TRUE]
<1>1. /\ p \in BatchParsers /\ p.at \in Nat /\ first \in Nat
      /\ p.depth = Len(p.state_stack) /\ p.depth <= n
  BY BatchFields DEF BatchGood
<1>2. type \in EventTypes
  BY DEF EventTypes
<1>3. Batched!EndStream(p) = q
  BY DEF Batched!EndStream, Batched!PushMark
<1> HIDE DEF first, type
<1>4. MadeOf(e, first, p.at) /\ Pushed(p, s, e)
  BY <1>1, <1>2, PushTyped
<1> HIDE DEF s, e
<1>5. /\ q \in BatchParsers /\ q.at = s.at /\ q.events = s.events /\ q.depth = s.depth
      /\ q.state_stack = s.state_stack
  BY <1>4 DEF Pushed, BatchParsers
<1> HIDE DEF q
<1>6. /\ q.at = p.at /\ q.events = Append(p.events, e)
      /\ q.depth = Len(q.state_stack) /\ q.depth <= n
  BY <1>1, <1>4, <1>5 DEF Pushed
<1>7. p.at <= q.at /\ e \in NodeEvents /\ e.first \in 1 .. q.at + 1 /\ e.last \in 0 .. q.at /\ p.at < e.first
  BY <1>1, <1>4, <1>6 DEF MadeOf, first
<1>8. BatchGood(d, q, n)
  BY <1>5, <1>6, <1>7, BatchEmits
<1> QED BY <1>3, <1>8

-----------------------------------------------------------------------------
\* The loops of the batches, as folds (FoldProofs).
TokenTurn(r, n) == Batched!process_token(r)
CharacterFold == INSTANCE FoldProofs WITH Op <- Batched!ZeroCopyTurn
TokenFold == INSTANCE FoldProofs WITH Op <- TokenTurn
BatchFold == INSTANCE FoldProofs WITH Op <- Batched!BatchTurn

\* One turn more.
LEMMA TurnsGrow ==
    /\ Batched!Turns(0) = <<>>
    /\ \A n \in Nat : /\ Batched!Turns(n) \in Seq(Nat)
                      /\ Batched!Turns(n + 1) = Append(Batched!Turns(n), n + 1)
<1>1. Batched!Turns(0) = <<>>
  BY DEF Batched!Turns
<1>2. ASSUME NEW n \in Nat
      PROVE  /\ Batched!Turns(n) \in Seq(Nat)
             /\ Batched!Turns(n + 1) = Append(Batched!Turns(n), n + 1)
  <2> DEFINE s == Batched!Turns(n)
             t == Batched!Turns(n + 1)
             u == Append(s, n + 1)
  <2>1. s = [i \in 1 .. n |-> i] /\ t = [i \in 1 .. n + 1 |-> i]
    BY DEF Batched!Turns
  <2> HIDE DEF s, t
  <2>2. s \in Seq(Nat) /\ Len(s) = n /\ \A i \in 1 .. n : s[i] = i
    BY <2>1
  <2>3. t \in Seq(Nat) /\ Len(t) = n + 1 /\ \A i \in 1 .. n + 1 : t[i] = i
    BY <2>1
  <2>4. /\ u \in Seq(Nat) /\ Len(u) = n + 1
        /\ \A i \in 1 .. n : u[i] = s[i]
        /\ u[n + 1] = n + 1
    BY <2>2
  <2> HIDE DEF u
  <2>5. \A i \in 1 .. n + 1 : t[i] = u[i]
    <3>1. \A i \in 1 .. n + 1 : i \in 1 .. n \/ i = n + 1
      OBVIOUS
    <3> QED BY <2>2, <2>3, <2>4, <3>1
  <2>6. t = u
    BY <2>3, <2>4, <2>5, SeqEqual
  <2> QED BY <2>2, <2>6 DEF s, t, u
<1> QED BY <1>1, <1>2

\* More may be open.
LEMMA BatchDeeper ==
    ASSUME BatchText, NEW d, NEW p, NEW n \in Nat, BatchGood(d, p, n), NEW m \in Nat, n <= m
    PROVE  BatchGood(d, p, m)
<1>1. p \in BatchParsers /\ p.depth \in Nat /\ p.depth <= n
  BY BatchFields DEF BatchGood
<1> QED BY <1>1 DEF BatchGood

\* A turn of generate_events_zero_copy.
LEMMA CharacterTurnGood ==
    ASSUME BatchText, NEW d \in Seq(NodeEvents), NEW p, NEW n \in Nat, BatchGood(d, p, n), NEW k
    PROVE  BatchGood(d, Batched!ZeroCopyTurn(p, k), n + 1)
<1>1. n + 1 \in Nat /\ n <= n + 1
  OBVIOUS
<1>2. BatchGood(d, p, n + 1)
  BY <1>1, BatchDeeper
<1>3. BatchGood(d, Batched!EndStream(p), n + 1)
  BY <1>1, <1>2, EndGood
<1>4. BatchGood(d, Batched!ZeroCopyStep(p), n + 1)
  BY StepGood
<1> QED BY <1>2, <1>3, <1>4 DEF Batched!ZeroCopyTurn

\* A batch of n characters opens n collections at most.
LEMMA CharactersGood ==
    ASSUME BatchText, NEW d \in Seq(NodeEvents), NEW p, NEW n \in Nat, BatchGood(d, p, n),
           NEW m \in Nat
    PROVE  BatchGood(d, Batched!FoldLeft(Batched!ZeroCopyTurn, p, Batched!Turns(m)), n + m)
<1> DEFINE S == {k \in Nat : BatchGood(d, CharacterFold!Fold(p, Batched!Turns(k)), n + k)}
<1>1. 0 \in S
  <2>1. CharacterFold!Fold(p, Batched!Turns(0)) = p /\ n + 0 = n
    BY TurnsGrow, CharacterFold!FoldEmpty
  <2> QED BY <2>1
<1>2. ASSUME NEW k \in Nat, k \in S PROVE k + 1 \in S
  <2> DEFINE q == CharacterFold!Fold(p, Batched!Turns(k))
             s == Batched!Turns(k)
  <2>0. Batched!Turns(k) \in Seq(Nat) /\ Batched!Turns(k + 1) = Append(Batched!Turns(k), k + 1)
    <3> HIDE DEF S
    <3> QED BY TurnsGrow
  <2>1. s \in Seq(Nat) /\ Batched!Turns(k + 1) = Append(s, k + 1) /\ k + 1 \in Nat
    BY <2>0
  <2>2. CharacterFold!Fold(p, Append(s, k + 1)) = Batched!ZeroCopyTurn(q, k + 1)
    <3> HIDE DEF s
    <3>1. CharacterFold!Fold(p, Append(s, k + 1))
              = Batched!ZeroCopyTurn(CharacterFold!Fold(p, s), k + 1)
      BY <2>1, CharacterFold!FoldAppend
    <3> QED BY <3>1 DEF s
  <2>3. BatchGood(d, q, n + k) /\ n + k \in Nat /\ (n + k) + 1 = n + (k + 1)
    BY <1>2
  <2> HIDE DEF q
  <2>4. BatchGood(d, Batched!ZeroCopyTurn(q, k + 1), (n + k) + 1)
    BY <2>3, CharacterTurnGood
  <2>5. CharacterFold!Fold(p, Batched!Turns(k + 1)) = Batched!ZeroCopyTurn(q, k + 1)
    BY <2>1, <2>2
  <2> QED BY <2>1, <2>3, <2>4, <2>5
<1> HIDE DEF S
<1>3. m \in S
  BY <1>1, <1>2, NaturalInduction
<1>4. CharacterFold!Fold(p, Batched!Turns(m))
          = Batched!FoldLeft(Batched!ZeroCopyTurn, p, Batched!Turns(m))
  BY Zenon DEF CharacterFold!Fold, CharacterFold!FoldLeft, CharacterFold!MapThenFoldSet,
               CharacterFold!Max, Batched!FoldLeft, Batched!MapThenFoldSet, Batched!Max
<1> QED BY <1>3, <1>4 DEF S

-----------------------------------------------------------------------------
\* A token that is an event.
LEMMA TokenEvent ==
    ASSUME BatchText, NEW d \in Seq(NodeEvents), NEW p, NEW n \in Nat, BatchGood(d, p, n),
           p.at < Len(text),
           NEW e, NEW r, Pushed(Batched!advance(p, 1), r, e), MadeOf(e, p.at + 1, p.at + 1),
           NEW q \in BatchParsers, q.at = r.at, q.events = r.events,
           q.state_stack = r.state_stack, q.depth = r.depth
    PROVE  BatchGood(d, q, n)
<1> DEFINE a == Batched!advance(p, 1)
<1>1. p \in BatchParsers /\ p.depth = Len(p.state_stack) /\ p.depth <= n
  BY DEF BatchGood
<1>2. p.at \in Nat /\ Len(text) \in Nat
  BY <1>1, BatchFields
<1>3. Ahead(p, a) /\ SameNodes(p, a) /\ (p.at + 1 <= Len(text) => a.at = p.at + 1)
  BY <1>1, AdvancesAhead
<1> HIDE DEF a
<1>4. Pushed(a, r, e)
  BY DEF a
<1>7. /\ r.events = Append(a.events, e) /\ r.at = a.at
      /\ r.depth = a.depth /\ r.state_stack = a.state_stack
  BY <1>4 DEF Pushed
<1>8. a.events = p.events /\ a.depth = p.depth /\ a.state_stack = p.state_stack
  BY <1>3 DEF SameNodes
<1>9. a.at = p.at + 1
  BY <1>2, <1>3
<1>5. /\ q.at = p.at + 1 /\ q.events = Append(p.events, e)
      /\ q.depth = Len(q.state_stack) /\ q.depth <= n
  BY <1>1, <1>7, <1>8, <1>9
<1>6. p.at <= q.at /\ e \in NodeEvents /\ e.first \in 1 .. q.at + 1 /\ e.last \in 0 .. q.at /\ p.at < e.first
  BY <1>2, <1>5 DEF MadeOf
<1> QED BY <1>5, <1>6, BatchEmits

\* process_token.
LEMMA TokenGood ==
    ASSUME BatchText, NEW d \in Seq(NodeEvents), NEW p, NEW n \in Nat, BatchGood(d, p, n)
    PROVE  BatchGood(d, Batched!process_token(p), n)
<1> DEFINE token == Batched!current_char(p)
           a == Batched!advance(p, 1)
<1>1. p \in BatchParsers /\ p.at \in Nat /\ Len(text) \in Nat
  BY BatchFields DEF BatchGood
<1>2. Ahead(p, a) /\ SameNodes(p, a) /\ (p.at + 1 <= Len(text) => a.at = p.at + 1)
  BY <1>1, AdvancesAhead
<1>3. token # "end" => p.at < Len(text) /\ a.at = p.at + 1
  <2>1. token = Batched!CharAt(p.at + 1)
    BY DEF Batched!current_char
  <2>2. token # "end" => p.at + 1 <= Len(text)
    BY <1>1, <2>1, CharacterAhead
  <2> HIDE DEF token, a
  <2> QED BY <1>1, <1>2, <2>2
<1>4. a \in BatchParsers /\ a.at \in Nat
  <2>1. a \in BatchParsers
    BY <1>2 DEF Ahead
  <2> QED BY <2>1, BatchFields
<1>5. CASE token = "StreamStart"
  <2> DEFINE type == "StreamStart"
             e == Batched!Event(type, a.at, a.at, FALSE)
             r == Batched!Push(a, type, a.at, a.at)
             state == "ImplicitDocumentStart"
             q == [r EXCEPT !.state = state]
  <2>1. type \in EventTypes /\ state \in BatchStates
    BY DEF EventTypes, BatchStates
  <2>2. Batched!process_token(p) = q
    BY <1>5 DEF Batched!process_token
  <2>3. a.at = p.at + 1 /\ p.at < Len(text)
    BY <1>3, <1>5
  <2> HIDE DEF type, state
  <2>4. MadeOf(e, a.at, a.at) /\ Pushed(a, r, e)
    <3> HIDE DEF a
    <3> QED BY <1>4, <2>1, PushTyped
  <2> HIDE DEF r, e
  <2>5. /\ q \in BatchParsers /\ q.at = r.at /\ q.events = r.events
        /\ q.state_stack = r.state_stack /\ q.depth = r.depth
    BY <2>1, <2>4 DEF Pushed, BatchParsers
  <2> HIDE DEF q
  <2>6. MadeOf(e, p.at + 1, p.at + 1)
    BY <2>3, <2>4
  <2>7. BatchGood(d, q, n)
    BY <2>3, <2>4, <2>5, <2>6, TokenEvent
  <2> QED BY <2>2, <2>7
<1>6. CASE token = "StreamEnd"
  <2> DEFINE type == "StreamEnd"
             e == Batched!Event(type, a.at, a.at, FALSE)
             r == Batched!Push(a, type, a.at, a.at)
             q == [r EXCEPT !.stream_ended = TRUE]
  <2>1. type \in EventTypes
    BY DEF EventTypes
  <2>2. Batched!process_token(p) = q
    BY <1>6 DEF Batched!process_token
  <2>3. a.at = p.at + 1 /\ p.at < Len(text)
    BY <1>3, <1>6
  <2> HIDE DEF type
  <2>4. MadeOf(e, a.at, a.at) /\ Pushed(a, r, e)
    <3> HIDE DEF a
    <3> QED BY <1>4, <2>1, PushTyped
  <2> HIDE DEF r, e
  <2>5. /\ q \in BatchParsers /\ q.at = r.at /\ q.events = r.events
        /\ q.state_stack = r.state_stack /\ q.depth = r.depth
    BY <2>4 DEF Pushed, BatchParsers
  <2> HIDE DEF q
  <2>6. MadeOf(e, p.at + 1, p.at + 1)
    BY <2>3, <2>4
  <2>7. BatchGood(d, q, n)
    BY <2>3, <2>4, <2>5, <2>6, TokenEvent
  <2> QED BY <2>2, <2>7
<1>7. CASE token = "Scalar"
  <2> DEFINE type == "Scalar"
             e == Batched!Event(type, a.at, a.at, a.pending_anchor)
             q == Batched!PushNode(a, type, a.at, a.at)
  <2>1. type \in EventTypes
    BY DEF EventTypes
  <2>2. Batched!process_token(p) = q
    BY <1>7 DEF Batched!process_token
  <2>3. a.at = p.at + 1 /\ p.at < Len(text)
    BY <1>3, <1>7
  <2> HIDE DEF type
  <2>4. MadeOf(e, a.at, a.at) /\ Pushed(a, q, e)
    <3> HIDE DEF a
    <3> QED BY <1>4, <2>1, PushNodeTyped
  <2> HIDE DEF q, e
  <2>5. MadeOf(e, p.at + 1, p.at + 1) /\ q \in BatchParsers
    BY <2>3, <2>4 DEF Pushed
  <2>6. BatchGood(d, q, n)
    BY <2>3, <2>4, <2>5, TokenEvent
  <2> QED BY <2>2, <2>6
<1>8. CASE token \notin {"StreamStart", "StreamEnd", "Scalar"}
  <2>1. Batched!process_token(p) = a
    BY <1>8 DEF Batched!process_token
  <2> QED BY <2>1, AdvanceGood
<1> QED BY <1>5, <1>6, <1>7, <1>8

\* A batch of tokens.
LEMMA TokensGood ==
    ASSUME BatchText, NEW d \in Seq(NodeEvents), NEW p, NEW n \in Nat, BatchGood(d, p, n),
           NEW m \in Nat
    PROVE  BatchGood(d, Batched!FoldLeft(TokenTurn, p, Batched!Turns(m)), n)
<1> DEFINE A == {q \in BatchParsers : BatchGood(d, q, n)}
<1>1. p \in A
  BY DEF BatchGood
<1>2. \A a \in A, e \in Nat : TokenTurn(a, e) \in A
  BY TokenGood DEF TokenTurn, BatchGood
<1>3. Batched!Turns(m) \in Seq(Nat)
  BY TurnsGrow
<1> HIDE DEF A
<1>4. TokenFold!Fold(p, Batched!Turns(m)) \in A
  BY <1>1, <1>2, <1>3, TokenFold!FoldInvariant
<1>5. TokenFold!Fold(p, Batched!Turns(m)) = Batched!FoldLeft(TokenTurn, p, Batched!Turns(m))
  BY Zenon DEF TokenFold!Fold, TokenFold!FoldLeft, TokenFold!MapThenFoldSet,
               TokenFold!Max, Batched!FoldLeft, Batched!MapThenFoldSet, Batched!Max
<1> QED BY <1>4, <1>5 DEF A

-----------------------------------------------------------------------------
\* generate_events, which a deep parser does not come to.
BatchLimit == MaxNesting + BatchSize

\* A batch of tokens keeps what holds of the parser.
LEMMA TraditionalGood ==
    ASSUME BatchText, NEW d \in Seq(NodeEvents), NEW p, NEW n \in Nat, BatchGood(d, p, n)
    PROVE  BatchGood(d, Batched!Traditional(p), n)
<1> DEFINE tokens == IF Len(text) - p.at < TokenBatch THEN Len(text) - p.at ELSE TokenBatch
           q == Batched!FoldLeft(TokenTurn, p, Batched!Turns(tokens))
<1>1. tokens \in Nat
  <2>1. p \in BatchParsers
    BY DEF BatchGood
  <2>2. p.at \in Nat /\ Len(text) \in Nat /\ p.at <= Len(text)
    BY <2>1, BatchFields
  <2> QED BY <2>2, BatchAssumption
<1>2. Batched!Traditional(p) = IF tokens < TokenBatch THEN Batched!EndStream(q) ELSE q
  BY Zenon DEF Batched!Traditional, TokenTurn, Batched!FoldLeft, Batched!MapThenFoldSet
<1> HIDE DEF tokens
<1>3. BatchGood(d, q, n)
  BY <1>1, TokensGood
<1> HIDE DEF q
<1>4. BatchGood(d, Batched!EndStream(q), n)
  BY <1>3, EndGood
<1> QED BY <1>2, <1>3, <1>4

\* next_event_internal, when it does not fail.
LEMMA NextGood ==
    ASSUME BatchText, NEW d \in Seq(NodeEvents), NEW p, BatchGood(d, p, BatchLimit),
           ~Batched!Fails(p)
    PROVE  BatchGood(d, Batched!next_event_internal(p), BatchLimit)
<1>1. MaxNesting \in Nat /\ BatchSize \in Nat /\ BatchLimit \in Nat /\ MaxNesting <= BatchLimit
  BY BatchAssumption DEF BatchLimit
<1>2. CASE p.events # <<>> \/ p.stream_ended
  <2>1. Batched!next_event_internal(p) = p
    BY <1>2 DEF Batched!next_event_internal, Batched!generate_events
  <2> QED BY <2>1
<1>3. CASE p.events = <<>> /\ ~p.stream_ended
  <2>1. p.depth <= MaxNesting
    <3>1. p \in BatchParsers
      BY DEF BatchGood
    <3>2. p.depth \in Nat
      BY <3>1, BatchFields
    <3>3. ~(p.depth > MaxNesting)
      BY <1>3 DEF Batched!Fails, Batched!TooDeep
    <3> QED BY <1>1, <3>2, <3>3
  <2>2. BatchGood(d, p, MaxNesting)
    BY <2>1 DEF BatchGood
  <2>3. BatchGood(d, Batched!FoldLeft(Batched!ZeroCopyTurn, p, Batched!Turns(BatchSize)), BatchLimit)
    BY <1>1, <2>2, CharactersGood DEF BatchLimit
  <2>4. BatchGood(d, Batched!Traditional(p), BatchLimit)
    BY <1>1, TraditionalGood
  <2>5. Batched!next_event_internal(p)
            = IF option.zero_copy THEN Batched!FoldLeft(Batched!ZeroCopyTurn, p, Batched!Turns(BatchSize))
              ELSE Batched!Traditional(p)
    BY <1>3, Zenon DEF Batched!next_event_internal, Batched!generate_events
  <2> QED BY <2>3, <2>4, <2>5
<1> QED BY <1>2, <1>3

\* An event is given out.
LEMMA BatchDelivers ==
    ASSUME BatchText, NEW d \in Seq(NodeEvents), NEW p, NEW n \in Nat, BatchGood(d, p, n),
           p.events # <<>>
    PROVE  /\ BatchGood(Append(d, Head(p.events)), [p EXCEPT !.events = Tail(@)], n)
           /\ Append(d, Head(p.events)) \in Seq(NodeEvents)
<1> DEFINE s == p.events
           t == Tail(s)
           c == Append(d, Head(s))
           q == [p EXCEPT !.events = t]
<1>1. p \in BatchParsers /\ Spans(d \o s, p.at) /\ p.depth = Len(p.state_stack) /\ p.depth <= n
  BY DEF BatchGood
<1>2. s \in Seq(NodeEvents)
  BY <1>1, BatchFields
<1>3. c \o t = d \o s /\ c \in Seq(NodeEvents) /\ t \in Seq(NodeEvents)
  <2> HIDE DEF s
  <2> QED BY <1>2, QueueDeliver DEF s
<1> HIDE DEF c, t
<1>4. /\ q \in BatchParsers /\ q.events = t /\ q.at = p.at /\ q.depth = p.depth
      /\ q.state_stack = p.state_stack
  BY <1>1, <1>3 DEF BatchParsers
<1> HIDE DEF q
<1>5. BatchGood(c, q, n)
  BY <1>1, <1>3, <1>4 DEF BatchGood
<1> QED BY <1>3, <1>5 DEF c, q, t

-----------------------------------------------------------------------------
\* What holds of a batch that next_batch collects; nothing is left in the buffer when an
\* event fails.
Batches ==
    {b \in [parser : BatchParsers, batch : Seq(NodeEvents), stopped : BOOLEAN, failed : BOOLEAN] :
        /\ BatchGood(delivered \o b.batch, b.parser, BatchLimit)
        /\ b.failed => b.stopped /\ b.parser.events = <<>>}

\* A turn of next_batch.
LEMMA BatchTurnGood ==
    ASSUME BatchText, delivered \in Seq(NodeEvents), NEW b \in Batches, NEW k
    PROVE  Batched!BatchTurn(b, k) \in Batches
<1> DEFINE z == Batched!BatchTurn(b, k)
           p == Batched!next_event_internal(b.parser)
           d == delivered \o b.batch
<1>1. /\ b \in [parser : BatchParsers, batch : Seq(NodeEvents), stopped : BOOLEAN, failed : BOOLEAN]
      /\ BatchGood(d, b.parser, BatchLimit)
      /\ b.failed => b.stopped /\ b.parser.events = <<>>
      /\ d \in Seq(NodeEvents)
  BY DEF Batches
<1>2. BatchLimit \in Nat
  BY BatchAssumption DEF BatchLimit
<1>3. CASE b.stopped \/ b.parser.stream_ended
  <2>1. z = [b EXCEPT !.stopped = TRUE]
    BY <1>3 DEF Batched!BatchTurn
  <2> HIDE DEF z
  <2>2. z \in Batches
    BY <1>1, <2>1 DEF Batches
  <2> QED BY <2>2 DEF z
<1>4. CASE ~(b.stopped \/ b.parser.stream_ended) /\ Batched!Fails(b.parser)
  <2>1. z = [b EXCEPT !.failed = TRUE, !.stopped = TRUE]
    BY <1>4 DEF Batched!BatchTurn
  <2>2. b.parser.events = <<>>
    BY <1>4 DEF Batched!Fails
  <2> HIDE DEF z
  <2>3. z \in Batches
    BY <1>1, <2>1, <2>2 DEF Batches
  <2> QED BY <2>3 DEF z
<1>5. CASE ~(b.stopped \/ b.parser.stream_ended) /\ ~Batched!Fails(b.parser)
  <2>1. BatchGood(d, p, BatchLimit)
    BY <1>1, <1>5, NextGood
  <2>2. p \in BatchParsers
    BY <2>1 DEF BatchGood
  <2>3. ~b.failed
    BY <1>1, <1>5
  <2>4. CASE p.events = <<>>
    <3>1. z = [b EXCEPT !.parser = p, !.stopped = TRUE]
      BY <1>5, <2>4 DEF Batched!BatchTurn
    <3> HIDE DEF z, p
    <3>2. /\ z \in [parser : BatchParsers, batch : Seq(NodeEvents), stopped : BOOLEAN, failed : BOOLEAN]
          /\ z.parser = p /\ z.batch = b.batch /\ ~z.failed
      BY <1>1, <2>2, <2>3, <3>1
    <3>3. z \in Batches
      BY <2>1, <3>2 DEF Batches
    <3> QED BY <3>3 DEF z
  <2>5. CASE p.events # <<>>
    <3> DEFINE e == Head(p.events)
               q == [p EXCEPT !.events = Tail(@)]
               s == Append(b.batch, e)
    <3>1. z = [b EXCEPT !.parser = q, !.batch = s]
      BY <1>5, <2>5 DEF Batched!BatchTurn
    <3>2. BatchGood(Append(d, e), q, BatchLimit)
      <4> HIDE DEF p, d
      <4> QED BY <1>1, <1>2, <2>1, <2>5, BatchDelivers
    <3>3. e \in NodeEvents
      <4> HIDE DEF p
      <4>1. p.events \in Seq(NodeEvents)
        BY <2>2, BatchFields
      <4> QED BY <2>5, <4>1
    <3> HIDE DEF z, p, e, q
    <3>4. Append(d, e) = delivered \o s /\ s \in Seq(NodeEvents)
      <4> DEFINE c == b.batch
      <4>1. c \in Seq(NodeEvents)
        BY <1>1
      <4> HIDE DEF c
      <4>2. delivered \o Append(c, e) = Append(delivered \o c, e) /\ Append(c, e) \in Seq(NodeEvents)
        BY <3>3, <4>1, QueueAppend
      <4> QED BY <4>2 DEF c
    <3>5. q \in BatchParsers
      BY <3>2 DEF BatchGood
    <3> HIDE DEF s
    <3>6. /\ z \in [parser : BatchParsers, batch : Seq(NodeEvents), stopped : BOOLEAN, failed : BOOLEAN]
          /\ z.parser = q /\ z.batch = s /\ ~z.failed
      BY <1>1, <2>3, <3>1, <3>4, <3>5
    <3>7. z \in Batches
      BY <3>2, <3>4, <3>6 DEF Batches
    <3> QED BY <3>7 DEF z
  <2> QED BY <2>4, <2>5
<1> QED BY <1>3, <1>4, <1>5

\* next_batch collects events.
LEMMA BatchCollected ==
    ASSUME BatchText, delivered \in Seq(NodeEvents), BatchGood(delivered, parser, BatchLimit)
    PROVE  Batched!FoldLeft(Batched!BatchTurn, Batched!NewBatch, Batched!Turns(TargetSize)) \in Batches
<1> DEFINE b == Batched!NewBatch
<1>1. b \in Batches
  <2>1. /\ b = [parser |-> parser, batch |-> <<>>, stopped |-> FALSE, failed |-> FALSE]
        /\ parser \in BatchParsers /\ delivered \o <<>> = delivered /\ <<>> \in Seq(NodeEvents)
    BY DEF Batched!NewBatch, BatchGood
  <2> HIDE DEF b
  <2> QED BY <2>1 DEF Batches
<1>2. \A a \in Batches, e \in Nat : Batched!BatchTurn(a, e) \in Batches
  BY BatchTurnGood
<1>3. Batched!Turns(TargetSize) \in Seq(Nat)
  BY TurnsGrow, BatchAssumption
<1> HIDE DEF b
<1>4. BatchFold!Fold(b, Batched!Turns(TargetSize)) \in Batches
  BY <1>1, <1>2, <1>3, BatchFold!FoldInvariant
<1>5. BatchFold!Fold(b, Batched!Turns(TargetSize))
          = Batched!FoldLeft(Batched!BatchTurn, b, Batched!Turns(TargetSize))
  BY Zenon DEF BatchFold!Fold, BatchFold!FoldLeft, BatchFold!MapThenFoldSet,
               BatchFold!Max, Batched!FoldLeft, Batched!MapThenFoldSet, Batched!Max
<1> QED BY <1>4, <1>5 DEF b

-----------------------------------------------------------------------------
\* The inductive invariant of the parser that batches.
BatchInv ==
    /\ BatchText /\ ended \in BOOLEAN
    /\ delivered \in Seq(NodeEvents) /\ BatchGood(delivered, parser, BatchLimit)

\* It holds of a new parser.
LEMMA BatchStarts ==
    ASSUME NEW case \in BatchCases, StartWith(case, Batched!NewParser)
    PROVE  BatchInv
<1>1. /\ text \in Seq(STRING) /\ option \in [zero_copy : BOOLEAN, batching : BOOLEAN]
      /\ delivered = <<>> /\ ended = FALSE /\ parser = Batched!NewParser
  BY CasesAssumption DEF StartWith
<1>2. Len(text) \in Nat /\ BatchLimit \in Nat
  BY <1>1, BatchAssumption DEF BatchLimit
<1> DEFINE state == "StreamStart"
<1>3. state \in BatchStates
  BY DEF BatchStates
<1>4. parser = [at |-> 0, state |-> state, state_stack |-> <<>>, depth |-> 0,
                pending_anchor |-> FALSE, stream_ended |-> FALSE, events |-> <<>>]
  BY <1>1 DEF Batched!NewParser
<1> HIDE DEF state
<1>5. parser \in BatchParsers
  BY <1>2, <1>3, <1>4 DEF BatchParsers
<1>6. parser.events = <<>> /\ parser.at = 0 /\ parser.depth = 0 /\ parser.state_stack = <<>>
  BY <1>4
<1>7. Spans(<<>> \o <<>>, 0)
  BY DEF Spans, Within, InOrder
<1>8. BatchGood(delivered, parser, BatchLimit)
  BY <1>1, <1>2, <1>5, <1>6, <1>7 DEF BatchGood
<1>9. ended \in BOOLEAN
  BY <1>1
<1>10. BatchText /\ delivered \in Seq(NodeEvents)
  BY <1>1 DEF BatchText
<1> QED BY <1>8, <1>9, <1>10 DEF BatchInv

\* Every step of the parser keeps it.
LEMMA BatchStep ==
    ASSUME BatchInv, [Batched!Next]_parsing, UNCHANGED option
    PROVE  BatchInv'
<1>1. /\ BatchText /\ delivered \in Seq(NodeEvents) /\ BatchGood(delivered, parser, BatchLimit)
      /\ parser \in BatchParsers /\ BatchLimit \in Nat
  BY BatchAssumption DEF BatchInv, BatchLimit, BatchGood
<1>2. SUFFICES /\ text' = text /\ ended' \in BOOLEAN
               /\ delivered' \in Seq(NodeEvents) /\ BatchGood(delivered', parser', BatchLimit)
  BY <1>1 DEF BatchInv, BatchText, BatchGood, BatchParsers, BatchLimit
<1>3. CASE Batched!get_event
  <2> DEFINE p == Batched!next_event_internal(parser)
  <2>1. text' = text /\ ended' \in BOOLEAN
    BY <1>3 DEF Batched!get_event, BatchInv
  <2>2. BatchGood(delivered, p, BatchLimit)
    BY <1>1, <1>3, NextGood DEF Batched!get_event
  <2>3. IF p.events = <<>> THEN parser' = p /\ delivered' = delivered
        ELSE /\ delivered' = Append(delivered, Head(p.events))
             /\ parser' = [p EXCEPT !.events = Tail(@)]
    BY <1>3 DEF Batched!get_event
  <2> HIDE DEF p
  <2>4. CASE p.events = <<>>
    BY <1>1, <2>1, <2>2, <2>3, <2>4
  <2>5. CASE p.events # <<>>
    BY <1>1, <2>1, <2>2, <2>3, <2>5, BatchDelivers
  <2> QED BY <2>4, <2>5
<1>4. CASE Batched!next_batch
  <2> DEFINE b == Batched!FoldLeft(Batched!BatchTurn, Batched!NewBatch, Batched!Turns(TargetSize))
  <2>1. b \in Batches
    BY <1>1, BatchCollected
  <2>2. /\ parser' = b.parser
        /\ delivered' = IF b.failed THEN delivered ELSE delivered \o b.batch
        /\ ended' = (b.failed \/ b.batch = <<>>)
        /\ text' = text
    BY <1>4, Zenon DEF Batched!next_batch
  <2> HIDE DEF b
  <2>3. /\ b.batch \in Seq(NodeEvents) /\ BatchGood(delivered \o b.batch, b.parser, BatchLimit)
        /\ b.failed => b.parser.events = <<>>
    BY <2>1 DEF Batches
  <2>4. CASE ~b.failed
    <3>1. delivered' = delivered \o b.batch /\ delivered' \in Seq(NodeEvents)
      BY <1>1, <2>2, <2>3, <2>4
    <3> QED BY <2>2, <2>3, <3>1
  <2>5. CASE b.failed
    <3> DEFINE q == b.parser
    <3>1. /\ q \in BatchParsers /\ q.at \in Nat /\ Spans((delivered \o b.batch) \o <<>>, q.at)
          /\ q.depth = Len(q.state_stack) /\ q.depth <= BatchLimit /\ q.events = <<>>
      BY <1>1, <2>3, <2>5, BatchFields DEF BatchGood
    <3>2. (delivered \o b.batch) \o <<>> = delivered \o b.batch /\ delivered \o <<>> = delivered
      BY <1>1, <2>3
    <3>3. Spans(delivered, q.at)
      BY <1>1, <2>3, <3>1, <3>2, SpansPrefix
    <3>4. BatchGood(delivered, q, BatchLimit)
      BY <3>1, <3>2, <3>3 DEF BatchGood
    <3> QED BY <1>1, <2>2, <2>5, <3>4
  <2> QED BY <2>4, <2>5
<1>5. CASE Batched!Finish
  BY <1>1, <1>5 DEF Batched!Finish
<1>6. CASE UNCHANGED parsing
  BY <1>1, <1>6 DEF parsing, BatchInv
<1> QED BY <1>3, <1>4, <1>5, <1>6 DEF Batched!Next

-----------------------------------------------------------------------------
(***************************************************************************)
(* The frame of LineParser and of ChunkParser.                             *)
(***************************************************************************)

\* What the events are in a state.
Phase(events, state) ==
    /\ FramedEvents(events)
    /\ state = "Initial" => events = <<>>
    /\ state = "BetweenDocuments" => events # <<>> /\ ~Open(events)
    /\ state = "InDocument" => events # <<>> /\ Open(events)

\* The stream starts.
LEMMA PhaseStream ==
    ASSUME NEW T, NEW events \in Seq(T), Phase(events, "Initial"), NEW e, e.type = "StreamStart"
    PROVE  Phase(Append(events, e), "BetweenDocuments")
<1>1. events = <<>> /\ FramedEvents(events) /\ Len(events) = 0
  BY DEF Phase
<1>2. ~Open(events)
  BY <1>1 DEF Open, OpenBefore
<1>3. FramedEvents(Append(events, e))
  <2>1. FramedEvent(e, Len(events) + 1, Open(events))
    BY <1>1 DEF FramedEvent
  <2> QED BY <1>1, <2>1, FramedAppend
<1>4. ~Open(Append(events, e))
  BY <1>2, OpenAppend
<1>5. Append(events, e) # <<>>
  OBVIOUS
<1> QED BY <1>3, <1>4, <1>5 DEF Phase

\* A document starts.
LEMMA PhaseStart ==
    ASSUME NEW T, NEW events \in Seq(T), Phase(events, "BetweenDocuments"),
           NEW e, e.type = "DocumentStart"
    PROVE  Phase(Append(events, e), "InDocument")
<1>1. events # <<>> /\ FramedEvents(events) /\ ~Open(events)
  BY DEF Phase
<1>2. Len(events) \in Nat /\ Len(events) + 1 > 1
  BY <1>1
<1>3. FramedEvents(Append(events, e))
  <2>1. FramedEvent(e, Len(events) + 1, Open(events))
    BY <1>1, <1>2 DEF FramedEvent
  <2> QED BY <1>1, <2>1, FramedAppend
<1>4. Open(Append(events, e))
  BY OpenAppend
<1>5. Append(events, e) # <<>>
  OBVIOUS
<1> QED BY <1>3, <1>4, <1>5 DEF Phase

\* A node comes in a document.
LEMMA PhaseNode ==
    ASSUME NEW T, NEW events \in Seq(T), Phase(events, "InDocument"),
           NEW e, e.type \notin {"StreamStart", "DocumentStart", "DocumentEnd"}
    PROVE  Phase(Append(events, e), "InDocument")
<1>1. FramedEvents(events) /\ Open(events)
  BY DEF Phase
<1>2. FramedEvents(Append(events, e))
  BY <1>1, FramedAppend DEF FramedEvent
<1>3. Open(Append(events, e))
  BY <1>1, OpenAppend
<1>4. Append(events, e) # <<>>
  OBVIOUS
<1> QED BY <1>2, <1>3, <1>4 DEF Phase

\* A document ends.
LEMMA PhaseEnd ==
    ASSUME NEW T, NEW events \in Seq(T), Phase(events, "InDocument"),
           NEW e, e.type = "DocumentEnd"
    PROVE  Phase(Append(events, e), "BetweenDocuments")
<1>1. FramedEvents(events) /\ Open(events)
  BY DEF Phase
<1>2. FramedEvents(Append(events, e))
  BY <1>1, FramedAppend DEF FramedEvent
<1>3. ~Open(Append(events, e))
  BY OpenAppend
<1>4. Append(events, e) # <<>>
  OBVIOUS
<1> QED BY <1>2, <1>3, <1>4 DEF Phase

\* A part of the text, character by character.
LEMMA PartOfText ==
    ASSUME NEW T, NEW s \in Seq(T), NEW a \in Nat, NEW b \in Nat, 1 <= a, a <= b, b <= Len(s)
    PROVE  /\ Len(SubSeq(s, a, b)) = b - a + 1
           /\ \A k \in a .. b : SubSeq(s, a, b)[k - a + 1] = s[k]
<1> DEFINE u == SubSeq(s, a, b)
<1>1. \A i \in a .. b : s[i] \in T
  OBVIOUS
<1>2. /\ Len(u) = IF a <= b THEN b - a + 1 ELSE 0
      /\ \A i \in 1 .. b - a + 1 : u[i] = s[a + i - 1]
  BY <1>1, SubSeqProperties
<1> HIDE DEF u
<1>3. \A k \in a .. b : k - a + 1 \in 1 .. b - a + 1 /\ a + (k - a + 1) - 1 = k
  OBVIOUS
<1>4. Len(u) = b - a + 1
  BY <1>2
<1>5. \A k \in a .. b : u[k - a + 1] = s[k]
  BY <1>2, <1>3
<1> QED BY <1>4, <1>5 DEF u

-----------------------------------------------------------------------------
(***************************************************************************)
(* LineParser.                                                             *)
(***************************************************************************)
LineEvents == [type : EventTypes, first : Nat, last : Nat]
LineStates == {"Initial", "BetweenDocuments", "InDocument", "Complete"}

LineParsers ==
    [read : 0 .. Len(text), taken : 0 .. Len(text), state : LineStates,
     events : Seq(LineEvents), loop : BOOLEAN]

LineText == text \in Seq(STRING) /\ option \in [polling : BOOLEAN]

\* What is drained of the line to come are the dots of an end marker.
LineHead(n) == \A k \in 1 .. n : (\A j \in k .. n : text[j] # "\n") => text[k] = "."

\* What is drained is in an event, or dropped.
LineKept(events, n) == \A i \in 1 .. n : text[i] = "a" /\ ~DroppedByLines(i) => Covered(events, i)

\* What holds of a parser behind the events d.
LineGood(d, p) ==
    /\ p \in LineParsers /\ p.taken <= p.read
    /\ Spans(d \o p.events, p.taken)
    /\ Phase(d \o p.events, p.state)
    /\ LineKept(d \o p.events, p.taken) /\ LineHead(p.taken)
    /\ p.loop => p.state = "InDocument"
    /\ p.state = "Complete" => p.read = Len(text) /\ p.taken = p.read

\* The fields of a parser.
LEMMA LineFields ==
    ASSUME LineText, NEW p \in LineParsers
    PROVE  /\ p.read \in Nat /\ p.taken \in Nat /\ p.read <= Len(text) /\ Len(text) \in Nat
           /\ DOMAIN text = 1 .. Len(text)
           /\ p.state \in LineStates /\ p.loop \in BOOLEAN /\ p.events \in Seq(LineEvents)
BY DEF LineText, LineParsers

\* The line ends in the buffer.
LEMMA LineEndPlaces ==
    ASSUME LineText, NEW p \in LineParsers
    PROVE  Lines!Places(p, <<"\n">>) = {i \in p.taken + 1 .. p.read : text[i] = "\n"}
<1> DEFINE c == <<"\n">>
<1>1. Len(c) = 1 /\ c[1] = "\n"
  OBVIOUS
<1>2. p.read \in Nat /\ p.taken \in Nat /\ p.read <= Len(text) /\ Len(text) \in Nat /\ text \in Seq(STRING)
  BY LineFields DEF LineText
<1>3. ASSUME NEW i \in p.taken + 1 .. p.read
      PROVE  SubSeq(text, i, i) = c <=> text[i] = "\n"
  <2>1. i \in Nat /\ 1 <= i /\ i <= Len(text)
    BY <1>2
  <2>2. Len(SubSeq(text, i, i)) = 1 /\ SubSeq(text, i, i)[1] = text[i]
    <3>1. /\ Len(SubSeq(text, i, i)) = i - i + 1
          /\ \A k \in i .. i : SubSeq(text, i, i)[k - i + 1] = text[k]
      BY <1>2, <2>1, PartOfText
    <3>2. i \in i .. i /\ i - i + 1 = 1
      BY <2>1
    <3> QED BY <3>1, <3>2
  <2>3. SubSeq(text, i, i) \in Seq(STRING)
    <3>1. \A k \in i .. i : text[k] \in STRING
      BY <1>2, <2>1
    <3> QED BY <1>2, <2>1, <3>1, SubSeqProperties
  <2> DEFINE u == SubSeq(text, i, i)
  <2> HIDE DEF u
  <2>4. u \in Seq(STRING) /\ Len(u) = 1 /\ u[1] = text[i]
    BY <2>2, <2>3 DEF u
  <2>5. u = <<u[1]>>
    BY <2>4
  <2> QED BY <1>1, <2>4, <2>5 DEF u
<1>4. p.read - 1 + 1 = p.read /\ \A i \in p.taken + 1 .. p.read : i + 1 - 1 = i
  BY <1>2
<1>5. Lines!Places(p, c) = {i \in p.taken + 1 .. p.read - 1 + 1 : SubSeq(text, i, i + 1 - 1) = c}
  BY <1>1 DEF Lines!Places
<1> HIDE DEF c
<1> QED BY <1>3, <1>4, <1>5 DEF c

\* The line of a character that stands between n and the line end behind it.
LEMMA LineAround ==
    ASSUME LineText, NEW n \in Nat, NEW last \in Nat, last <= Len(text), text[last] = "\n",
           \A k \in n + 1 .. last - 1 : text[k] # "\n",
           NEW i \in n + 1 .. last, text[i] # "\n"
    PROVE  /\ n + 1 .. last \subseteq LineOf(i) /\ LineOf(i) \subseteq 1 .. last
           /\ \A k \in LineOf(i) : k <= n /\ text[k] # "\n" => \A j \in k .. n : text[j] # "\n"
<1> DEFINE before == {k \in 1 .. i - 1 : text[k] = "\n"}
           behind == {k \in i .. Len(text) : text[k] = "\n"}
           a == IF before = {} THEN 1 ELSE Max(before)
           z == IF behind = {} THEN Len(text) ELSE Min(behind)
<1>1. Len(text) \in Nat /\ i \in Nat /\ n + 1 <= i /\ i <= last /\ i # last
  BY DEF LineText
<1>2. z = last
  <2>1. last \in behind /\ behind \in SUBSET Nat
    BY <1>1
  <2>2. \A k \in behind : last <= k
    <3> SUFFICES ASSUME NEW k \in behind, k < last PROVE FALSE
      BY <1>1
    <3>1. k \in n + 1 .. last - 1 /\ text[k] = "\n"
      BY <1>1
    <3> QED BY <3>1
  <2>3. Min(behind) \in behind /\ Min(behind) <= last
    <3> HIDE DEF behind
    <3> QED BY <2>1, MinBounds
  <2> HIDE DEF behind
  <2>4. Min(behind) \in Nat /\ last <= Min(behind)
    BY <2>1, <2>2, <2>3
  <2> QED BY <2>1, <2>3, <2>4
<1>3. before \in SUBSET Nat /\ \A k \in before : k <= n /\ 1 <= k /\ text[k] = "\n"
  <2>1. ASSUME NEW k \in before PROVE k <= n
    <3>1. k \in Nat /\ k <= last - 1 /\ text[k] = "\n"
      BY <1>1
    <3>2. ~(n + 1 <= k)
      BY <3>1
    <3> QED BY <3>1, <3>2
  <2> QED BY <1>1, <2>1
<1>4. /\ a \in 1 .. n + 1
      /\ \A k \in before : k <= a
  <2>1. CASE before = {}
    BY <2>1
  <2>2. CASE before # {}
    <3> HIDE DEF before
    <3>1. Max(before) \in before /\ \A k \in before : k <= Max(before)
      BY <1>3, <2>2, MaxBounds
    <3>2. a = Max(before)
      BY <2>2
    <3>3. a \in before
      BY <3>1, <3>2
    <3>4. a \in Nat /\ 1 <= a /\ a <= n
      BY <1>3, <3>3
    <3> QED BY <3>1, <3>2, <3>4
  <2> QED BY <2>1, <2>2
<1>5. LineOf(i) = a .. last
  BY <1>2 DEF LineOf
<1>6. ASSUME NEW k \in a .. last, k <= n, text[k] # "\n", NEW j \in k .. n, text[j] = "\n"
      PROVE  FALSE
  <2>1. j \in before /\ k # j
    BY <1>1, <1>4, <1>6
  <2> HIDE DEF a, before
  <2> QED BY <1>4, <1>6, <2>1
<1> HIDE DEF a
<1> QED BY <1>1, <1>4, <1>5, <1>6

-----------------------------------------------------------------------------
\* One event more leaves what is in an event there.
LEMMA KeptAppend ==
    ASSUME NEW T, NEW events \in Seq(T), NEW e, NEW n, LineKept(events, n)
    PROVE  LineKept(Append(events, e), n)
BY CoveredAppend DEF LineKept

\* The parser emits an event and may move on.
LEMMA LineEmits ==
    ASSUME LineText, NEW d \in Seq(LineEvents), NEW p, LineGood(d, p),
           NEW q \in LineParsers, p.taken <= q.taken, q.taken <= q.read,
           NEW e \in LineEvents, q.events = Append(p.events, e),
           e.first \in 1 .. q.taken + 1, e.last \in 0 .. q.taken, Visible(e) => p.taken < e.first,
           Phase(Append(d \o p.events, e), q.state), q.state # "Complete",
           LineKept(Append(d \o p.events, e), q.taken), LineHead(q.taken),
           q.loop => q.state = "InDocument"
    PROVE  LineGood(d, q)
<1>1. p \in LineParsers /\ Spans(d \o p.events, p.taken)
  BY DEF LineGood
<1>2. p.taken \in Nat /\ q.taken \in Nat /\ p.events \in Seq(LineEvents)
  BY <1>1, LineFields
<1>3. d \o q.events = Append(d \o p.events, e) /\ d \o p.events \in Seq(LineEvents)
  <2> DEFINE a == p.events
  <2>1. a \in Seq(LineEvents)
    BY <1>2
  <2> HIDE DEF a
  <2>2. d \o Append(a, e) = Append(d \o a, e) /\ d \o a \in Seq(LineEvents)
    BY <2>1, QueueAppend
  <2> QED BY <2>2 DEF a
<1>4. Spans(Append(d \o p.events, e), q.taken)
  BY <1>1, <1>2, <1>3, SpansAppend
<1> QED BY <1>3, <1>4 DEF LineGood

\* ... with a mark, an event of no characters.
LEMMA LineMarks ==
    ASSUME LineText, NEW d \in Seq(LineEvents), NEW p, LineGood(d, p), ~p.loop,
           NEW type \in EventTypes, NEW state \in LineStates, state # "Complete",
           Phase(Append(d \o p.events, Lines!Event(type, 1, 0)), state)
    PROVE  LineGood(d, [Lines!EmitMark(p, type) EXCEPT !.state = state])
<1> DEFINE e == Lines!Event(type, 1, 0)
           s == Append(p.events, e)
           q == [Lines!EmitMark(p, type) EXCEPT !.state = state]
<1>1. p \in LineParsers /\ p.taken <= p.read /\ LineKept(d \o p.events, p.taken) /\ LineHead(p.taken)
  BY DEF LineGood
<1>2. p.taken \in Nat /\ p.events \in Seq(LineEvents)
  BY <1>1, LineFields
<1>3. e \in LineEvents /\ e.first = 1 /\ e.last = 0
  BY DEF Lines!Event, LineEvents
<1>4. q = [p EXCEPT !.events = s, !.state = state]
  BY <1>1 DEF Lines!EmitMark, Lines!emit_event, LineParsers
<1> HIDE DEF e, q
<1>5. s \in Seq(LineEvents)
  BY <1>2, <1>3
<1>6. d \o p.events \in Seq(LineEvents)
  BY <1>2
<1>7. LineKept(Append(d \o p.events, e), p.taken)
  BY <1>1, <1>6, KeptAppend
<1>8. Phase(Append(d \o p.events, e), state)
  BY DEF e
<1> HIDE DEF s
<1>9. /\ q \in LineParsers /\ q.events = s /\ q.taken = p.taken /\ q.read = p.read
      /\ q.state = state /\ ~q.loop
  BY <1>1, <1>4, <1>5 DEF LineParsers
<1>10. /\ e.first \in 1 .. q.taken + 1 /\ e.last \in 0 .. q.taken /\ ~Visible(e)
       /\ p.taken <= q.taken /\ q.taken <= q.read
  BY <1>1, <1>2, <1>3, <1>9 DEF Visible
<1>11. LineGood(d, q)
  BY <1>1, <1>3, <1>7, <1>8, <1>9, <1>10, LineEmits DEF s
<1> QED BY <1>11 DEF q

\* The reader gives one more line.
LEMMA ReadLineGood ==
    ASSUME LineText, NEW d, NEW p, LineGood(d, p), p.state # "Complete"
    PROVE  /\ LineGood(d, Lines!read_line(p))
           /\ Lines!read_line(p).state = p.state /\ Lines!read_line(p).loop = p.loop
<1> DEFINE ends == {i \in p.read + 1 .. Len(text) : text[i] = "\n"}
           n == IF p.read = Len(text) THEN p.read ELSE Lines!LineEnd(p.read + 1)
           q == [p EXCEPT !.read = n]
<1>1. p \in LineParsers /\ p.taken <= p.read
  BY DEF LineGood
<1>2. p.read \in Nat /\ p.taken \in Nat /\ p.read <= Len(text) /\ Len(text) \in Nat
  BY <1>1, LineFields
<1>3. Lines!LineEnd(p.read + 1) = IF ends = {} THEN Len(text) ELSE Min(ends)
  BY DEF Lines!LineEnd, Lines!Min, Min
<1>4. ends # {} => Min(ends) \in p.read + 1 .. Len(text)
  <2>1. ends \in SUBSET Nat /\ ends \subseteq p.read + 1 .. Len(text)
    BY <1>2
  <2> HIDE DEF ends
  <2> QED BY <2>1, MinBounds
<1>5. n \in p.read .. Len(text)
  <2> HIDE DEF ends
  <2> QED BY <1>2, <1>3, <1>4
<1>6. Lines!read_line(p) = q
  BY DEF Lines!read_line
<1> HIDE DEF n
<1>7. /\ q \in LineParsers /\ q.taken <= q.read /\ q.taken = p.taken /\ q.events = p.events
      /\ q.state = p.state /\ q.loop = p.loop
  BY <1>1, <1>2, <1>5 DEF LineParsers
<1> HIDE DEF q
<1>8. LineGood(d, q)
  BY <1>7 DEF LineGood
<1> QED BY <1>6, <1>7, <1>8

\* parse_next, of a parser whose events are all given out.
LEMMA ParseNextGood ==
    ASSUME LineText, NEW d \in Seq(LineEvents), NEW p, LineGood(d, p), ~p.loop
    PROVE  LineGood(d, Lines!parse_next(p))
<1>1. p \in LineParsers /\ p.state \in LineStates /\ p.events \in Seq(LineEvents)
  BY LineFields DEF LineGood
<1>2. CASE Lines!AtEndOfInput(p)
  <2> DEFINE state == "Complete"
             q == [p EXCEPT !.state = state]
  <2>1. p.read = Len(text) /\ p.taken = p.read
    BY <1>2 DEF Lines!AtEndOfInput, Lines!Empty
  <2>2. Lines!parse_next(p) = q
    BY <1>2 DEF Lines!parse_next
  <2>3. state \in LineStates
    BY DEF LineStates
  <2>4. Phase(d \o p.events, state)
    BY DEF LineGood, Phase
  <2>5. /\ q \in LineParsers /\ q.taken = p.taken /\ q.read = p.read /\ q.events = p.events
        /\ q.state = state /\ ~q.loop
    <3> HIDE DEF state
    <3> QED BY <1>1, <2>3 DEF LineParsers
  <2> HIDE DEF q
  <2>6. LineGood(d, q)
    BY <2>1, <2>4, <2>5 DEF LineGood
  <2> QED BY <2>2, <2>6
<1>3. CASE ~Lines!AtEndOfInput(p)
  <2> DEFINE r == Lines!read_line(p)
             q == Lines!parse_buffer(r)
  <2>1. p.state # "Complete"
    BY <1>3 DEF LineGood, Lines!AtEndOfInput, Lines!Empty
  <2>2. LineGood(d, r) /\ r.state = p.state /\ ~r.loop
    BY <2>1, ReadLineGood
  <2>3. Lines!parse_next(p) = q
    BY <1>3 DEF Lines!parse_next
  <2> HIDE DEF r
  <2>4. r \in LineParsers /\ r.state \in LineStates /\ r.events \in Seq(LineEvents) /\ r.state # "Complete"
    BY <2>1, <2>2, LineFields DEF LineGood
  <2>5. d \o r.events \in Seq(LineEvents) /\ Phase(d \o r.events, r.state)
    BY <2>2, <2>4 DEF LineGood
  <2>6. CASE r.state = "Initial"
    <3> DEFINE type == "StreamStart"
               state == "BetweenDocuments"
    <3>1. q = [Lines!EmitMark(r, type) EXCEPT !.state = state]
      BY <2>6 DEF Lines!parse_buffer
    <3>2. type \in EventTypes /\ state \in LineStates /\ state # "Complete"
      BY DEF EventTypes, LineStates
    <3>3. Phase(Append(d \o r.events, Lines!Event(type, 1, 0)), state)
      BY <2>5, <2>6, PhaseStream DEF Lines!Event
    <3> HIDE DEF q, type, state
    <3>4. LineGood(d, q)
      BY <2>2, <3>1, <3>2, <3>3, LineMarks
    <3> QED BY <2>3, <3>4
  <2>7. CASE r.state = "BetweenDocuments"
    <3> DEFINE type == "DocumentStart"
               state == "InDocument"
    <3>1. q = r \/ q = [Lines!EmitMark(r, type) EXCEPT !.state = state]
      BY <2>7 DEF Lines!parse_buffer
    <3>2. type \in EventTypes /\ state \in LineStates /\ state # "Complete"
      BY DEF EventTypes, LineStates
    <3>3. Phase(Append(d \o r.events, Lines!Event(type, 1, 0)), state)
      BY <2>5, <2>7, PhaseStart DEF Lines!Event
    <3> HIDE DEF q, type, state
    <3>4. LineGood(d, [Lines!EmitMark(r, type) EXCEPT !.state = state])
      BY <2>2, <3>2, <3>3, LineMarks
    <3> QED BY <2>2, <2>3, <3>1, <3>4
  <2>8. CASE r.state = "InDocument"
    <3>1. q = [r EXCEPT !.loop = TRUE]
      BY <2>8 DEF Lines!parse_buffer
    <3> HIDE DEF q
    <3>2. /\ q \in LineParsers /\ q.taken = r.taken /\ q.read = r.read /\ q.events = r.events
          /\ q.state = r.state
      BY <2>4, <3>1 DEF LineParsers
    <3>3. LineGood(d, q)
      BY <2>2, <2>8, <3>2 DEF LineGood
    <3> QED BY <2>3, <3>3
  <2> QED BY <2>4, <2>6, <2>7, <2>8 DEF LineStates
<1> QED BY <1>2, <1>3

-----------------------------------------------------------------------------
\* The end of a document: three dots.
LEMMA LineDocumentEnds ==
    ASSUME LineText, NEW d \in Seq(LineEvents), NEW p, LineGood(d, p), p.state = "InDocument",
           Lines!AtEnd(p)
    PROVE  LineGood(d, [Lines!EndDocument(p) EXCEPT !.loop = FALSE])
<1> DEFINE type == "DocumentEnd"
           e == Lines!Event(type, 1, 0)
           s == Append(p.events, e)
           state == "BetweenDocuments"
           n == p.taken + 3
           q == [Lines!EndDocument(p) EXCEPT !.loop = FALSE]
           dots == <<".", ".", ".">>
<1>1. p \in LineParsers /\ p.taken <= p.read /\ LineKept(d \o p.events, p.taken) /\ LineHead(p.taken)
  BY DEF LineGood
<1>2. /\ p.taken \in Nat /\ p.read \in Nat /\ p.read <= Len(text) /\ Len(text) \in Nat
      /\ p.events \in Seq(LineEvents)
  BY <1>1, LineFields
<1>3. n <= p.read /\ SubSeq(text, p.taken + 1, n) = dots
  <2>1. /\ p.taken + 1 \in p.taken + 1 .. p.read - 3 + 1
        /\ SubSeq(text, p.taken + 1, p.taken + 1 + 3 - 1) = dots
    BY DEF Lines!AtEnd, Lines!Places
  <2>2. p.taken + 1 + 3 - 1 = n
    BY <1>2
  <2> QED BY <1>2, <2>1, <2>2
<1>4. \A k \in p.taken + 1 .. n : text[k] = "."
  <2>1. dots[1] = "." /\ dots[2] = "." /\ dots[3] = "."
    OBVIOUS
  <2> HIDE DEF dots
  <2>2. \A k \in p.taken + 1 .. n : dots[k - (p.taken + 1) + 1] = text[k]
    <3> DEFINE a == p.taken + 1
    <3>4. n \in Nat /\ n <= Len(text) /\ p.taken + 1 <= n
      BY <1>2, <1>3
    <3>1. a \in Nat /\ n \in Nat /\ 1 <= a /\ a <= n /\ n <= Len(text) /\ text \in Seq(STRING)
      BY <1>2, <3>4 DEF LineText
    <3>2. SubSeq(text, a, n) = dots
      BY <1>3
    <3> HIDE DEF a, n
    <3>3. \A k \in a .. n : dots[k - a + 1] = text[k]
      BY <3>1, <3>2, PartOfText
    <3> QED BY <3>3 DEF a
  <2>3. \A k \in p.taken + 1 .. n : k - (p.taken + 1) + 1 \in {1, 2, 3}
    BY <1>2
  <2> HIDE DEF n
  <2> QED BY <2>1, <2>2, <2>3
<1>5. q = [p EXCEPT !.events = s, !.state = state, !.taken = n, !.loop = FALSE]
  BY <1>1 DEF Lines!EndDocument, Lines!EmitMark, Lines!emit_event, LineParsers
<1>6. type \in EventTypes /\ state \in LineStates /\ state # "Complete"
  BY DEF EventTypes, LineStates
<1>7. d \o p.events \in Seq(LineEvents) /\ Phase(d \o p.events, "InDocument")
  BY <1>2 DEF LineGood
<1>8. Phase(Append(d \o p.events, e), state)
  BY <1>7, PhaseEnd DEF Lines!Event
<1> HIDE DEF type, state
<1>9. e \in LineEvents /\ e.first = 1 /\ e.last = 0
  BY <1>6 DEF Lines!Event, LineEvents
<1> HIDE DEF e, q
<1>10. s \in Seq(LineEvents)
  BY <1>2, <1>9
<1> HIDE DEF s
<1>11. LineKept(Append(d \o p.events, e), n)
  <2>1. LineKept(Append(d \o p.events, e), p.taken)
    BY <1>1, <1>7, KeptAppend
  <2>2. \A i \in 1 .. n : i \in 1 .. p.taken \/ i \in p.taken + 1 .. n
    BY <1>2
  <2> HIDE DEF n
  <2> QED BY <1>4, <2>1, <2>2 DEF LineKept
<1>12. LineHead(n)
  <2> SUFFICES ASSUME NEW k \in 1 .. n, \A j \in k .. n : text[j] # "\n" PROVE text[k] = "."
    BY DEF LineHead
  <2>1. k \in 1 .. p.taken \/ k \in p.taken + 1 .. n
    BY <1>2
  <2>2. CASE k \in 1 .. p.taken
    <3>1. \A j \in k .. p.taken : text[j] # "\n"
      BY <1>2
    <3> QED BY <1>1, <2>2, <3>1 DEF LineHead
  <2>3. CASE k \in p.taken + 1 .. n
    BY <1>4, <2>3
  <2> QED BY <2>1, <2>2, <2>3
<1>13. n \in 0 .. Len(text) /\ p.taken <= n
  BY <1>2, <1>3
<1> HIDE DEF n
<1>14. /\ q \in LineParsers /\ q.events = s /\ q.taken = n /\ q.read = p.read
       /\ q.state = state /\ ~q.loop
  BY <1>1, <1>5, <1>6, <1>10, <1>13 DEF LineParsers
<1>15. /\ e.first \in 1 .. q.taken + 1 /\ e.last \in 0 .. q.taken /\ ~Visible(e)
       /\ p.taken <= q.taken /\ q.taken <= q.read
  BY <1>3, <1>9, <1>13, <1>14 DEF Visible
<1>16. LineGood(d, q)
  BY <1>6, <1>8, <1>9, <1>11, <1>12, <1>14, <1>15, LineEmits DEF s
<1> QED BY <1>16 DEF q

-----------------------------------------------------------------------------
\* The first line of the buffer, which has a line end.
TheLine(p, last) ==
    /\ last \in Nat /\ p.taken < last /\ last <= p.read
    /\ text[last] = "\n" /\ \A k \in p.taken + 1 .. last - 1 : text[k] # "\n"

\* The first line end is where Min finds it.
LEMMA FirstLine ==
    ASSUME LineText, NEW p \in LineParsers, Lines!Places(p, <<"\n">>) # {}
    PROVE  TheLine(p, Lines!Min(Lines!Places(p, <<"\n">>)))
<1> DEFINE places == {i \in p.taken + 1 .. p.read : text[i] = "\n"}
           last == Min(places)
<1>1. Lines!Places(p, <<"\n">>) = places
  BY LineEndPlaces
<1>2. Lines!Min(places) = last
  BY DEF Lines!Min, Min
<1>3. p.read \in Nat /\ p.taken \in Nat
  BY LineFields
<1>4. places \in SUBSET Nat /\ places # {}
  BY <1>1, <1>3
<1>5. last \in places /\ \A k \in places : last <= k
  <2> HIDE DEF places
  <2> QED BY <1>4, MinBounds
<1> HIDE DEF last
<1>6. last \in Nat /\ p.taken < last /\ last <= p.read /\ text[last] = "\n"
  BY <1>3, <1>5
<1>7. ASSUME NEW k \in p.taken + 1 .. last - 1, text[k] = "\n" PROVE FALSE
  <2>1. k \in places /\ k < last /\ k \in Nat
    BY <1>3, <1>6, <1>7
  <2> HIDE DEF places
  <2> QED BY <1>5, <1>6, <2>1
<1>8. TheLine(p, last)
  BY <1>6, <1>7 DEF TheLine
<1> QED BY <1>1, <1>2, <1>8 DEF last

\* A line without a colon, and a comment, are dropped whole.
LEMMA LineIsDropped ==
    ASSUME LineText, NEW p \in LineParsers, NEW last, TheLine(p, last), LineHead(p.taken),
           \/ {i \in p.taken + 1 .. last : text[i] = ":"} = {}
           \/ Lines!IsComment(p.taken + 1, last),
           NEW i \in p.taken + 1 .. last, text[i] = "a"
    PROVE  DroppedByLines(i)
<1> DEFINE n == p.taken
<1>1. /\ n \in Nat /\ last \in Nat /\ last <= Len(text) /\ text[last] = "\n"
      /\ \A k \in n + 1 .. last - 1 : text[k] # "\n"
      /\ Len(text) \in Nat
  <2>1. n \in Nat /\ p.read \in Nat /\ p.read <= Len(text) /\ Len(text) \in Nat
    BY LineFields
  <2> QED BY <2>1 DEF TheLine
<1>2. text[i] # "\n" /\ i \in n + 1 .. last
  OBVIOUS
<1>3. LineHead(n)
  OBVIOUS
<1> HIDE DEF n
<1>4. /\ n + 1 .. last \subseteq LineOf(i) /\ LineOf(i) \subseteq 1 .. last
      /\ \A k \in LineOf(i) : k <= n /\ text[k] # "\n" => \A j \in k .. n : text[j] # "\n"
  BY <1>1, <1>2, LineAround
<1>5. CASE {k \in n + 1 .. last : text[k] = ":"} = {}
  <2>1. ASSUME NEW k \in LineOf(i), text[k] = ":" PROVE FALSE
    <3>1. k \in 1 .. last /\ k \in Nat
      BY <1>1, <1>4
    <3>2. CASE k <= n
      <4>1. k \in 1 .. n /\ \A j \in k .. n : text[j] # "\n"
        BY <1>1, <1>4, <2>1, <3>1, <3>2
      <4> QED BY <1>3, <2>1, <4>1 DEF LineHead
    <3>3. CASE ~(k <= n)
      <4>1. k \in n + 1 .. last
        BY <1>1, <3>1, <3>3
      <4> QED BY <1>5, <2>1, <4>1
    <3> QED BY <3>2, <3>3
  <2> QED BY <2>1 DEF DroppedByLines
<1>6. CASE Lines!IsComment(n + 1, last)
  <2> DEFINE visible == {k \in n + 1 .. last : text[k] \notin {" ", "\n"}}
  <2>1. visible # {} /\ text[Min(visible)] = "#"
    BY <1>6 DEF Lines!IsComment, Lines!Min, Min
  <2>2. visible \in SUBSET Nat /\ visible \subseteq n + 1 .. last
    <3>1. visible \subseteq n + 1 .. last
      OBVIOUS
    <3>2. n + 1 .. last \subseteq Nat
      BY <1>1
    <3> HIDE DEF visible
    <3> QED BY <3>1, <3>2
  <2> HIDE DEF visible
  <2> DEFINE k == Min(visible)
  <2>3. k \in visible /\ \A j \in visible : k <= j
    BY <2>1, <2>2, MinBounds
  <2>4. k \in n + 1 .. last /\ k \in LineOf(i) /\ text[k] = "#"
    BY <1>4, <2>1, <2>2, <2>3
  <2> HIDE DEF k
  <2>5. ASSUME NEW j \in LineOf(i), j < k PROVE text[j] \in {" ", "\n", "."}
    <3>1. j \in 1 .. last /\ j \in Nat /\ k \in Nat
      BY <1>1, <1>4, <2>4
    <3>2. CASE j <= n
      <4>1. j \in 1 .. n
        BY <1>1, <3>1, <3>2
      <4>2. text[j] # "\n" => \A m \in j .. n : text[m] # "\n"
        BY <1>4, <3>2
      <4> QED BY <1>3, <4>1, <4>2 DEF LineHead
    <3>3. CASE ~(j <= n)
      <4>1. j \in n + 1 .. last
        BY <1>1, <3>1, <3>3
      <4>2. j \notin visible
        BY <2>3, <2>5, <3>1
      <4> QED BY <4>1, <4>2 DEF visible
    <3> QED BY <3>2, <3>3
  <2> QED BY <2>4, <2>5 DEF DroppedByLines
<1> QED BY <1>5, <1>6 DEF n

\* A line is drained behind its line end.
LEMMA LineHeadEnds ==
    ASSUME NEW p, NEW last, TheLine(p, last)
    PROVE  LineHead(last)
<1>1. last \in Nat /\ text[last] = "\n"
  BY DEF TheLine
<1>2. \A k \in 1 .. last : last \in k .. last
  BY <1>1
<1> QED BY <1>1, <1>2 DEF LineHead

\* The first line of the buffer is made events of, or dropped.
LEMMA TakeLineGood ==
    ASSUME LineText, NEW d \in Seq(LineEvents), NEW p, LineGood(d, p), p.loop,
           Lines!Places(p, <<"\n">>) # {}
    PROVE  LineGood(d, Lines!TakeLine(p))
<1> DEFINE last == Lines!Min(Lines!Places(p, <<"\n">>))
           n == p.taken
           colons == {i \in n + 1 .. last : text[i] = ":"}
           s == d \o p.events
           z == Lines!TakeLine(p)
<1>1. /\ p \in LineParsers /\ n <= p.read /\ Spans(s, n) /\ Phase(s, "InDocument")
      /\ LineKept(s, n) /\ LineHead(n) /\ p.state = "InDocument"
  BY DEF LineGood
<1>2. /\ n \in Nat /\ p.read \in Nat /\ p.read <= Len(text) /\ Len(text) \in Nat
      /\ p.events \in Seq(LineEvents) /\ s \in Seq(LineEvents)
  BY <1>1, LineFields
<1>3. TheLine(p, last)
  BY <1>1, FirstLine
<1>4. z = [Lines!parse_line(p, n + 1, last) EXCEPT !.taken = last]
  BY DEF Lines!TakeLine
<1>5. Lines!parse_line(p, n + 1, last)
          = IF colons = {} \/ Lines!IsComment(n + 1, last) THEN p
            ELSE Lines!emit_event(Lines!emit_event(p, "Scalar", n + 1, Lines!Min(colons) - 1),
                                  "Scalar", Lines!Min(colons) + 1, last - 1)
  BY DEF Lines!parse_line
<1> HIDE DEF last, z
<1>6. last \in Nat /\ n < last /\ last <= p.read /\ last \in 0 .. Len(text) /\ text[last] = "\n"
  BY <1>2, <1>3 DEF TheLine
<1>7. LineHead(last)
  BY <1>3, LineHeadEnds
<1>8. \A i \in 1 .. last : i \in 1 .. n \/ i \in n + 1 .. last
  BY <1>2, <1>6
<1>9. CASE colons = {} \/ Lines!IsComment(n + 1, last)
  <2>1. z = [p EXCEPT !.taken = last]
    BY <1>4, <1>5, <1>9
  <2>2. \A i \in n + 1 .. last : text[i] = "a" => DroppedByLines(i)
    BY <1>1, <1>3, <1>9, LineIsDropped
  <2> HIDE DEF s
  <2>3. LineKept(s, last)
    BY <1>1, <1>8, <2>2 DEF LineKept
  <2>4. Spans(s, last)
    BY <1>1, <1>2, <1>6, SpansWiden
  <2>5. /\ z \in LineParsers /\ z.taken = last /\ z.read = p.read /\ z.events = p.events
        /\ z.state = p.state /\ z.loop = p.loop
    BY <1>1, <1>6, <2>1 DEF LineParsers
  <2>6. LineGood(d, z)
    BY <1>1, <1>6, <1>7, <2>3, <2>4, <2>5 DEF LineGood, s
  <2> QED BY <2>6 DEF z
<1>10. CASE ~(colons = {} \/ Lines!IsComment(n + 1, last))
  <2> DEFINE c == Lines!Min(colons)
             type == "Scalar"
             key == Lines!Event(type, n + 1, c - 1)
             value == Lines!Event(type, c + 1, last - 1)
             events == Append(Append(p.events, key), value)
             t == Append(Append(s, key), value)
  <2>1. c \in n + 1 .. last /\ text[c] = ":" /\ c \in Nat
    <3>1. colons \in SUBSET Nat /\ colons # {}
      BY <1>2, <1>6, <1>10
    <3>2. c = Min(colons)
      BY DEF Lines!Min, Min
    <3>3. c \in colons
      <4> HIDE DEF c, colons
      <4> QED BY <3>1, <3>2, MinBounds
    <3> QED BY <1>2, <1>6, <3>3
  <2>2. z = [p EXCEPT !.events = events, !.taken = last]
    BY <1>1, <1>4, <1>5, <1>10 DEF Lines!emit_event, LineParsers
  <2>3. type \in EventTypes /\ type \notin {"StreamStart", "DocumentStart", "DocumentEnd"}
    BY DEF EventTypes
  <2> HIDE DEF c, colons, z, type
  <2>4. c # last /\ c < last /\ n < c /\ c - 1 \in Nat /\ last - 1 \in Nat
    BY <1>2, <1>6, <2>1
  <2>5. /\ key \in LineEvents /\ key.type = type /\ key.first = n + 1 /\ key.last = c - 1
        /\ value \in LineEvents /\ value.type = type /\ value.first = c + 1 /\ value.last = last - 1
    BY <1>2, <2>1, <2>3, <2>4 DEF Lines!Event, LineEvents
  <2> HIDE DEF key, value, n, s
  <2>6. Append(s, key) \in Seq(LineEvents) /\ t \in Seq(LineEvents)
    BY <1>2, <2>5
  <2>7. Spans(Append(s, key), c)
    <3>1. key.first \in 1 .. c + 1 /\ key.last \in 0 .. c /\ n < key.first /\ n <= c
      BY <1>2, <2>1, <2>4, <2>5
    <3> QED BY <1>1, <1>2, <2>1, <3>1, SpansAppend
  <2>8. Spans(t, last)
    <3>1. value.first \in 1 .. last + 1 /\ value.last \in 0 .. last /\ c < value.first /\ c <= last
      BY <1>6, <2>1, <2>4, <2>5
    <3> QED BY <1>6, <2>1, <2>6, <2>7, <3>1, SpansAppend
  <2>9. Phase(t, "InDocument")
    <3>1. Phase(Append(s, key), "InDocument")
      BY <1>1, <1>2, <2>3, <2>5, PhaseNode
    <3> QED BY <2>3, <2>5, <2>6, <3>1, PhaseNode
  <2>10. LineKept(t, last)
    <3> SUFFICES ASSUME NEW i \in 1 .. last, text[i] = "a", ~DroppedByLines(i) PROVE Covered(t, i)
      BY DEF LineKept
    <3>1. CASE i \in 1 .. n
      <4>1. Covered(s, i)
        BY <1>1, <3>1 DEF LineKept
      <4>2. Covered(Append(s, key), i)
        BY <1>2, <4>1, CoveredAppend
      <4> QED BY <2>6, <4>2, CoveredAppend
    <3>2. CASE i \in n + 1 .. last
      <4>1. i # c /\ i # last
        BY <1>6, <2>1
      <4>2. CASE i <= c - 1
        <5>1. key.first <= i /\ i <= key.last
          BY <2>5, <3>2, <4>2
        <5>2. Covered(Append(s, key), i)
          BY <1>2, <5>1, CoveredAppend
        <5> QED BY <2>6, <5>2, CoveredAppend
      <4>3. CASE ~(i <= c - 1)
        <5>1. value.first <= i /\ i <= value.last
          BY <1>2, <1>6, <2>1, <2>5, <3>2, <4>1, <4>3
        <5> QED BY <2>6, <5>1, CoveredAppend
      <4> QED BY <4>2, <4>3
    <3> QED BY <1>8, <3>1, <3>2
  <2>11. d \o events = t /\ events \in Seq(LineEvents)
    <3> DEFINE a == p.events
    <3>1. a \in Seq(LineEvents) /\ s = d \o a
      BY <1>2 DEF s
    <3> HIDE DEF a
    <3>2. Append(a, key) \in Seq(LineEvents) /\ d \o Append(a, key) = Append(d \o a, key)
      BY <2>5, <3>1, QueueAppend
    <3> DEFINE b == Append(a, key)
    <3> HIDE DEF b
    <3>3. b \in Seq(LineEvents)
      BY <3>2 DEF b
    <3>4. Append(b, value) \in Seq(LineEvents) /\ d \o Append(b, value) = Append(d \o b, value)
      BY <2>5, <3>3, QueueAppend
    <3> QED BY <3>1, <3>2, <3>4 DEF a, b
  <2> HIDE DEF t, events
  <2>12. /\ z \in LineParsers /\ z.taken = last /\ z.read = p.read /\ z.events = events
         /\ z.state = p.state /\ z.loop = p.loop
    BY <1>1, <1>6, <2>2, <2>11 DEF LineParsers
  <2>13. LineGood(d, z)
    BY <1>1, <1>6, <1>7, <2>8, <2>9, <2>10, <2>11, <2>12 DEF LineGood
  <2> QED BY <2>13 DEF z
<1> QED BY <1>9, <1>10

\* A turn of parse_document_content.
LEMMA LineTurnGood ==
    ASSUME LineText, NEW d \in Seq(LineEvents), NEW p, LineGood(d, p), p.loop
    PROVE  LineGood(d, Lines!Turn(p))
<1> DEFINE q == [p EXCEPT !.loop = FALSE]
<1>1. p \in LineParsers /\ p.state = "InDocument"
  BY DEF LineGood
<1>2. LineGood(d, q)
  <2>1. /\ q \in LineParsers /\ q.taken = p.taken /\ q.read = p.read /\ q.events = p.events
        /\ q.state = p.state /\ ~q.loop
    BY <1>1 DEF LineParsers
  <2> HIDE DEF q
  <2> QED BY <2>1 DEF LineGood
<1>3. Lines!AtEnd(p) => LineGood(d, [Lines!EndDocument(p) EXCEPT !.loop = FALSE])
  BY <1>1, LineDocumentEnds
<1>4. Lines!Places(p, <<"\n">>) # {} => LineGood(d, Lines!TakeLine(p))
  BY TakeLineGood
<1> QED BY <1>2, <1>3, <1>4 DEF Lines!Turn

\* An event is given out.
LEMMA LineDelivers ==
    ASSUME LineText, NEW d \in Seq(LineEvents), NEW p, LineGood(d, p), p.events # <<>>
    PROVE  /\ LineGood(Append(d, Head(p.events)), [p EXCEPT !.events = Tail(@)])
           /\ Append(d, Head(p.events)) \in Seq(LineEvents)
<1> DEFINE s == p.events
           t == Tail(s)
           c == Append(d, Head(s))
           q == [p EXCEPT !.events = t]
<1>1. p \in LineParsers
  BY DEF LineGood
<1>2. s \in Seq(LineEvents)
  BY <1>1, LineFields
<1>3. c \o t = d \o s /\ c \in Seq(LineEvents) /\ t \in Seq(LineEvents)
  <2> HIDE DEF s
  <2> QED BY <1>2, QueueDeliver DEF s
<1> HIDE DEF c, t
<1>4. /\ q \in LineParsers /\ q.events = t /\ q.taken = p.taken /\ q.read = p.read
      /\ q.state = p.state /\ q.loop = p.loop
  BY <1>1, <1>3 DEF LineParsers
<1> HIDE DEF q
<1>5. LineGood(c, q)
  BY <1>3, <1>4 DEF LineGood
<1> QED BY <1>3, <1>5 DEF c, q, t

-----------------------------------------------------------------------------
\* The inductive invariant of the parser of lines.
LineInv ==
    /\ LineText /\ ended \in BOOLEAN
    /\ delivered \in Seq(LineEvents) /\ LineGood(delivered, parser)
    /\ ended => ~parser.loop /\ (option.polling \/ Lines!is_complete(parser))

\* It holds of a new parser.
LEMMA LineStarts ==
    ASSUME NEW case \in LineCases, StartWith(case, Lines!NewParser)
    PROVE  LineInv
<1>1. /\ text \in Seq(STRING) /\ option \in [polling : BOOLEAN]
      /\ delivered = <<>> /\ ended = FALSE /\ parser = Lines!NewParser
  BY CasesAssumption DEF StartWith
<1>2. Len(text) \in Nat
  BY <1>1
<1> DEFINE state == "Initial"
<1>3. state \in LineStates
  BY DEF LineStates
<1>4. parser = [read |-> 0, taken |-> 0, state |-> state, events |-> <<>>, loop |-> FALSE]
  BY <1>1 DEF Lines!NewParser
<1>5. state # "Complete" /\ state # "InDocument"
  OBVIOUS
<1>6. Phase(<<>>, state)
  BY DEF Phase, FramedEvents
<1> HIDE DEF state
<1>7. parser \in LineParsers
  BY <1>2, <1>3, <1>4 DEF LineParsers
<1>8. /\ parser.events = <<>> /\ parser.taken = 0 /\ parser.read = 0 /\ ~parser.loop
      /\ parser.state = state /\ <<>> \o <<>> = <<>>
  BY <1>4
<1>9. Spans(<<>>, 0) /\ LineKept(<<>>, 0) /\ LineHead(0)
  BY DEF Spans, Within, InOrder, LineKept, LineHead
<1>10. LineGood(delivered, parser)
  BY <1>1, <1>5, <1>6, <1>7, <1>8, <1>9 DEF LineGood
<1>11. ended \in BOOLEAN /\ ~ended
  BY <1>1
<1>12. LineText /\ delivered \in Seq(LineEvents)
  BY <1>1 DEF LineText
<1> QED BY <1>10, <1>11, <1>12 DEF LineInv

\* Every step of the parser keeps it.
LEMMA LineStep ==
    ASSUME LineInv, [Lines!Next]_parsing, UNCHANGED option
    PROVE  LineInv'
<1>1. /\ LineText /\ delivered \in Seq(LineEvents) /\ LineGood(delivered, parser)
      /\ option.polling \in BOOLEAN
  BY DEF LineInv, LineText
<1>2. SUFFICES /\ text' = text /\ ended' \in BOOLEAN
               /\ delivered' \in Seq(LineEvents) /\ LineGood(delivered', parser')
               /\ ended' => ~parser'.loop /\ (option.polling \/ Lines!is_complete(parser'))
  <2>1. LineText'
    BY <1>1, <1>2 DEF LineText
  <2>2. LineGood(delivered, parser)'
    <3>1. LineParsers' = LineParsers
      BY <1>2 DEF LineParsers
    <3>2. \A i : LineOf(i)' = LineOf(i)
      BY <1>2, Zenon DEF LineOf
    <3>3. \A i : DroppedByLines(i)' <=> DroppedByLines(i)
      BY <1>2, <3>2, Zenon DEF DroppedByLines
    <3>4. \A n : LineHead(n)' <=> LineHead(n)
      BY <1>2, Zenon DEF LineHead
    <3>5. \A n, e : LineKept(e, n)' <=> LineKept(e, n)
      BY <1>2, <3>3, Zenon DEF LineKept
    <3> QED BY <1>2, <3>1, <3>4, <3>5 DEF LineGood
  <2> QED BY <1>2, <2>1, <2>2 DEF LineInv, Lines!is_complete
<1>3. CASE Lines!next_event
  <2>1. /\ delivered' = Append(delivered, Head(parser.events))
        /\ parser' = [parser EXCEPT !.events = Tail(@)]
        /\ text' = text /\ ended' = ended /\ ~ended /\ parser.events # <<>>
    BY <1>3 DEF Lines!next_event, Lines!Idle
  <2> QED BY <1>1, <2>1, LineDelivers DEF LineInv
<1>4. CASE Lines!Parse
  <2>1. /\ parser' = Lines!parse_next(parser) /\ ~parser.loop /\ text' = text /\ delivered' = delivered
        /\ ended' = Lines!Stops(parser')
    BY <1>4 DEF Lines!Parse, Lines!Idle
  <2>2. LineGood(delivered', parser')
    BY <1>1, <2>1, ParseNextGood
  <2>3. ended' \in BOOLEAN /\ (ended' => option.polling /\ ~parser'.loop)
    BY <2>1, Zenon DEF Lines!Stops
  <2> QED BY <1>1, <2>1, <2>2, <2>3
<1>5. CASE Lines!parse_document_content
  <2>1. /\ parser' = Lines!Turn(parser) /\ parser.loop /\ text' = text /\ delivered' = delivered
        /\ ended' = Lines!Stops(parser')
    BY <1>5 DEF Lines!parse_document_content
  <2>2. LineGood(delivered', parser')
    BY <1>1, <2>1, LineTurnGood
  <2>3. ended' \in BOOLEAN /\ (ended' => option.polling /\ ~parser'.loop)
    BY <2>1, Zenon DEF Lines!Stops
  <2> QED BY <1>1, <2>1, <2>2, <2>3
<1>6. CASE Lines!Complete
  <2>1. /\ parser' = parser /\ ~parser.loop /\ Lines!is_complete(parser) /\ ended' = TRUE
        /\ text' = text /\ delivered' = delivered
    BY <1>6 DEF Lines!Complete, Lines!Idle
  <2> QED BY <1>1, <2>1
<1>7. CASE UNCHANGED parsing
  BY <1>1, <1>7 DEF parsing, LineInv
<1> QED BY <1>3, <1>4, <1>5, <1>6, <1>7 DEF Lines!Next

-----------------------------------------------------------------------------
(***************************************************************************)
(* ChunkParser.                                                            *)
(***************************************************************************)
ChunkStates == {"Initial", "BetweenDocuments", "InDocument", "EndOfStream"}
ChunkSteps == {"called", "returned"}
ChunkParsers ==
    [read : 0 .. Len(text), taken : 0 .. Len(text), state : ChunkStates,
     collection_stack : Seq(BOOLEAN), pending_anchor : BOOLEAN, in_block_scalar : BOOLEAN,
     events : Seq(NodeEvents), step : ChunkSteps]

ChunkText == text \in Seq(STRING) /\ option \in [chunk_size : Nat, short_reads : BOOLEAN]

\* What is drained is in an event, or dropped.
ChunkKept(events, n) == \A i \in 1 .. n : text[i] = "a" /\ ~DroppedByChunks(i) => Covered(events, i)

\* A name that no end of a document stands behind, among the first m characters.
NameBehind(events, m) ==
    \E n \in 1 .. m :
        text[n] = "&" /\ \A i \in DOMAIN events : events[i].type = "DocumentEnd" => events[i].last < n
Anchored(events) ==
    \A j \in DOMAIN events : events[j].anchor =>
        \E n \in 1 .. events[j].first :
            /\ text[n] = "&"
            /\ \A i \in 1 .. j : events[i].type = "DocumentEnd" => events[i].last < n

\* What holds of a parser behind the events d.
ChunkGood(d, p) ==
    /\ p \in ChunkParsers /\ p.taken <= p.read
    /\ Spans(d \o p.events, p.taken)
    /\ Phase(d \o p.events, p.state)
    /\ ChunkKept(d \o p.events, p.taken)
    /\ Anchored(d \o p.events)
    /\ p.pending_anchor => NameBehind(d \o p.events, p.taken)

\* ... in a state and at a step.
ChunkAt(d, p, state, step) == ChunkGood(d, p) /\ p.state = state /\ p.step = step

\* q is p with other events, or another context.
SamePlace(p, q) == q.taken = p.taken /\ q.read = p.read

\* The fields of a parser.
LEMMA ChunkFields ==
    ASSUME ChunkText, NEW p \in ChunkParsers
    PROVE  /\ p.read \in Nat /\ p.taken \in Nat /\ p.read <= Len(text) /\ Len(text) \in Nat
           /\ DOMAIN text = 1 .. Len(text) /\ text \in Seq(STRING)
           /\ p.state \in ChunkStates /\ p.step \in ChunkSteps
           /\ p.collection_stack \in Seq(BOOLEAN)
           /\ p.pending_anchor \in BOOLEAN /\ p.in_block_scalar \in BOOLEAN
           /\ p.events \in Seq(NodeEvents)
BY DEF ChunkText, ChunkParsers

\* The parser drains characters that need not be in an event, and may change its context.
LEMMA ChunkMoves ==
    ASSUME ChunkText, NEW d, NEW p, ChunkGood(d, p),
           NEW q \in ChunkParsers, q.events = p.events, q.state = p.state,
           p.taken <= q.taken, q.taken <= q.read,
           \A i \in p.taken + 1 .. q.taken : text[i] = "a" => DroppedByChunks(i),
           q.pending_anchor => p.pending_anchor \/ NameBehind(d \o p.events, q.taken)
    PROVE  ChunkGood(d, q)
<1> DEFINE s == d \o p.events
<1>1. /\ p \in ChunkParsers /\ Spans(s, p.taken) /\ Phase(s, p.state) /\ ChunkKept(s, p.taken)
      /\ Anchored(s) /\ (p.pending_anchor => NameBehind(s, p.taken))
  BY DEF ChunkGood
<1>2. p.taken \in Nat /\ q.taken \in Nat
  BY <1>1, ChunkFields
<1>3. s = d \o q.events
  OBVIOUS
<1>4. q.pending_anchor => p.pending_anchor \/ NameBehind(s, q.taken)
  OBVIOUS
<1> HIDE DEF s
<1>5. Spans(s, q.taken)
  BY <1>1, <1>2, SpansWiden
<1>6. ChunkKept(s, q.taken)
  <2>1. \A i \in 1 .. q.taken : i \in 1 .. p.taken \/ i \in p.taken + 1 .. q.taken
    BY <1>2
  <2> QED BY <1>1, <2>1 DEF ChunkKept
<1>7. q.pending_anchor => NameBehind(s, q.taken)
  <2>1. 1 .. p.taken \subseteq 1 .. q.taken
    BY <1>2
  <2>2. NameBehind(s, p.taken) => NameBehind(s, q.taken)
    BY <2>1 DEF NameBehind
  <2> QED BY <1>1, <1>4, <2>2
<1> QED BY <1>1, <1>3, <1>5, <1>6, <1>7 DEF ChunkGood

\* The parser emits an event of the next characters, or of none.
LEMMA ChunkEmits ==
    ASSUME ChunkText, NEW d \in Seq(NodeEvents), NEW p, ChunkGood(d, p),
           NEW q \in ChunkParsers, p.taken <= q.taken, q.taken <= q.read,
           NEW e \in NodeEvents, q.events = Append(p.events, e),
           e.first = p.taken + 1, e.last = q.taken,
           Phase(Append(d \o p.events, e), q.state),
           e.anchor => p.pending_anchor /\ e.type # "DocumentEnd",
           q.pending_anchor => p.pending_anchor /\ e.type # "DocumentEnd"
    PROVE  ChunkGood(d, q)
<1> DEFINE s == d \o p.events
           t == Append(s, e)
<1>1. /\ p \in ChunkParsers /\ Spans(s, p.taken) /\ Phase(s, p.state) /\ ChunkKept(s, p.taken)
      /\ Anchored(s) /\ (p.pending_anchor => NameBehind(s, p.taken))
  BY DEF ChunkGood
<1>2. p.taken \in Nat /\ q.taken \in Nat /\ p.events \in Seq(NodeEvents)
  BY <1>1, ChunkFields
<1>3. d \o q.events = t /\ s \in Seq(NodeEvents)
  <2> DEFINE a == p.events
  <2>1. a \in Seq(NodeEvents)
    BY <1>2
  <2> HIDE DEF a
  <2>2. d \o Append(a, e) = Append(d \o a, e) /\ d \o a \in Seq(NodeEvents)
    BY <2>1, QueueAppend, SMTT(30)
  <2> QED BY <2>2 DEF a
<1>4. Phase(t, q.state)
  OBVIOUS
<1> HIDE DEF s
<1>5. /\ DOMAIN t = 1 .. Len(s) + 1 /\ DOMAIN s = 1 .. Len(s) /\ Len(s) \in Nat
      /\ t[Len(s) + 1] = e /\ \A i \in 1 .. Len(s) : t[i] = s[i]
  BY <1>3
<1>6. Spans(t, q.taken)
  <2>1. e.first \in 1 .. q.taken + 1 /\ e.last \in 0 .. q.taken /\ p.taken < e.first
    BY <1>2
  <2> QED BY <1>1, <1>2, <1>3, <2>1, SpansAppend
<1>7. ChunkKept(t, q.taken)
  <2> SUFFICES ASSUME NEW i \in 1 .. q.taken, text[i] = "a", ~DroppedByChunks(i) PROVE Covered(t, i)
    BY DEF ChunkKept
  <2>1. CASE i <= p.taken
    <3>1. i \in 1 .. p.taken
      BY <1>2, <2>1
    <3>2. Covered(s, i)
      BY <1>1, <3>1 DEF ChunkKept
    <3> QED BY <1>3, <3>2, CoveredAppend
  <2>2. CASE ~(i <= p.taken)
    <3>1. e.first <= i /\ i <= e.last
      BY <1>2, <2>2
    <3> QED BY <1>3, <3>1, CoveredAppend
  <2> QED BY <2>1, <2>2
<1> HIDE DEF t
<1>8. Anchored(t)
  <2> SUFFICES ASSUME NEW j \in 1 .. Len(s) + 1, t[j].anchor
               PROVE  \E n \in 1 .. t[j].first :
                          /\ text[n] = "&"
                          /\ \A i \in 1 .. j : t[i].type = "DocumentEnd" => t[i].last < n
    BY <1>5 DEF Anchored
  <2>1. CASE j \in 1 .. Len(s)
    <3>1. t[j] = s[j] /\ \A i \in 1 .. j : t[i] = s[i]
      BY <1>5, <2>1
    <3>2. PICK n \in 1 .. s[j].first :
              /\ text[n] = "&"
              /\ \A i \in 1 .. j : s[i].type = "DocumentEnd" => s[i].last < n
      BY <1>1, <1>5, <2>1, <3>1 DEF Anchored
    <3> QED BY <3>1, <3>2
  <2>2. CASE j = Len(s) + 1
    <3>1. e.anchor /\ e.type # "DocumentEnd"
      BY <1>5, <2>2
    <3>2. PICK n \in 1 .. p.taken :
              text[n] = "&" /\ \A i \in DOMAIN s : s[i].type = "DocumentEnd" => s[i].last < n
      BY <1>1, <3>1 DEF NameBehind
    <3>3. n \in 1 .. t[j].first
      BY <1>2, <1>5, <2>2
    <3>4. \A i \in 1 .. j : t[i].type = "DocumentEnd" => t[i].last < n
      <4>1. \A i \in 1 .. j : i \in 1 .. Len(s) \/ i = Len(s) + 1
        BY <1>5, <2>2
      <4> QED BY <1>5, <3>1, <3>2, <4>1
    <3> QED BY <3>2, <3>3, <3>4
  <2> QED BY <1>5, <2>1, <2>2
<1>9. q.pending_anchor => NameBehind(t, q.taken)
  <2> SUFFICES ASSUME q.pending_anchor PROVE NameBehind(t, q.taken)
    OBVIOUS
  <2>1. PICK n \in 1 .. p.taken :
            text[n] = "&" /\ \A i \in DOMAIN s : s[i].type = "DocumentEnd" => s[i].last < n
    BY <1>1 DEF NameBehind
  <2>2. n \in 1 .. q.taken
    BY <1>2
  <2>3. \A i \in DOMAIN t : t[i].type = "DocumentEnd" => t[i].last < n
    <3>1. \A i \in DOMAIN t : i \in 1 .. Len(s) \/ i = Len(s) + 1
      BY <1>5
    <3> QED BY <1>5, <2>1, <3>1
  <2> QED BY <2>1, <2>2, <2>3 DEF NameBehind
<1> QED BY <1>3, <1>4, <1>6, <1>7, <1>8, <1>9 DEF ChunkGood

-----------------------------------------------------------------------------
\* q is p with one event more.
ChunkEmitted(p, q, e, type, first, last) ==
    /\ q \in ChunkParsers /\ q.events = Append(p.events, e) /\ SamePlace(p, q)
    /\ q.state = p.state /\ q.step = p.step /\ (q.pending_anchor => p.pending_anchor)
    /\ e \in NodeEvents /\ e.type = type /\ e.first = first /\ e.last = last
    /\ e.anchor => p.pending_anchor /\ type # "DocumentEnd"

\* Emit adds one event of the type, and keeps the place and the state.
LEMMA EmitTyped ==
    ASSUME ChunkText, NEW p \in ChunkParsers, NEW type \in EventTypes, NEW first \in Nat, NEW last \in Nat
    PROVE  \E e : ChunkEmitted(p, Chunked!Emit(p, type, first, last), e, type, first, last)
<1> DEFINE q == Chunked!Emit(p, type, first, last)
<1>1. p.pending_anchor \in BOOLEAN /\ p.events \in Seq(NodeEvents)
  BY ChunkFields
<1>2. CASE type \in {"Scalar", "SequenceStart", "MappingStart"}
  <2> DEFINE e == Chunked!Event(type, first, last, p.pending_anchor)
             s == Append(p.events, e)
  <2>1. q = [p EXCEPT !.events = s, !.pending_anchor = FALSE]
    BY <1>2 DEF Chunked!Emit
  <2>2. e \in NodeEvents /\ e.type = type /\ e.first = first /\ e.last = last /\ e.anchor = p.pending_anchor
    BY <1>1 DEF Chunked!Event, NodeEvents
  <2> HIDE DEF q, e
  <2>3. s \in Seq(NodeEvents)
    BY <1>1, <2>2
  <2> HIDE DEF s
  <2>4. /\ q \in ChunkParsers /\ q.events = s /\ SamePlace(p, q)
        /\ q.state = p.state /\ q.step = p.step /\ ~q.pending_anchor
    BY <2>1, <2>3 DEF ChunkParsers, SamePlace
  <2>5. type # "DocumentEnd"
    BY <1>2
  <2>6. ChunkEmitted(p, q, e, type, first, last)
    BY <2>2, <2>4, <2>5 DEF ChunkEmitted, s
  <2> QED BY <2>6 DEF q
<1>3. CASE type \notin {"Scalar", "SequenceStart", "MappingStart"}
  <2> DEFINE e == Chunked!Event(type, first, last, FALSE)
             s == Append(p.events, e)
  <2>1. q = [p EXCEPT !.events = s]
    BY <1>3 DEF Chunked!Emit
  <2>2. e \in NodeEvents /\ e.type = type /\ e.first = first /\ e.last = last /\ ~e.anchor
    BY DEF Chunked!Event, NodeEvents
  <2> HIDE DEF q, e
  <2>3. s \in Seq(NodeEvents)
    BY <1>1, <2>2
  <2> HIDE DEF s
  <2>4. /\ q \in ChunkParsers /\ q.events = s /\ SamePlace(p, q)
        /\ q.state = p.state /\ q.step = p.step /\ q.pending_anchor = p.pending_anchor
    BY <2>1, <2>3 DEF ChunkParsers, SamePlace
  <2>5. ChunkEmitted(p, q, e, type, first, last)
    BY <2>2, <2>4 DEF ChunkEmitted, s
  <2> QED BY <2>5 DEF q
<1> QED BY <1>2, <1>3

\* Draining characters that need not be in an event.
LEMMA DrainGood ==
    ASSUME ChunkText, NEW d, NEW p, NEW state, NEW step, ChunkAt(d, p, state, step),
           NEW n \in Nat, p.taken + n <= p.read,
           \A i \in p.taken + 1 .. p.taken + n : text[i] = "a" => DroppedByChunks(i)
    PROVE  LET q == Chunked!Drain(p, n)
           IN  ChunkAt(d, q, state, step) /\ q.taken = p.taken + n /\ q.read = p.read
<1> DEFINE m == p.taken + n
           q == [p EXCEPT !.taken = m]
<1>1. p \in ChunkParsers /\ ChunkGood(d, p) /\ p.state = state /\ p.step = step
  BY DEF ChunkAt, ChunkGood
<1>2. p.taken \in Nat /\ p.read \in Nat /\ p.read <= Len(text) /\ Len(text) \in Nat
  BY <1>1, ChunkFields
<1>3. Chunked!Drain(p, n) = q
  BY DEF Chunked!Drain
<1>4. m \in 0 .. Len(text) /\ p.taken <= m /\ m <= p.read
  BY <1>2
<1>5. \A i \in p.taken + 1 .. m : text[i] = "a" => DroppedByChunks(i)
  OBVIOUS
<1> HIDE DEF m
<1>6. /\ q \in ChunkParsers /\ q.taken = m /\ q.read = p.read /\ q.events = p.events
      /\ q.state = p.state /\ q.step = p.step /\ q.pending_anchor = p.pending_anchor
  BY <1>1, <1>4 DEF ChunkParsers
<1> HIDE DEF q
<1>7. ChunkGood(d, q)
  BY <1>1, <1>4, <1>5, <1>6, ChunkMoves
<1> QED BY <1>1, <1>3, <1>6, <1>7 DEF ChunkAt, m

\* An event of a node, and of an alias, in a document.
NodeTypes == EventTypes \ {"StreamStart", "DocumentStart", "DocumentEnd"}

\* An event of the next characters, which are drained.
LEMMA EmitNextGood ==
    ASSUME ChunkText, NEW d \in Seq(NodeEvents), NEW p, NEW step,
           ChunkAt(d, p, "InDocument", step),
           NEW type \in NodeTypes, NEW n \in Nat, p.taken + n <= p.read
    PROVE  LET q == Chunked!EmitNext(p, type, n)
           IN  ChunkAt(d, q, "InDocument", step) /\ q.taken = p.taken + n /\ q.read = p.read
<1> DEFINE first == p.taken + 1
           m == p.taken + n
           r == Chunked!Emit(p, type, first, m)
           q == [r EXCEPT !.taken = @ + n]
<1>1. p \in ChunkParsers /\ ChunkGood(d, p) /\ p.state = "InDocument" /\ p.step = step
  BY DEF ChunkAt, ChunkGood
<1>2. /\ p.taken \in Nat /\ p.read \in Nat /\ p.read <= Len(text) /\ Len(text) \in Nat
      /\ first \in Nat /\ m \in 0 .. Len(text) /\ m \in Nat /\ p.taken <= m /\ m <= p.read
  BY <1>1, ChunkFields
<1>3. Chunked!EmitNext(p, type, n) = q
  BY DEF Chunked!EmitNext, Chunked!Drain
<1>4. type \in EventTypes /\ type \notin {"StreamStart", "DocumentStart", "DocumentEnd"}
  BY DEF NodeTypes
<1> HIDE DEF first, m
<1>5. PICK e : ChunkEmitted(p, r, e, type, first, m)
  BY <1>1, <1>2, <1>4, EmitTyped
<1> HIDE DEF r
<1>6. q = [r EXCEPT !.taken = m]
  BY <1>5 DEF ChunkEmitted, SamePlace, ChunkParsers, m
<1>7. /\ q \in ChunkParsers /\ q.taken = m /\ q.read = p.read /\ q.events = Append(p.events, e)
      /\ q.state = p.state /\ q.step = p.step /\ (q.pending_anchor => p.pending_anchor)
  BY <1>2, <1>5, <1>6 DEF ChunkEmitted, SamePlace, ChunkParsers
<1> HIDE DEF q
<1>8. Phase(Append(d \o p.events, e), q.state)
  <2>1. d \o p.events \in Seq(NodeEvents) /\ Phase(d \o p.events, "InDocument")
    BY <1>1, ChunkFields DEF ChunkGood
  <2>2. e.type \notin {"StreamStart", "DocumentStart", "DocumentEnd"}
    BY <1>4, <1>5 DEF ChunkEmitted
  <2> QED BY <1>1, <1>7, <2>1, <2>2, PhaseNode
<1>9. /\ e \in NodeEvents /\ e.first = p.taken + 1 /\ e.last = q.taken /\ e.type # "DocumentEnd"
      /\ (e.anchor => p.pending_anchor)
  BY <1>4, <1>5, <1>7 DEF ChunkEmitted, first
<1>10. ChunkGood(d, q)
  BY <1>1, <1>2, <1>7, <1>8, <1>9, ChunkEmits
<1> QED BY <1>1, <1>3, <1>7, <1>10 DEF ChunkAt, m

\* An event of no characters, of any type.
LEMMA MarkGood ==
    ASSUME ChunkText, NEW d \in Seq(NodeEvents), NEW p, ChunkGood(d, p),
           NEW type \in EventTypes, NEW q \in ChunkParsers,
           q.events = Chunked!EmitMark(p, type).events, SamePlace(p, q),
           q.pending_anchor => p.pending_anchor /\ type # "DocumentEnd",
           \A e : e.type = type => Phase(Append(d \o p.events, e), q.state)
    PROVE  ChunkGood(d, q)
<1> DEFINE first == p.taken + 1
           r == Chunked!Emit(p, type, first, p.taken)
<1>1. p \in ChunkParsers /\ p.taken \in Nat /\ first \in Nat /\ p.taken <= p.read
  BY ChunkFields DEF ChunkGood
<1>2. q.events = r.events
  BY DEF Chunked!EmitMark
<1> HIDE DEF first
<1>3. PICK e : ChunkEmitted(p, r, e, type, first, p.taken)
  BY <1>1, EmitTyped
<1> HIDE DEF r
<1>4. /\ q.taken = p.taken /\ q.read = p.read /\ q.events = Append(p.events, e)
      /\ e \in NodeEvents /\ e.first = p.taken + 1 /\ e.last = q.taken /\ e.type = type
      /\ (e.anchor => p.pending_anchor /\ e.type # "DocumentEnd")
  BY <1>2, <1>3 DEF ChunkEmitted, SamePlace, first
<1>5. Phase(Append(d \o p.events, e), q.state)
  BY <1>4
<1>6. p.taken <= q.taken /\ q.taken <= q.read
  BY <1>1, <1>4
<1> QED BY <1>4, <1>5, <1>6, ChunkEmits

\* An event of no characters, of a node or an alias.
LEMMA EmitMarkGood ==
    ASSUME ChunkText, NEW d \in Seq(NodeEvents), NEW p, NEW step,
           ChunkAt(d, p, "InDocument", step), NEW type \in NodeTypes
    PROVE  LET q == Chunked!EmitMark(p, type)
           IN  ChunkAt(d, q, "InDocument", step) /\ SamePlace(p, q)
<1> DEFINE first == p.taken + 1
           q == Chunked!EmitMark(p, type)
<1>1. p \in ChunkParsers /\ ChunkGood(d, p) /\ p.state = "InDocument" /\ p.step = step
  BY DEF ChunkAt, ChunkGood
<1>2. p.taken \in Nat /\ first \in Nat /\ d \o p.events \in Seq(NodeEvents)
  BY <1>1, ChunkFields
<1>3. type \in EventTypes /\ type \notin {"StreamStart", "DocumentStart", "DocumentEnd"}
  BY DEF NodeTypes
<1>4. q = Chunked!Emit(p, type, first, p.taken)
  BY DEF Chunked!EmitMark
<1> HIDE DEF first
<1>5. \E e : ChunkEmitted(p, q, e, type, first, p.taken)
  BY <1>1, <1>2, <1>3, <1>4, EmitTyped
<1>6. q \in ChunkParsers /\ SamePlace(p, q) /\ q.state = p.state /\ q.step = p.step
      /\ (q.pending_anchor => p.pending_anchor)
  <2> HIDE DEF q
  <2> QED BY <1>5 DEF ChunkEmitted
<1>7. \A e : e.type = type => Phase(Append(d \o p.events, e), q.state)
  <2>1. Phase(d \o p.events, "InDocument")
    BY <1>1 DEF ChunkGood
  <2> HIDE DEF q
  <2> QED BY <1>1, <1>2, <1>3, <1>6, <2>1, PhaseNode
<1>8. q.events = Chunked!EmitMark(p, type).events
  OBVIOUS
<1> HIDE DEF q
<1>9. ChunkGood(d, q)
  BY <1>1, <1>3, <1>6, <1>7, <1>8, MarkGood
<1> QED BY <1>1, <1>6, <1>9 DEF ChunkAt, q

\* How many characters stand before some.
LEMMA BeforeBounds ==
    ASSUME ChunkText, NEW p \in ChunkParsers, p.taken <= p.read, NEW characters
    PROVE  LET n == Chunked!Before(p, characters)
           IN  /\ n \in Nat /\ p.taken + n <= p.read
               /\ Chunked!Holds(p, characters) =>
                      p.taken + n + 1 <= p.read /\ text[p.taken + n + 1] \in characters
               /\ \A i \in p.taken + 1 .. p.taken + n : text[i] \notin characters
<1> DEFINE found == {i \in 1 .. p.read - p.taken : text[p.taken + i] \in characters}
           n == Chunked!Before(p, characters)
<1>1. p.taken \in Nat /\ p.read \in Nat
  BY ChunkFields
<1>2. n = IF found = {} THEN p.read - p.taken ELSE Min(found) - 1
  BY DEF Chunked!Before, Chunked!Min, Min
<1>3. CASE found = {}
  <2>1. n = p.read - p.taken
    BY <1>2, <1>3
  <2>2. ASSUME NEW i \in p.taken + 1 .. p.taken + n PROVE text[i] \notin characters
    <3>1. i - p.taken \in 1 .. p.read - p.taken /\ p.taken + (i - p.taken) = i
      <4> HIDE DEF n
      <4> QED BY <1>1, <2>1
    <3> QED BY <1>3, <3>1
  <2> HIDE DEF n, found
  <2>3. n \in Nat /\ p.taken + n <= p.read
    BY <1>1, <2>1
  <2>4. ~Chunked!Holds(p, characters)
    BY <1>1, <2>1 DEF Chunked!Holds, n
  <2> QED BY <2>2, <2>3, <2>4 DEF n
<1>4. CASE found # {}
  <2>1. found \in SUBSET Nat
    BY <1>1
  <2>2. Min(found) \in found /\ \A i \in found : Min(found) <= i
    <3> HIDE DEF found
    <3> QED BY <1>4, <2>1, MinBounds
  <2> DEFINE m == Min(found)
  <2>3. m \in 1 .. p.read - p.taken /\ text[p.taken + m] \in characters
    BY <2>2
  <2>4. n = m - 1 /\ \A i \in found : m <= i
    BY <1>2, <1>4, <2>2
  <2> HIDE DEF m, n
  <2>5. n \in Nat /\ p.taken + n <= p.read /\ p.taken + n + 1 <= p.read /\ p.taken + n + 1 = p.taken + m
    <3> HIDE DEF found
    <3> QED BY <1>1, <2>3, <2>4
  <2>6. ASSUME NEW i \in p.taken + 1 .. p.taken + n, text[i] \in characters PROVE FALSE
    <3> DEFINE k == i - p.taken
    <3>1. k \in 1 .. p.read - p.taken /\ p.taken + k = i /\ k < m
      <4> HIDE DEF found
      <4> QED BY <1>1, <2>3, <2>4, <2>5
    <3> HIDE DEF k
    <3>2. k \in found
      BY <2>6, <3>1
    <3> HIDE DEF found
    <3> QED BY <1>1, <2>3, <2>4, <3>1, <3>2
  <2> HIDE DEF found
  <2> QED BY <2>3, <2>5, <2>6 DEF n
<1> QED BY <1>3, <1>4

-----------------------------------------------------------------------------
\* Whitespace is drained.
LEMMA WhitespaceIn ==
    ASSUME ChunkText, NEW d, NEW p, NEW state, NEW step, ChunkAt(d, p, state, step)
    PROVE  ChunkAt(d, Chunked!skip_whitespace(p), state, step)
<1> DEFINE visible == {i \in p.taken + 1 .. p.read : text[i] \notin {" "}}
           m == IF visible = {} THEN p.read ELSE Min(visible) - 1
           q == [p EXCEPT !.taken = m]
<1>1. p \in ChunkParsers /\ ChunkGood(d, p) /\ p.state = state /\ p.step = step /\ p.taken <= p.read
  BY DEF ChunkAt, ChunkGood
<1>2. p.taken \in Nat /\ p.read \in Nat /\ p.read <= Len(text) /\ Len(text) \in Nat
  BY <1>1, ChunkFields
<1>3. Chunked!skip_whitespace(p) = q
  BY DEF Chunked!skip_whitespace, Chunked!Blanks, Chunked!Min, Min
<1>4. /\ m \in p.taken .. p.read
      /\ \A i \in p.taken + 1 .. m : i \notin visible
  <2>1. CASE visible = {}
    <3>1. m = p.read /\ \A i : i \notin visible
      BY <2>1
    <3>2. p.read \in p.taken .. p.read
      BY <1>1, <1>2
    <3> HIDE DEF m, visible
    <3> QED BY <3>1, <3>2
  <2>2. CASE visible # {}
    <3>1. visible \in SUBSET Nat /\ visible \subseteq p.taken + 1 .. p.read
      <4>1. visible \subseteq p.taken + 1 .. p.read
        OBVIOUS
      <4>2. p.taken + 1 .. p.read \subseteq Nat
        BY <1>2
      <4> HIDE DEF visible
      <4> QED BY <4>1, <4>2
    <3> HIDE DEF visible
    <3>2. Min(visible) \in visible /\ \A i \in visible : Min(visible) <= i
      BY <2>2, <3>1, MinBounds
    <3> DEFINE k == Min(visible)
    <3>3. k \in p.taken + 1 .. p.read /\ m = k - 1 /\ \A i \in visible : k <= i
      BY <2>2, <3>1, <3>2
    <3> HIDE DEF k, m
    <3>4. m \in p.taken .. p.read
      BY <1>2, <3>3
    <3>5. ASSUME NEW i \in p.taken + 1 .. m, i \in visible PROVE FALSE
      BY <1>2, <3>3, <3>4, <3>5
    <3> QED BY <3>4, <3>5
  <2> QED BY <2>1, <2>2
<1>5. m \in Nat /\ m \in 0 .. Len(text) /\ p.taken <= m /\ m <= p.read
  <2>1. m \in p.taken .. p.read
    BY <1>4
  <2> HIDE DEF m
  <2> QED BY <1>2, <2>1
<1>6. \A i \in p.taken + 1 .. m : text[i] = "a" => DroppedByChunks(i)
  <2> SUFFICES ASSUME NEW i \in p.taken + 1 .. m, text[i] = "a" PROVE FALSE
    OBVIOUS
  <2>1. i \notin visible
    BY <1>4
  <2> HIDE DEF m
  <2>2. i \in p.taken + 1 .. p.read
    BY <1>2, <1>5
  <2> QED BY <2>1, <2>2
<1> HIDE DEF m, visible
<1>7. /\ q \in ChunkParsers /\ q.taken = m /\ q.read = p.read /\ q.events = p.events
      /\ q.state = p.state /\ q.step = p.step /\ q.pending_anchor = p.pending_anchor
  BY <1>1, <1>5 DEF ChunkParsers
<1> HIDE DEF q
<1>8. ChunkGood(d, q)
  BY <1>1, <1>5, <1>6, <1>7, ChunkMoves
<1> QED BY <1>1, <1>3, <1>7, <1>8 DEF ChunkAt

\* Characters at the start of the buffer.
LEMMA StartsWithIs ==
    ASSUME ChunkText, NEW p \in ChunkParsers, p.taken <= p.read,
           NEW T, NEW c \in Seq(T), c # <<>>, Chunked!StartsWith(p, c)
    PROVE  /\ p.taken + Len(c) <= p.read
           /\ \A i \in 1 .. Len(c) : text[p.taken + i] = c[i]
<1> DEFINE b == SubSeq(text, p.taken + 1, p.read)
           n == Len(c)
<1>1. /\ p.taken \in Nat /\ p.read \in Nat /\ p.read <= Len(text) /\ Len(text) \in Nat
      /\ text \in Seq(STRING)
  BY ChunkFields
<1>2. n \in Nat /\ 1 <= n
  BY EmptySeq, LenProperties
<1>3. n <= Len(b) /\ SubSeq(c, 1, n) = SubSeq(b, 1, n)
  BY DEF Chunked!StartsWith, Chunked!IsPrefix, Chunked!Buffer
<1>4. b \in Seq(STRING) /\ (p.taken < p.read => Len(b) = p.read - p.taken) /\ (p.taken = p.read => Len(b) = 0)
  <2>1. \A i \in p.taken + 1 .. p.read : text[i] \in STRING
    BY <1>1
  <2> DEFINE a == p.taken + 1
             z == p.read
  <2>2. a \in Int /\ z \in Int /\ \A i \in a .. z : text[i] \in STRING
    BY <1>1, <2>1
  <2> HIDE DEF a, z
  <2>3. /\ SubSeq(text, a, z) \in Seq(STRING)
        /\ Len(SubSeq(text, a, z)) = IF a <= z THEN z - a + 1 ELSE 0
    BY <1>1, <2>2, SubSeqProperties
  <2> DEFINE l == Len(SubSeq(text, a, z))
  <2>4. l = IF a <= z THEN z - a + 1 ELSE 0
    BY <2>3
  <2> HIDE DEF l
  <2>5. /\ (p.taken < p.read => l = p.read - p.taken)
        /\ (p.taken = p.read => l = 0)
    BY <1>1, <2>4 DEF a, z
  <2> QED BY <2>3, <2>5 DEF a, z, l
<1>5. p.taken < p.read
  <2> HIDE DEF b, n
  <2> QED BY <1>1, <1>2, <1>3, <1>4
<1>6. p.taken + n <= p.read
  <2> HIDE DEF b, n
  <2> QED BY <1>1, <1>2, <1>3, <1>4, <1>5
<1>7. ASSUME NEW i \in 1 .. n PROVE text[p.taken + i] = c[i]
  <2>1. SubSeq(c, 1, n)[i] = c[i]
    <3>1. \A k \in 1 .. n : SubSeq(c, 1, n)[k - 1 + 1] = c[k]
      BY <1>2, PartOfText
    <3>2. i - 1 + 1 = i
      BY <1>2
    <3> QED BY <3>1, <3>2
  <2>2. SubSeq(b, 1, n)[i] = b[i]
    <3> HIDE DEF b, n
    <3>1. \A k \in 1 .. n : SubSeq(b, 1, n)[k - 1 + 1] = b[k]
      BY <1>2, <1>3, <1>4, PartOfText
    <3>2. i - 1 + 1 = i
      BY <1>2
    <3> QED BY <3>1, <3>2
  <2>3. b[i] = text[p.taken + i]
    <3> DEFINE a == p.taken + 1
               k == p.taken + i
    <3>1. /\ a \in Nat /\ 1 <= a /\ a <= p.read
          /\ k \in a .. p.read /\ k - a + 1 = i
      <4> DEFINE x == p.taken
                 y == p.read
                 m == n
      <4>1. /\ x \in Nat /\ y \in Nat /\ m \in Nat /\ x < y /\ x + m <= y /\ i \in 1 .. m
            /\ a = x + 1 /\ k = x + i
        BY <1>1, <1>2, <1>5, <1>6
      <4> HIDE DEF a, k, x, y, m
      <4>2. a \in Nat /\ 1 <= a /\ a <= y /\ k \in a .. y /\ k - a + 1 = i
        BY <4>1
      <4> QED BY <4>2 DEF y
    <3> HIDE DEF a, k
    <3>2. \A j \in a .. p.read : SubSeq(text, a, p.read)[j - a + 1] = text[j]
      BY <1>1, <3>1, PartOfText
    <3>3. SubSeq(text, a, p.read)[i] = text[k]
      BY <3>1, <3>2
    <3> QED BY <3>3 DEF a, k
  <2> QED BY <1>3, <2>1, <2>2, <2>3
<1> QED BY <1>6, <1>7

\* A character that is not of a node is drained.
LEMMA DrainOne ==
    ASSUME ChunkText, NEW d, NEW p, NEW state, NEW step, ChunkAt(d, p, state, step),
           p.taken + 1 <= p.read, text[p.taken + 1] # "a"
    PROVE  LET q == Chunked!Drain(p, 1)
           IN  ChunkAt(d, q, state, step) /\ q.taken = p.taken + 1 /\ q.read = p.read
<1>1. p \in ChunkParsers
  BY DEF ChunkAt, ChunkGood
<1>2. p.taken \in Nat
  BY <1>1, ChunkFields
<1>3. \A i \in p.taken + 1 .. p.taken + 1 : text[i] = "a" => DroppedByChunks(i)
  <2>1. \A i \in p.taken + 1 .. p.taken + 1 : i = p.taken + 1
    BY <1>2
  <2> QED BY <2>1
<1> QED BY <1>3, DrainGood

\* What stands behind a sign.
LEMMA StandsBehind ==
    ASSUME NEW k \in Nat, 1 <= k, NEW sign, text[k] = sign, NEW ends, NEW m \in Nat,
           \A i \in k + 1 .. m : text[i] \notin ends
    PROVE  \A i \in k .. m : Behind(i, sign, ends)
<1> SUFFICES ASSUME NEW i \in k .. m PROVE Behind(i, sign, ends)
  OBVIOUS
<1>1. k \in 1 .. i /\ \A j \in k + 1 .. i : j \in k + 1 .. m
  OBVIOUS
<1> QED BY <1>1 DEF Behind

\* Another context.
LEMMA ContextGood ==
    ASSUME ChunkText, NEW d, NEW p, NEW state, NEW step, ChunkAt(d, p, state, step),
           NEW q \in ChunkParsers, SamePlace(p, q), q.events = p.events, q.state = p.state,
           NEW to, q.step = to, q.pending_anchor => p.pending_anchor \/ NameBehind(d \o p.events, p.taken)
    PROVE  ChunkAt(d, q, state, to)
<1>1. p \in ChunkParsers /\ ChunkGood(d, p) /\ p.state = state /\ p.taken <= p.read
  BY DEF ChunkAt, ChunkGood
<1>2. p.taken \in Nat /\ q.taken = p.taken /\ q.read = p.read
  BY <1>1, ChunkFields DEF SamePlace
<1>3. \A i \in p.taken + 1 .. q.taken : text[i] = "a" => DroppedByChunks(i)
  BY <1>2
<1>4. p.taken <= q.taken /\ q.taken <= q.read
  BY <1>1, <1>2
<1>5. q.pending_anchor => p.pending_anchor \/ NameBehind(d \o p.events, q.taken)
  BY <1>2
<1>6. ChunkGood(d, q)
  BY <1>1, <1>3, <1>4, <1>5, ChunkMoves
<1> QED BY <1>1, <1>6 DEF ChunkAt

\* A collection is opened, if none is.
LEMMA OpensIn ==
    ASSUME ChunkText, NEW d \in Seq(NodeEvents), NEW p, NEW step, ChunkAt(d, p, "InDocument", step),
           NEW type \in NodeTypes, NEW map \in BOOLEAN
    PROVE  LET q == Chunked!Opens(p, type, map)
           IN  ChunkAt(d, q, "InDocument", step) /\ SamePlace(p, q)
<1> DEFINE r == Chunked!EmitMark(p, type)
           s == Append(r.collection_stack, map)
           q == [r EXCEPT !.collection_stack = s]
<1>1. ChunkAt(d, r, "InDocument", step) /\ SamePlace(p, r)
  BY EmitMarkGood
<1>2. Chunked!Opens(p, type, map) \in {p, q}
  BY DEF Chunked!Opens
<1> HIDE DEF r
<1>3. r \in ChunkParsers /\ r.state = "InDocument" /\ r.step = step
  BY <1>1 DEF ChunkAt, ChunkGood
<1>4. s \in Seq(BOOLEAN)
  <2>1. r.collection_stack \in Seq(BOOLEAN)
    BY <1>3, ChunkFields
  <2> DEFINE c == r.collection_stack
  <2> HIDE DEF c
  <2>2. c \in Seq(BOOLEAN)
    BY <2>1 DEF c
  <2>3. Append(c, map) \in Seq(BOOLEAN)
    BY <2>2, AppendProperties
  <2> QED BY <2>3 DEF c
<1> HIDE DEF s
<1>5. /\ q \in ChunkParsers /\ SamePlace(r, q) /\ q.events = r.events /\ q.state = r.state
      /\ q.step = step /\ q.pending_anchor = r.pending_anchor
  BY <1>3, <1>4 DEF ChunkParsers, SamePlace
<1> HIDE DEF q
<1>6. ChunkAt(d, q, "InDocument", step)
  BY <1>1, <1>5, ContextGood
<1>7. SamePlace(p, q) /\ SamePlace(p, p)
  BY <1>1, <1>5 DEF SamePlace
<1> QED BY <1>2, <1>6, <1>7

-----------------------------------------------------------------------------
\* The handlers of parse_yaml_content, in a document.  n characters of the next event,
\* and one behind it that is not of a node.
LEMMA EmitAndOne ==
    ASSUME ChunkText, NEW d \in Seq(NodeEvents), NEW p, NEW step,
           ChunkAt(d, p, "InDocument", step),
           NEW type \in NodeTypes, NEW n \in Nat, p.taken + n + 1 <= p.read,
           text[p.taken + n + 1] # "a"
    PROVE  ChunkAt(d, Chunked!Drain(Chunked!EmitNext(p, type, n), 1), "InDocument", step)
<1> DEFINE q == Chunked!EmitNext(p, type, n)
<1>1. p \in ChunkParsers
  BY DEF ChunkAt, ChunkGood
<1>2. p.taken \in Nat /\ p.read \in Nat
  BY <1>1, ChunkFields
<1>3. p.taken + n <= p.read
  BY <1>2
<1>4. ChunkAt(d, q, "InDocument", step) /\ q.taken = p.taken + n /\ q.read = p.read
  BY <1>3, EmitNextGood
<1> HIDE DEF q
<1>5. q.taken + 1 <= q.read /\ text[q.taken + 1] # "a"
  BY <1>4
<1>6. ChunkAt(d, Chunked!Drain(q, 1), "InDocument", step)
  BY <1>4, <1>5, DrainOne
<1> QED BY <1>6 DEF q

\* "- ".
LEMMA SequenceItemGood ==
    ASSUME ChunkText, NEW d \in Seq(NodeEvents), NEW p, NEW step,
           ChunkAt(d, p, "InDocument", step), Chunked!is_sequence_item(p)
    PROVE  ChunkAt(d, Chunked!parse_sequence_item(p), "InDocument", step)
<1> DEFINE c == <<"-", " ">>
           q == Chunked!Drain(p, 1)
           type == "SequenceStart"
           r == Chunked!Opens(q, type, FALSE)
<1>1. p \in ChunkParsers /\ p.taken <= p.read
  BY DEF ChunkAt, ChunkGood
<1>2. p.taken \in Nat /\ p.read \in Nat
  BY <1>1, ChunkFields
<1>3. c \in Seq({"-", " "}) /\ c # <<>> /\ Len(c) = 2 /\ c[1] = "-"
  OBVIOUS
<1>4. Chunked!StartsWith(p, c)
  BY DEF Chunked!is_sequence_item
<1> HIDE DEF c
<1>5. p.taken + 2 <= p.read /\ text[p.taken + 1] = "-"
  <2>1. p.taken + Len(c) <= p.read /\ \A i \in 1 .. Len(c) : text[p.taken + i] = c[i]
    BY <1>1, <1>3, <1>4, StartsWithIs
  <2>2. 1 \in 1 .. 2
    OBVIOUS
  <2> QED BY <1>3, <2>1, <2>2
<1>6. p.taken + 1 <= p.read /\ text[p.taken + 1] # "a"
  BY <1>2, <1>5
<1>7. ChunkAt(d, q, "InDocument", step)
  BY <1>6, DrainOne
<1>8. type \in NodeTypes
  BY DEF NodeTypes, EventTypes
<1>9. Chunked!parse_sequence_item(p) = Chunked!skip_whitespace(r)
  BY DEF Chunked!parse_sequence_item
<1> HIDE DEF q, type
<1>10. ChunkAt(d, r, "InDocument", step)
  BY <1>7, <1>8, OpensIn
<1> HIDE DEF r
<1>11. ChunkAt(d, Chunked!skip_whitespace(r), "InDocument", step)
  BY <1>10, WhitespaceIn
<1> QED BY <1>9, <1>11

\* A key, up to its colon.
LEMMA MappingEntryGood ==
    ASSUME ChunkText, NEW d \in Seq(NodeEvents), NEW p, NEW step,
           ChunkAt(d, p, "InDocument", step), Chunked!is_mapping_key(p)
    PROVE  ChunkAt(d, Chunked!parse_mapping_entry(p), "InDocument", step)
<1> DEFINE open == "MappingStart"
           type == "Scalar"
           colon == {":"}
           n == Chunked!Before(p, colon)
           r == Chunked!Opens(p, open, TRUE)
<1>1. p \in ChunkParsers /\ p.taken <= p.read
  BY DEF ChunkAt, ChunkGood
<1>2. Chunked!Holds(p, colon)
  BY DEF Chunked!is_mapping_key
<1>3. open \in NodeTypes /\ type \in NodeTypes
  BY DEF NodeTypes, EventTypes
<1>4. Chunked!parse_mapping_entry(p) = Chunked!Drain(Chunked!EmitNext(r, type, n), 1)
  BY DEF Chunked!parse_mapping_entry
<1>5. \A x \in colon : x # "a"
  OBVIOUS
<1> HIDE DEF open, type, colon
<1>6. n \in Nat /\ p.taken + n + 1 <= p.read /\ text[p.taken + n + 1] \in colon
  BY <1>1, <1>2, BeforeBounds
<1>7. ChunkAt(d, r, "InDocument", step) /\ SamePlace(p, r)
  BY <1>3, OpensIn
<1> HIDE DEF n, r
<1>8. r.taken + n + 1 <= r.read /\ text[r.taken + n + 1] # "a"
  BY <1>5, <1>6, <1>7 DEF SamePlace
<1>9. ChunkAt(d, Chunked!Drain(Chunked!EmitNext(r, type, n), 1), "InDocument", step)
  BY <1>3, <1>6, <1>7, <1>8, EmitAndOne
<1> QED BY <1>4, <1>9

\* The places behind x, the first of them and the n-th.
LEMMA PlacesBehind ==
    ASSUME NEW x \in Nat, NEW n \in Nat
    PROVE  /\ x + 1 \in Nat /\ 1 <= x + 1 /\ x + n \in Nat
           /\ \A j \in (x + 1) + 1 .. x + n : j \in x + 1 .. x + n
           /\ \A i \in x + 1 .. x + (n + 1) : i # x + n + 1 => i \in x + 1 .. x + n
OBVIOUS

\* A flow collection, which is dropped up to its first closing bracket.
LEMMA FlowCollectionGood ==
    ASSUME ChunkText, NEW d \in Seq(NodeEvents), NEW p, NEW step,
           ChunkAt(d, p, "InDocument", step), NEW opening, text[p.taken + 1] = opening,
           NEW start \in NodeTypes, NEW end \in NodeTypes, NEW closing, closing # "a",
           \A i : Behind(i, opening, {closing}) => DroppedByChunks(i)
    PROVE  ChunkAt(d, Chunked!FlowCollection(p, start, end, closing), "InDocument", step)
<1> DEFINE n == Chunked!Before(p, {closing})
           q == Chunked!EmitMark(p, start)
           r == Chunked!EmitMark(q, end)
           z == Chunked!Drain(r, n + 1)
<1>1. p \in ChunkParsers /\ p.taken <= p.read
  BY DEF ChunkAt, ChunkGood
<1>2. p.taken \in Nat /\ p.read \in Nat
  BY <1>1, ChunkFields
<1>3. Chunked!FlowCollection(p, start, end, closing)
          = IF ~Chunked!Holds(p, {closing}) THEN p ELSE z
  BY DEF Chunked!FlowCollection
<1>4. CASE ~Chunked!Holds(p, {closing})
  BY <1>3, <1>4
<1>5. CASE Chunked!Holds(p, {closing})
  <2> DEFINE closings == {closing}
             m == n + 1
  <2>1. /\ n \in Nat /\ p.taken + n + 1 <= p.read /\ text[p.taken + n + 1] = closing
        /\ \A i \in p.taken + 1 .. p.taken + n : text[i] \notin closings
    BY <1>1, <1>5, BeforeBounds
  <2>2. ChunkAt(d, q, "InDocument", step) /\ SamePlace(p, q)
    BY EmitMarkGood
  <2> HIDE DEF q, n, closings
  <2>3. ChunkAt(d, r, "InDocument", step) /\ SamePlace(q, r)
    BY <2>2, EmitMarkGood
  <2> HIDE DEF r
  <2>4. r.taken = p.taken /\ r.read = p.read
    BY <2>2, <2>3 DEF SamePlace
  <2>5. m \in Nat /\ r.taken + m <= r.read
    <3> HIDE DEF z
    <3> QED BY <1>2, <2>1, <2>4
  <2>6. ASSUME NEW i \in r.taken + 1 .. r.taken + m, text[i] = "a" PROVE DroppedByChunks(i)
    <3> DEFINE k == p.taken + 1
               l == p.taken + n
    <3>1. /\ k \in Nat /\ 1 <= k /\ l \in Nat /\ \A j \in k + 1 .. l : j \in k .. l
          /\ \A j \in k .. p.taken + (n + 1) : j # p.taken + n + 1 => j \in k .. l
      <4> HIDE DEF z
      <4> QED BY <1>2, <2>1, PlacesBehind
    <3>2. i # p.taken + n + 1
      BY <2>1, <2>6
    <3>3. i \in k .. l
      <4> HIDE DEF z
      <4> QED BY <2>4, <2>6, <3>1, <3>2
    <3> HIDE DEF l
    <3>4. text[k] = opening /\ \A j \in k + 1 .. l : text[j] \notin closings
      BY <2>1, <3>1 DEF l
    <3> HIDE DEF k
    <3>5. Behind(i, opening, closings)
      BY <3>1, <3>3, <3>4, StandsBehind
    <3> QED BY <3>5 DEF closings
  <2> HIDE DEF m
  <2>7. ChunkAt(d, Chunked!Drain(r, m), "InDocument", step)
    BY <2>3, <2>5, <2>6, DrainGood
  <2> QED BY <1>3, <1>5, <2>7 DEF m
<1> QED BY <1>4, <1>5

\* "|".
LEMMA BlockScalarStartGood ==
    ASSUME ChunkText, NEW d \in Seq(NodeEvents), NEW p, NEW step,
           ChunkAt(d, p, "InDocument", step), p.taken + 1 <= p.read, text[p.taken + 1] = "|"
    PROVE  ChunkAt(d, Chunked!parse_block_scalar_start(p), "InDocument", step)
<1> DEFINE r == Chunked!Drain(p, 1)
           q == [r EXCEPT !.in_block_scalar = TRUE]
<1>1. ChunkAt(d, r, "InDocument", step)
  <2>1. text[p.taken + 1] # "a"
    OBVIOUS
  <2> QED BY <2>1, DrainOne
<1>2. Chunked!parse_block_scalar_start(p) = q
  BY DEF Chunked!parse_block_scalar_start
<1> HIDE DEF r
<1>3. r \in ChunkParsers /\ r.step = step
  BY <1>1 DEF ChunkAt, ChunkGood
<1>4. /\ q \in ChunkParsers /\ SamePlace(r, q) /\ q.events = r.events /\ q.state = r.state
      /\ q.step = step /\ q.pending_anchor = r.pending_anchor
  BY <1>3 DEF ChunkParsers, SamePlace
<1> HIDE DEF q
<1>5. ChunkAt(d, q, "InDocument", step)
  BY <1>1, <1>4, ContextGood
<1> QED BY <1>2, <1>5

\* "&" and a name.
LEMMA ChunkAnchorGood ==
    ASSUME ChunkText, NEW d \in Seq(NodeEvents), NEW p, NEW step,
           ChunkAt(d, p, "InDocument", step), p.taken + 1 <= p.read, text[p.taken + 1] = "&"
    PROVE  ChunkAt(d, Chunked!parse_anchor(p), "InDocument", step)
<1> DEFINE r == Chunked!Drain(p, 1)
           n == Chunked!NameLength(r)
           u == Chunked!Drain(r, n)
           q == [u EXCEPT !.pending_anchor = TRUE]
<1>1. p \in ChunkParsers /\ Spans(d \o p.events, p.taken) /\ p.events \in Seq(NodeEvents)
  BY ChunkFields DEF ChunkAt, ChunkGood
<1>2. p.taken \in Nat
  BY <1>1, ChunkFields
<1>3. ChunkAt(d, r, "InDocument", step) /\ r.taken = p.taken + 1 /\ r.read = p.read
  <2>1. text[p.taken + 1] # "a"
    OBVIOUS
  <2> QED BY <2>1, DrainOne
<1>4. r.events = p.events
  BY <1>1 DEF Chunked!Drain, ChunkParsers
<1>5. Chunked!parse_anchor(p) \in {r, q}
  BY DEF Chunked!parse_anchor
<1> HIDE DEF r
<1>6. r \in ChunkParsers /\ r.taken <= r.read
  BY <1>3 DEF ChunkAt, ChunkGood
<1>7. /\ n \in Nat /\ r.taken + n <= r.read
      /\ \A i \in r.taken + 1 .. r.taken + n : text[i] \notin NoName
  <2>1. n = Chunked!Before(r, NoName)
    BY DEF Chunked!NameLength, NoName
  <2> HIDE DEF n
  <2> QED BY <1>6, <2>1, BeforeBounds
<1> HIDE DEF n
<1>8. ChunkAt(d, u, "InDocument", step) /\ u.taken = r.taken + n
  <2> DEFINE k == p.taken + 1
             m == r.taken + n
             sign == "&"
  <2>1. k \in Nat /\ 1 <= k /\ r.taken = k /\ m \in Nat /\ text[k] = sign
    BY <1>2, <1>3, <1>7
  <2>2. \A i \in k + 1 .. m : text[i] \notin NoName
    BY <1>7, <2>1
  <2> HIDE DEF k, m, sign
  <2>3. \A i \in k .. m : Behind(i, sign, NoName)
    BY <2>1, <2>2, StandsBehind
  <2>4. \A i \in r.taken + 1 .. m : i \in k .. m
    BY <2>1
  <2>5. \A i \in r.taken + 1 .. m : DroppedByChunks(i)
    BY <2>3, <2>4, Zenon DEF DroppedByChunks, sign
  <2> QED BY <1>3, <1>7, <2>5, DrainGood DEF m
<1>9. u.events = p.events
  BY <1>4, <1>6 DEF Chunked!Drain, ChunkParsers
<1> HIDE DEF u
<1>10. u \in ChunkParsers /\ u.step = step
  BY <1>8 DEF ChunkAt, ChunkGood
<1>11. /\ q \in ChunkParsers /\ SamePlace(u, q) /\ q.events = u.events /\ q.state = u.state
       /\ q.step = step
  BY <1>10 DEF ChunkParsers, SamePlace
<1>12. NameBehind(d \o u.events, u.taken)
  <2> DEFINE s == d \o p.events
             k == p.taken + 1
  <2>1. k \in 1 .. u.taken /\ text[k] = "&"
    BY <1>2, <1>3, <1>7, <1>8
  <2>2. \A i \in DOMAIN s : s[i].last < k
    <3>1. \A i \in DOMAIN s : s[i].last \in 0 .. p.taken
      BY <1>1 DEF Spans, Within
    <3> HIDE DEF s
    <3> QED BY <1>2, <3>1
  <2> HIDE DEF s, k
  <2>3. NameBehind(s, u.taken)
    BY <2>1, <2>2 DEF NameBehind
  <2> QED BY <1>9, <2>3 DEF s
<1> HIDE DEF q
<1>13. ChunkAt(d, q, "InDocument", step)
  BY <1>8, <1>11, <1>12, ContextGood
<1> QED BY <1>3, <1>5, <1>13

\* "*" and a name.
LEMMA ChunkAliasGood ==
    ASSUME ChunkText, NEW d \in Seq(NodeEvents), NEW p, NEW step,
           ChunkAt(d, p, "InDocument", step), p.taken + 1 <= p.read, text[p.taken + 1] = "*"
    PROVE  ChunkAt(d, Chunked!parse_alias(p), "InDocument", step)
<1> DEFINE r == Chunked!Drain(p, 1)
           n == Chunked!NameLength(r)
           type == "Alias"
           q == Chunked!EmitNext(r, type, n)
<1>1. ChunkAt(d, r, "InDocument", step)
  <2>1. text[p.taken + 1] # "a"
    OBVIOUS
  <2> QED BY <2>1, DrainOne
<1>2. Chunked!parse_alias(p) \in {r, q}
  BY DEF Chunked!parse_alias
<1>3. type \in NodeTypes
  BY DEF NodeTypes, EventTypes
<1> HIDE DEF r, type
<1>4. r \in ChunkParsers /\ r.taken <= r.read
  BY <1>1 DEF ChunkAt, ChunkGood
<1>5. n \in Nat /\ r.taken + n <= r.read
  BY <1>4, BeforeBounds DEF Chunked!NameLength
<1> HIDE DEF n
<1>6. ChunkAt(d, q, "InDocument", step)
  BY <1>1, <1>3, <1>5, EmitNextGood
<1> QED BY <1>1, <1>2, <1>6

\* A scalar in quotes.
LEMMA QuotedGood ==
    ASSUME ChunkText, NEW d \in Seq(NodeEvents), NEW p, NEW step,
           ChunkAt(d, p, "InDocument", step), p.taken + 1 <= p.read, text[p.taken + 1] = "'"
    PROVE  ChunkAt(d, Chunked!parse_quoted_scalar(p), "InDocument", step)
<1> DEFINE r == Chunked!Drain(p, 1)
           quote == {"'"}
           n == Chunked!Before(r, quote)
           type == "Scalar"
           q == Chunked!Drain(Chunked!EmitNext(r, type, n), 1)
<1>1. ChunkAt(d, r, "InDocument", step)
  <2>1. text[p.taken + 1] # "a"
    OBVIOUS
  <2> QED BY <2>1, DrainOne
<1>2. Chunked!parse_quoted_scalar(p) = IF ~Chunked!Holds(r, quote) THEN r ELSE q
  BY DEF Chunked!parse_quoted_scalar
<1>3. type \in NodeTypes
  BY DEF NodeTypes, EventTypes
<1>4. \A x \in quote : x # "a"
  OBVIOUS
<1> HIDE DEF r, type, quote
<1>5. r \in ChunkParsers /\ r.taken <= r.read
  BY <1>1 DEF ChunkAt, ChunkGood
<1>6. CASE ~Chunked!Holds(r, quote)
  BY <1>1, <1>2, <1>6
<1>7. CASE Chunked!Holds(r, quote)
  <2>1. n \in Nat /\ r.taken + n + 1 <= r.read /\ text[r.taken + n + 1] \in quote
    BY <1>5, <1>7, BeforeBounds
  <2> HIDE DEF n
  <2>2. ChunkAt(d, q, "InDocument", step)
    BY <1>1, <1>3, <1>4, <2>1, EmitAndOne
  <2> QED BY <1>2, <1>7, <2>2
<1> QED BY <1>6, <1>7

\* A comment, which is dropped up to the end of its line.
LEMMA ChunkCommentGood ==
    ASSUME ChunkText, NEW d \in Seq(NodeEvents), NEW p, NEW step,
           ChunkAt(d, p, "InDocument", step), text[p.taken + 1] = "#"
    PROVE  ChunkAt(d, Chunked!skip_comment(p), "InDocument", step)
<1> DEFINE ends == {"\n"}
           sign == "#"
           n == Chunked!Before(p, ends)
           k == p.taken + 1
           m == p.taken + n
<1>1. p \in ChunkParsers /\ p.taken <= p.read
  BY DEF ChunkAt, ChunkGood
<1>2. p.taken \in Nat
  BY <1>1, ChunkFields
<1>3. Chunked!skip_comment(p) = Chunked!Drain(p, n)
  BY DEF Chunked!skip_comment
<1> HIDE DEF ends, sign
<1>4. n \in Nat /\ p.taken + n <= p.read /\ \A i \in k .. m : text[i] \notin ends
  BY <1>1, BeforeBounds
<1> HIDE DEF n
<1>5. k \in Nat /\ 1 <= k /\ m \in Nat /\ text[k] = sign /\ \A i \in k + 1 .. m : i \in k .. m
  BY <1>2, <1>4 DEF sign
<1> HIDE DEF k, m
<1>6. \A i \in k .. m : Behind(i, sign, ends)
  BY <1>4, <1>5, StandsBehind
<1>7. \A i \in k .. m : DroppedByChunks(i)
  BY <1>6, Zenon DEF DroppedByChunks, sign, ends
<1>8. ChunkAt(d, Chunked!Drain(p, n), "InDocument", step)
  BY <1>4, <1>7, DrainGood DEF k, m
<1> QED BY <1>3, <1>8

\* A plain scalar.
LEMMA PlainGood ==
    ASSUME ChunkText, NEW d \in Seq(NodeEvents), NEW p, NEW step, ChunkAt(d, p, "InDocument", step)
    PROVE  ChunkAt(d, Chunked!parse_plain_scalar(p), "InDocument", step)
<1> DEFINE ends == {"\n", ":", "#"}
           n == Chunked!Before(p, ends)
           type == "Scalar"
           q == Chunked!EmitNext(p, type, n)
<1>1. p \in ChunkParsers /\ p.taken <= p.read
  BY DEF ChunkAt, ChunkGood
<1>2. Chunked!parse_plain_scalar(p) = q
  BY DEF Chunked!parse_plain_scalar
<1>3. type \in NodeTypes
  BY DEF NodeTypes, EventTypes
<1> HIDE DEF ends, type
<1>4. n \in Nat /\ p.taken + n <= p.read
  BY <1>1, BeforeBounds
<1> HIDE DEF n
<1>5. ChunkAt(d, q, "InDocument", step)
  BY <1>3, <1>4, EmitNextGood
<1> QED BY <1>2, <1>5

-----------------------------------------------------------------------------
\* One turn of parse_yaml_content takes one of its branches.
LEMMA TurnIsOne ==
    ASSUME NEW p
    PROVE  LET q == Chunked!skip_whitespace(p)
               r == Chunked!parse_yaml_content(p)
               c == Chunked!FirstChar(q)
           IN  \/ r = q
               \/ /\ ~Chunked!Empty(q)
                  /\ \/ Chunked!is_sequence_item(q) /\ r = Chunked!parse_sequence_item(q)
                     \/ c = "[" /\ \E start, end \in NodeTypes : r = Chunked!FlowCollection(q, start, end, "]")
                     \/ c = "{" /\ \E start, end \in NodeTypes : r = Chunked!FlowCollection(q, start, end, "}")
                     \/ c = "|" /\ r = Chunked!parse_block_scalar_start(q)
                     \/ c = "&" /\ r = Chunked!parse_anchor(q)
                     \/ c = "*" /\ r = Chunked!parse_alias(q)
                     \/ c = "'" /\ r = Chunked!parse_quoted_scalar(q)
                     \/ c = "#" /\ r = Chunked!skip_comment(q)
                     \/ c = "\n" /\ r = Chunked!Drain(q, 1)
                     \/ Chunked!is_mapping_key(q) /\ r = Chunked!parse_mapping_entry(q)
                     \/ r = Chunked!parse_plain_scalar(q)
<1> DEFINE q == Chunked!skip_whitespace(p)
           r == Chunked!parse_yaml_content(p)
           c == Chunked!FirstChar(q)
           SS == "SequenceStart"
           SE == "SequenceEnd"
           MS == "MappingStart"
           ME == "MappingEnd"
           open1 == "["
           open2 == "{"
           close1 == "]"
           close2 == "}"
           c1 == "|"
           c2 == "&"
           c3 == "*"
           c4 == "'"
           c5 == "#"
           c6 == "\n"
<1>1. SS \in NodeTypes /\ SE \in NodeTypes /\ MS \in NodeTypes /\ ME \in NodeTypes
  BY DEF NodeTypes, EventTypes
<1>4. r = CASE Chunked!Empty(q) -> q
            [] ~Chunked!Empty(q) ->
               CASE Chunked!is_sequence_item(q) -> Chunked!parse_sequence_item(q)
                 [] c = open1 -> Chunked!FlowCollection(q, SS, SE, close1)
                 [] c = open2 -> Chunked!FlowCollection(q, MS, ME, close2)
                 [] c = c1 -> Chunked!parse_block_scalar_start(q)
                 [] c = c2 -> Chunked!parse_anchor(q)
                 [] c = c3 -> Chunked!parse_alias(q)
                 [] c = c4 -> Chunked!parse_quoted_scalar(q)
                 [] c = c5 -> Chunked!skip_comment(q)
                 [] c = c6 -> Chunked!Drain(q, 1)
                 [] OTHER -> IF Chunked!is_mapping_key(q) THEN Chunked!parse_mapping_entry(q)
                             ELSE Chunked!parse_plain_scalar(q)
  BY Zenon DEF Chunked!parse_yaml_content
<1> HIDE DEF q, r, c, SS, SE, MS, ME, open1, open2, close1, close2, c1, c2, c3, c4, c5, c6
<1>5. \/ r = q
      \/ /\ ~Chunked!Empty(q)
         /\ \/ Chunked!is_sequence_item(q) /\ r = Chunked!parse_sequence_item(q)
            \/ c = open1 /\ r = Chunked!FlowCollection(q, SS, SE, close1)
            \/ c = open2 /\ r = Chunked!FlowCollection(q, MS, ME, close2)
            \/ c = c1 /\ r = Chunked!parse_block_scalar_start(q)
            \/ c = c2 /\ r = Chunked!parse_anchor(q)
            \/ c = c3 /\ r = Chunked!parse_alias(q)
            \/ c = c4 /\ r = Chunked!parse_quoted_scalar(q)
            \/ c = c5 /\ r = Chunked!skip_comment(q)
            \/ c = c6 /\ r = Chunked!Drain(q, 1)
            \/ Chunked!is_mapping_key(q) /\ r = Chunked!parse_mapping_entry(q)
            \/ r = Chunked!parse_plain_scalar(q)
  BY <1>4
<1>7. /\ r = Chunked!FlowCollection(q, SS, SE, close1)
          => \E start, end \in NodeTypes : r = Chunked!FlowCollection(q, start, end, close1)
      /\ r = Chunked!FlowCollection(q, MS, ME, close2)
          => \E start, end \in NodeTypes : r = Chunked!FlowCollection(q, start, end, close2)
  BY <1>1
<1>8. \/ r = q
      \/ /\ ~Chunked!Empty(q)
         /\ \/ Chunked!is_sequence_item(q) /\ r = Chunked!parse_sequence_item(q)
            \/ c = open1 /\ \E start, end \in NodeTypes : r = Chunked!FlowCollection(q, start, end, close1)
            \/ c = open2 /\ \E start, end \in NodeTypes : r = Chunked!FlowCollection(q, start, end, close2)
            \/ c = c1 /\ r = Chunked!parse_block_scalar_start(q)
            \/ c = c2 /\ r = Chunked!parse_anchor(q)
            \/ c = c3 /\ r = Chunked!parse_alias(q)
            \/ c = c4 /\ r = Chunked!parse_quoted_scalar(q)
            \/ c = c5 /\ r = Chunked!skip_comment(q)
            \/ c = c6 /\ r = Chunked!Drain(q, 1)
            \/ Chunked!is_mapping_key(q) /\ r = Chunked!parse_mapping_entry(q)
            \/ r = Chunked!parse_plain_scalar(q)
  BY <1>5, <1>7
<1> QED BY <1>8, Zenon DEF q, r, c, open1, open2, close1, close2, c1, c2, c3, c4, c5, c6

\* One turn of parse_yaml_content.
LEMMA ContentGood ==
    ASSUME ChunkText, NEW d \in Seq(NodeEvents), NEW p, NEW step, ChunkAt(d, p, "InDocument", step)
    PROVE  ChunkAt(d, Chunked!parse_yaml_content(p), "InDocument", step)
<1> DEFINE q == Chunked!skip_whitespace(p)
           r == Chunked!parse_yaml_content(p)
           c == text[q.taken + 1]
           open1 == "["
           open2 == "{"
           close1 == "]"
           close2 == "}"
<1>1. ChunkAt(d, q, "InDocument", step)
  BY WhitespaceIn
<1>2. \/ r = q
      \/ /\ ~Chunked!Empty(q)
         /\ \/ Chunked!is_sequence_item(q) /\ r = Chunked!parse_sequence_item(q)
            \/ c = open1 /\ \E start, end \in NodeTypes : r = Chunked!FlowCollection(q, start, end, close1)
            \/ c = open2 /\ \E start, end \in NodeTypes : r = Chunked!FlowCollection(q, start, end, close2)
            \/ c = "|" /\ r = Chunked!parse_block_scalar_start(q)
            \/ c = "&" /\ r = Chunked!parse_anchor(q)
            \/ c = "*" /\ r = Chunked!parse_alias(q)
            \/ c = "'" /\ r = Chunked!parse_quoted_scalar(q)
            \/ c = "#" /\ r = Chunked!skip_comment(q)
            \/ c = "\n" /\ r = Chunked!Drain(q, 1)
            \/ Chunked!is_mapping_key(q) /\ r = Chunked!parse_mapping_entry(q)
            \/ r = Chunked!parse_plain_scalar(q)
  BY TurnIsOne, Zenon DEF Chunked!FirstChar
<1>15. close1 # "a" /\ close2 # "a"
  BY Zenon
<1>16. /\ \A i : Behind(i, open1, {close1}) => DroppedByChunks(i)
       /\ \A i : Behind(i, open2, {close2}) => DroppedByChunks(i)
  BY Zenon DEF DroppedByChunks
<1> SUFFICES ChunkAt(d, r, "InDocument", step)
  OBVIOUS
<1> HIDE DEF q, r, open1, open2, close1, close2
<1>3. ASSUME ~Chunked!Empty(q) PROVE q.taken + 1 <= q.read
  <2>1. q \in ChunkParsers /\ q.taken <= q.read /\ q.taken # q.read
    BY <1>1, <1>3 DEF ChunkAt, ChunkGood, Chunked!Empty
  <2> QED BY <2>1, ChunkFields
<1>4. CASE r = q
  BY <1>1, <1>4
<1>5. CASE Chunked!is_sequence_item(q) /\ r = Chunked!parse_sequence_item(q)
  BY <1>1, <1>5, SequenceItemGood
<1>6. CASE c = open1 /\ \E start, end \in NodeTypes : r = Chunked!FlowCollection(q, start, end, close1)
  <2>1. PICK start \in NodeTypes, end \in NodeTypes : r = Chunked!FlowCollection(q, start, end, close1)
    BY <1>6
  <2>2. ChunkAt(d, Chunked!FlowCollection(q, start, end, close1), "InDocument", step)
    BY <1>1, <1>15, <1>16, <1>6, FlowCollectionGood
  <2> QED BY <2>1, <2>2
<1>17. CASE c = open2 /\ \E start, end \in NodeTypes : r = Chunked!FlowCollection(q, start, end, close2)
  <2>1. PICK start \in NodeTypes, end \in NodeTypes : r = Chunked!FlowCollection(q, start, end, close2)
    BY <1>17
  <2>2. ChunkAt(d, Chunked!FlowCollection(q, start, end, close2), "InDocument", step)
    BY <1>1, <1>15, <1>16, <1>17, FlowCollectionGood
  <2> QED BY <2>1, <2>2
<1>7. CASE ~Chunked!Empty(q) /\ c = "|" /\ r = Chunked!parse_block_scalar_start(q)
  BY <1>1, <1>3, <1>7, BlockScalarStartGood
<1>8. CASE ~Chunked!Empty(q) /\ c = "&" /\ r = Chunked!parse_anchor(q)
  BY <1>1, <1>3, <1>8, ChunkAnchorGood
<1>9. CASE ~Chunked!Empty(q) /\ c = "*" /\ r = Chunked!parse_alias(q)
  BY <1>1, <1>3, <1>9, ChunkAliasGood
<1>10. CASE ~Chunked!Empty(q) /\ c = "'" /\ r = Chunked!parse_quoted_scalar(q)
  BY <1>1, <1>3, <1>10, QuotedGood
<1>11. CASE c = "#" /\ r = Chunked!skip_comment(q)
  BY <1>1, <1>11, ChunkCommentGood
<1>12. CASE ~Chunked!Empty(q) /\ c = "\n" /\ r = Chunked!Drain(q, 1)
  <2>1. c # "a"
    BY <1>12
  <2> QED BY <1>1, <1>3, <1>12, <2>1, DrainOne
<1>13. CASE Chunked!is_mapping_key(q) /\ r = Chunked!parse_mapping_entry(q)
  BY <1>1, <1>13, MappingEntryGood
<1>14. CASE r = Chunked!parse_plain_scalar(q)
  BY <1>1, <1>14, PlainGood
<1> HIDE DEF c
<1> QED BY <1>2, <1>4, <1>5, <1>6, <1>7, <1>8, <1>9, <1>10, <1>11, <1>12, <1>13, <1>14, <1>17

\* The content of a block scalar, once it is all in the buffer.
LEMMA BlockScalarGood ==
    ASSUME ChunkText, NEW d \in Seq(NodeEvents), NEW p, NEW step, ChunkAt(d, p, "InDocument", step)
    PROVE  ChunkAt(d, Chunked!parse_block_scalar_content(p), "InDocument", step)
<1> DEFINE n == Chunked!find_block_scalar_end(p)
           type == "Scalar"
           r == Chunked!EmitNext(p, type, n)
           q == [r EXCEPT !.in_block_scalar = FALSE]
           A == Chunked!Places(p, Chunked!EmptyLine)
           B == Chunked!Places(p, Chunked!EndMarker)
<1>1. p \in ChunkParsers /\ p.taken <= p.read
  BY DEF ChunkAt, ChunkGood
<1>2. p.taken \in Nat /\ p.read \in Nat
  BY <1>1, ChunkFields
<1>3. Chunked!parse_block_scalar_content(p) = IF A \cup B = {} THEN p ELSE q
  BY DEF Chunked!parse_block_scalar_content, Chunked!has_complete_block_scalar
<1>4. n = Min(IF A # {} THEN A ELSE B)
  BY DEF Chunked!find_block_scalar_end, Chunked!Min, Min
<1>5. A \subseteq 0 .. p.read - p.taken /\ B \subseteq 0 .. p.read - p.taken
  <2>1. ASSUME NEW l \in Nat PROVE 0 .. p.read - p.taken - l \subseteq 0 .. p.read - p.taken
    BY <1>2
  <2>2. Len(Chunked!EmptyLine) \in Nat /\ Len(Chunked!EndMarker) \in Nat
    BY DEF Chunked!EmptyLine, Chunked!EndMarker
  <2>3. /\ A \subseteq 0 .. p.read - p.taken - Len(Chunked!EmptyLine)
        /\ B \subseteq 0 .. p.read - p.taken - Len(Chunked!EndMarker)
    BY DEF Chunked!Places
  <2> HIDE DEF A, B
  <2>4. /\ 0 .. p.read - p.taken - Len(Chunked!EmptyLine) \subseteq 0 .. p.read - p.taken
        /\ 0 .. p.read - p.taken - Len(Chunked!EndMarker) \subseteq 0 .. p.read - p.taken
    BY <2>1, <2>2
  <2> QED BY <2>3, <2>4
<1>6. type \in NodeTypes
  BY DEF NodeTypes, EventTypes
<1> HIDE DEF A, B, n, type
<1>7. CASE A \cup B = {}
  BY <1>3, <1>7
<1>8. CASE A \cup B # {}
  <2> DEFINE places == IF A # {} THEN A ELSE B
  <2>1. places # {} /\ places \subseteq 0 .. p.read - p.taken
    BY <1>5, <1>8
  <2> HIDE DEF places
  <2>2. places \in SUBSET Nat
    BY <1>2, <2>1
  <2>3. n \in places
    BY <1>4, <2>1, <2>2, MinBounds DEF places
  <2>4. n \in Nat /\ p.taken + n <= p.read
    BY <1>2, <2>1, <2>3
  <2>5. ChunkAt(d, r, "InDocument", step)
    BY <1>6, <2>4, EmitNextGood
  <2> HIDE DEF r
  <2>6. r \in ChunkParsers /\ r.step = step
    BY <2>5 DEF ChunkAt, ChunkGood
  <2>7. /\ q \in ChunkParsers /\ SamePlace(r, q) /\ q.events = r.events /\ q.state = r.state
        /\ q.step = step /\ q.pending_anchor = r.pending_anchor
    BY <2>6 DEF ChunkParsers, SamePlace
  <2> HIDE DEF q
  <2>8. ChunkAt(d, q, "InDocument", step)
    BY <2>5, <2>7, ContextGood
  <2> QED BY <1>3, <1>8, <2>8
<1> QED BY <1>7, <1>8

-----------------------------------------------------------------------------
\* The step of a parser does not matter to its events.
LEMMA ChunkStepGood ==
    ASSUME ChunkText, NEW d, NEW p, NEW state, NEW step, ChunkAt(d, p, state, step),
           NEW to \in ChunkSteps, NEW q, q = [p EXCEPT !.step = to]
    PROVE  ChunkAt(d, q, state, to)
<1>1. p \in ChunkParsers
  BY DEF ChunkAt, ChunkGood
<1>2. /\ q \in ChunkParsers /\ SamePlace(p, q) /\ q.events = p.events /\ q.state = p.state
      /\ q.step = to /\ (q.pending_anchor => p.pending_anchor)
  BY <1>1 DEF ChunkParsers, SamePlace
<1> QED BY <1>2, ContextGood

\* A call comes back.
LEMMA ReturnedGood ==
    ASSUME ChunkText, NEW d, NEW p, NEW state, NEW step, ChunkAt(d, p, state, step)
    PROVE  ChunkAt(d, Chunked!Returned(p), state, "returned")
<1> DEFINE to == "returned"
           q == [p EXCEPT !.step = to]
<1>1. to \in ChunkSteps
  BY DEF ChunkSteps
<1>2. Chunked!Returned(p) = q
  BY DEF Chunked!Returned
<1>4. q = [p EXCEPT !.step = to]
  OBVIOUS
<1> HIDE DEF to, q
<1>3. ChunkAt(d, q, state, to)
  BY <1>1, <1>4, ChunkStepGood
<1> QED BY <1>2, <1>3 DEF to

\* Three characters of a marker are drained.
LEMMA MarkerDrained ==
    ASSUME ChunkText, NEW d, NEW p, NEW state, NEW step, ChunkAt(d, p, state, step),
           NEW x, x # "a", Chunked!StartsWith(p, <<x, x, x>>)
    PROVE  ChunkAt(d, Chunked!Drain(p, 3), state, step)
<1> DEFINE c == <<x, x, x>>
<1>1. p \in ChunkParsers /\ p.taken <= p.read
  BY DEF ChunkAt, ChunkGood
<1>2. p.taken \in Nat
  BY <1>1, ChunkFields
<1>3. c \in Seq({x}) /\ c # <<>> /\ Len(c) = 3 /\ \A i \in 1 .. 3 : c[i] = x
  OBVIOUS
<1> HIDE DEF c
<1>4. p.taken + Len(c) <= p.read /\ \A i \in 1 .. Len(c) : text[p.taken + i] = c[i]
  <2>1. Chunked!StartsWith(p, c)
    BY DEF c
  <2> QED BY <1>1, <1>3, <2>1, StartsWithIs
<1>5. \A i \in p.taken + 1 .. p.taken + 3 : text[i] = "a" => DroppedByChunks(i)
  <2> SUFFICES ASSUME NEW i \in p.taken + 1 .. p.taken + 3 PROVE text[i] # "a"
    OBVIOUS
  <2> DEFINE k == i - p.taken
  <2>1. k \in 1 .. 3 /\ p.taken + k = i
    BY <1>2
  <2> HIDE DEF k
  <2>2. text[p.taken + k] = x
    BY <1>3, <1>4, <2>1
  <2> QED BY <2>1, <2>2
<1>6. p.taken + 3 <= p.read
  BY <1>3, <1>4
<1> QED BY <1>5, <1>6, DrainGood

\* A mark is an event where the parser is.
LEMMA MarkTyped ==
    ASSUME ChunkText, NEW p \in ChunkParsers, NEW type \in EventTypes
    PROVE  LET q == Chunked!EmitMark(p, type)
           IN  /\ q \in ChunkParsers /\ SamePlace(p, q) /\ q.step = p.step
               /\ (q.pending_anchor => p.pending_anchor)
<1> DEFINE first == p.taken + 1
           q == Chunked!Emit(p, type, first, p.taken)
<1>1. p.taken \in Nat /\ first \in Nat
  BY ChunkFields
<1>2. Chunked!EmitMark(p, type) = q
  BY DEF Chunked!EmitMark
<1> HIDE DEF first
<1>3. \E e : ChunkEmitted(p, q, e, type, first, p.taken)
  BY <1>1, EmitTyped
<1> HIDE DEF q
<1> QED BY <1>2, <1>3 DEF ChunkEmitted

\* "...".
LEMMA ChunkDocumentEnds ==
    ASSUME ChunkText, NEW d \in Seq(NodeEvents), NEW p, NEW step, ChunkAt(d, p, "InDocument", step),
           Chunked!StartsWith(p, <<".", ".", ".">>)
    PROVE  ChunkAt(d, Chunked!EndDocument(p), "BetweenDocuments", step)
<1> DEFINE r == Chunked!Drain(p, 3)
           type == "DocumentEnd"
           m == Chunked!EmitMark(r, type)
           state == "BetweenDocuments"
           q == [m EXCEPT !.state = state, !.collection_stack = <<>>, !.pending_anchor = FALSE,
                          !.in_block_scalar = FALSE]
           dot == "."
<1>1. dot # "a" /\ Chunked!StartsWith(p, <<dot, dot, dot>>)
  OBVIOUS
<1> HIDE DEF dot
<1>2. ChunkAt(d, r, "InDocument", step)
  BY <1>1, MarkerDrained
<1>3. Chunked!EndDocument(p) = q
  BY DEF Chunked!EndDocument
<1>4. type \in EventTypes /\ state \in ChunkStates
  BY DEF EventTypes, ChunkStates
<1> HIDE DEF r
<1>5. r \in ChunkParsers /\ ChunkGood(d, r) /\ r.state = "InDocument" /\ r.step = step
  BY <1>2 DEF ChunkAt, ChunkGood
<1>6. Phase(d \o r.events, "InDocument") /\ d \o r.events \in Seq(NodeEvents)
  BY <1>5, ChunkFields DEF ChunkGood
<1>7. \A e : e.type = type => Phase(Append(d \o r.events, e), state)
  BY <1>6, PhaseEnd
<1> HIDE DEF type, state
<1>8. m \in ChunkParsers /\ SamePlace(r, m) /\ m.step = step
  BY <1>4, <1>5, MarkTyped
<1>9. m.events = Chunked!EmitMark(r, type).events
  OBVIOUS
<1> HIDE DEF m
<1>12. <<>> \in Seq(BOOLEAN)
  OBVIOUS
<1>13. q \in ChunkParsers
  BY <1>4, <1>8, <1>12 DEF ChunkParsers
<1>10. /\ SamePlace(r, q) /\ q.events = m.events /\ q.state = state
       /\ q.step = step /\ ~q.pending_anchor
  BY <1>8 DEF ChunkParsers, SamePlace
<1> HIDE DEF q
<1>11. ChunkGood(d, q)
  BY <1>4, <1>5, <1>7, <1>9, <1>10, <1>13, MarkGood
<1> QED BY <1>3, <1>10, <1>11 DEF ChunkAt, state

\* A document starts, or the stream: an event, and the next state.
LEMMA StateGood ==
    ASSUME ChunkText, NEW d \in Seq(NodeEvents), NEW p, NEW from, NEW step, ChunkAt(d, p, from, step),
           NEW type \in EventTypes, type # "DocumentEnd", NEW state \in ChunkStates,
           \A e : e.type = type => Phase(Append(d \o p.events, e), state)
    PROVE  ChunkAt(d, [Chunked!EmitMark(p, type) EXCEPT !.state = state], state, step)
<1> DEFINE m == Chunked!EmitMark(p, type)
           q == [m EXCEPT !.state = state]
<1>1. p \in ChunkParsers /\ ChunkGood(d, p) /\ p.step = step
  BY DEF ChunkAt, ChunkGood
<1>2. m \in ChunkParsers /\ SamePlace(p, m) /\ m.step = step /\ (m.pending_anchor => p.pending_anchor)
  BY <1>1, MarkTyped
<1>3. m.events = Chunked!EmitMark(p, type).events
  OBVIOUS
<1> HIDE DEF m
<1>4. /\ q \in ChunkParsers /\ SamePlace(p, q) /\ q.events = m.events /\ q.state = state
      /\ q.step = step /\ q.pending_anchor = m.pending_anchor
  BY <1>2 DEF ChunkParsers, SamePlace
<1> HIDE DEF q
<1>5. ChunkGood(d, q)
  BY <1>1, <1>2, <1>3, <1>4, MarkGood
<1>6. ChunkAt(d, q, state, step)
  BY <1>4, <1>5 DEF ChunkAt
<1> QED BY <1>6 DEF q, m

\* A document starts.
LEMMA StartGood ==
    ASSUME ChunkText, NEW d \in Seq(NodeEvents), NEW p, NEW step,
           ChunkAt(d, p, "BetweenDocuments", step)
    PROVE  ChunkAt(d, Chunked!StartDocument(p), "InDocument", step)
<1> DEFINE type == "DocumentStart"
           state == "InDocument"
<1>1. p \in ChunkParsers /\ Phase(d \o p.events, "BetweenDocuments")
  BY DEF ChunkAt, ChunkGood
<1>2. d \o p.events \in Seq(NodeEvents)
  BY <1>1, ChunkFields
<1>3. \A e : e.type = type => Phase(Append(d \o p.events, e), state)
  BY <1>1, <1>2, PhaseStart
<1>4. type \in EventTypes /\ type # "DocumentEnd" /\ state \in ChunkStates
  BY DEF EventTypes, ChunkStates
<1>5. Chunked!StartDocument(p) = [Chunked!EmitMark(p, type) EXCEPT !.state = state]
  BY DEF Chunked!StartDocument
<1> HIDE DEF type, state
<1>6. ChunkAt(d, [Chunked!EmitMark(p, type) EXCEPT !.state = state], state, step)
  BY <1>3, <1>4, StateGood
<1> QED BY <1>5, <1>6 DEF state

\* A step that is right of a parser: it is in the loop in a document only.
Stepped(d, p) ==
    /\ ChunkGood(d, p)
    /\ p.step = "called" => p.state = "InDocument"
    /\ p.state # "EndOfStream"

\* One turn of the loop of parse_document_content.
LEMMA DocumentContentGood ==
    ASSUME ChunkText, NEW d \in Seq(NodeEvents), NEW p, ChunkAt(d, p, "InDocument", "called")
    PROVE  Stepped(d, Chunked!DocumentContent(p))
<1> DEFINE ended_ == Chunked!EndDocument(p)
           q == IF p.in_block_scalar THEN Chunked!parse_block_scalar_content(p)
                ELSE Chunked!parse_yaml_content(p)
<1>1. ChunkAt(d, Chunked!Returned(p), "InDocument", "returned")
  BY ReturnedGood
<1>2. Chunked!StartsWith(p, <<".", ".", ".">>) =>
          ChunkAt(d, Chunked!Returned(ended_), "BetweenDocuments", "returned")
  BY ChunkDocumentEnds, ReturnedGood
<1>3. ChunkAt(d, q, "InDocument", "called")
  BY BlockScalarGood, ContentGood
<1>4. Chunked!DocumentContent(p) \in {Chunked!Returned(p), q, Chunked!Returned(q)}
      \/ /\ Chunked!StartsWith(p, <<".", ".", ".">>)
         /\ Chunked!DocumentContent(p) = Chunked!Returned(ended_)
  BY Zenon DEF Chunked!DocumentContent
<1> HIDE DEF q, ended_
<1>5. ChunkAt(d, Chunked!Returned(q), "InDocument", "returned")
  BY <1>3, ReturnedGood
<1> QED BY <1>1, <1>2, <1>3, <1>4, <1>5 DEF Stepped, ChunkAt

\* parse_document_start.
LEMMA ChunkDocumentStarts ==
    ASSUME ChunkText, NEW d \in Seq(NodeEvents), NEW p, ChunkAt(d, p, "BetweenDocuments", "called")
    PROVE  Stepped(d, Chunked!parse_document_start(p))
<1> DEFINE q == Chunked!skip_whitespace(p)
           r == Chunked!Drain(q, 3)
           dash == "-"
<1>1. ChunkAt(d, q, "BetweenDocuments", "called")
  BY WhitespaceIn
<1>2. Chunked!parse_document_start(p)
          = CASE Chunked!StartsWith(q, <<dash, dash, dash>>) -> Chunked!Returned(Chunked!StartDocument(r))
              [] Chunked!Empty(q) -> Chunked!Returned(q)
              [] OTHER -> Chunked!StartDocument(q)
  BY Zenon DEF Chunked!parse_document_start
<1>3. dash # "a"
  OBVIOUS
<1> HIDE DEF q, dash, r
<1>6. \/ /\ Chunked!StartsWith(q, <<dash, dash, dash>>)
         /\ Chunked!parse_document_start(p) = Chunked!Returned(Chunked!StartDocument(r))
      \/ Chunked!parse_document_start(p) \in {Chunked!Returned(q), Chunked!StartDocument(q)}
  BY <1>2
<1>4. ASSUME Chunked!StartsWith(q, <<dash, dash, dash>>)
      PROVE  ChunkAt(d, Chunked!Returned(Chunked!StartDocument(r)), "InDocument", "returned")
  <2>1. ChunkAt(d, r, "BetweenDocuments", "called")
    BY <1>1, <1>3, <1>4, MarkerDrained DEF r
  <2>2. ChunkAt(d, Chunked!StartDocument(r), "InDocument", "called")
    BY <2>1, StartGood
  <2> QED BY <2>2, ReturnedGood
<1>5. /\ ChunkAt(d, Chunked!Returned(q), "BetweenDocuments", "returned")
      /\ ChunkAt(d, Chunked!StartDocument(q), "InDocument", "called")
  BY <1>1, ReturnedGood, StartGood
<1> QED BY <1>6, <1>4, <1>5 DEF Stepped, ChunkAt

\* parse_buffer.
LEMMA ParseBufferGood ==
    ASSUME ChunkText, NEW d \in Seq(NodeEvents), NEW p, NEW from, ChunkAt(d, p, from, "called"),
           from # "EndOfStream"
    PROVE  Stepped(d, Chunked!ParseBuffer(p))
<1>1. p \in ChunkParsers /\ p.state = from /\ p.state \in ChunkStates
  BY ChunkFields DEF ChunkAt, ChunkGood
<1>2. CASE from = "Initial"
  <2> DEFINE type == "StreamStart"
             state == "BetweenDocuments"
             q == [Chunked!EmitMark(p, type) EXCEPT !.state = state]
  <2>1. Phase(d \o p.events, "Initial") /\ d \o p.events \in Seq(NodeEvents)
    BY <1>1, <1>2, ChunkFields DEF ChunkAt, ChunkGood
  <2>2. \A e : e.type = type => Phase(Append(d \o p.events, e), state)
    BY <2>1, PhaseStream
  <2>3. type \in EventTypes /\ type # "DocumentEnd" /\ state \in ChunkStates /\ state # "EndOfStream"
    BY DEF EventTypes, ChunkStates
  <2>4. Chunked!ParseBuffer(p) = Chunked!Returned(q)
    BY <1>1, <1>2 DEF Chunked!ParseBuffer
  <2> HIDE DEF type, state
  <2>5. ChunkAt(d, q, state, "called")
    BY <2>2, <2>3, StateGood
  <2> HIDE DEF q
  <2>6. ChunkAt(d, Chunked!Returned(q), state, "returned")
    BY <2>5, ReturnedGood
  <2> QED BY <2>3, <2>4, <2>6 DEF Stepped, ChunkAt
<1>3. CASE from = "BetweenDocuments"
  <2>1. Chunked!ParseBuffer(p) = Chunked!parse_document_start(p)
    BY <1>1, <1>3 DEF Chunked!ParseBuffer
  <2> QED BY <1>3, <2>1, ChunkDocumentStarts
<1>4. CASE from = "InDocument"
  <2>1. Chunked!ParseBuffer(p) = p
    BY <1>1, <1>4 DEF Chunked!ParseBuffer
  <2> QED BY <1>4, <2>1 DEF Stepped, ChunkAt
<1> QED BY <1>1, <1>2, <1>3, <1>4 DEF ChunkStates

\* A chunk, or a part of one, is read.
LEMMA ReadChunkGood ==
    ASSUME ChunkText, NEW d, NEW p, NEW state, NEW step, ChunkAt(d, p, state, step),
           NEW amount \in Chunked!Reads(p)
    PROVE  ChunkAt(d, Chunked!read_chunk(p, amount), state, step)
<1> DEFINE n == p.read + amount
           q == [p EXCEPT !.read = n]
           rest == Len(text) - p.read
           most == IF p.read + option.chunk_size > Len(text) THEN rest ELSE option.chunk_size
<1>1. p \in ChunkParsers /\ p.taken <= p.read /\ ChunkGood(d, p) /\ p.state = state /\ p.step = step
  BY DEF ChunkAt, ChunkGood
<1>2. p.taken \in Nat /\ p.read \in Nat /\ p.read <= Len(text) /\ Len(text) \in Nat
      /\ option.chunk_size \in Nat
  BY <1>1, ChunkFields DEF ChunkText
<1>9. amount \in IF option.short_reads /\ most > 0 THEN 1 .. most ELSE {most}
  BY DEF Chunked!Reads
<1>3. n \in 0 .. Len(text) /\ p.taken <= n
  <2>1. most \in Nat /\ p.read + most <= Len(text)
    BY <1>2
  <2> HIDE DEF most
  <2>2. amount \in Nat /\ amount <= most
    BY <1>9, <2>1
  <2> QED BY <1>1, <1>2, <2>1, <2>2
<1>4. Chunked!read_chunk(p, amount) = q
  BY DEF Chunked!read_chunk
<1> HIDE DEF n
<1>5. /\ q \in ChunkParsers /\ q.taken = p.taken /\ q.read = n /\ q.events = p.events
      /\ q.state = p.state /\ q.step = p.step /\ (q.pending_anchor => p.pending_anchor)
  BY <1>1, <1>3 DEF ChunkParsers
<1> HIDE DEF q
<1>6. \A i \in p.taken + 1 .. q.taken : text[i] = "a" => DroppedByChunks(i)
  BY <1>2, <1>5
<1>7. p.taken <= q.taken /\ q.taken <= q.read
  BY <1>2, <1>3, <1>5
<1>8. ChunkGood(d, q)
  BY <1>1, <1>5, <1>6, <1>7, ChunkMoves
<1> QED BY <1>1, <1>4, <1>5, <1>8 DEF ChunkAt

\* An event is given out.
LEMMA ChunkDelivers ==
    ASSUME ChunkText, NEW d \in Seq(NodeEvents), NEW p, ChunkGood(d, p), p.events # <<>>
    PROVE  LET q == [p EXCEPT !.events = Tail(@)]
           IN  /\ ChunkGood(Append(d, Head(p.events)), q)
               /\ Append(d, Head(p.events)) \in Seq(NodeEvents)
               /\ q.state = p.state /\ q.step = p.step
<1> DEFINE s == p.events
           t == Tail(s)
           c == Append(d, Head(s))
           q == [p EXCEPT !.events = t]
<1>1. p \in ChunkParsers
  BY DEF ChunkGood
<1>2. s \in Seq(NodeEvents)
  BY <1>1, ChunkFields
<1>3. c \o t = d \o s /\ c \in Seq(NodeEvents) /\ t \in Seq(NodeEvents)
  <2> HIDE DEF s
  <2> QED BY <1>2, QueueDeliver DEF s
<1> HIDE DEF c, t
<1>4. /\ q \in ChunkParsers /\ q.events = t /\ q.taken = p.taken /\ q.read = p.read
      /\ q.state = p.state /\ q.step = p.step /\ (q.pending_anchor => p.pending_anchor)
  BY <1>1, <1>3 DEF ChunkParsers
<1> HIDE DEF q
<1>5. ChunkGood(c, q)
  BY <1>3, <1>4 DEF ChunkGood
<1> QED BY <1>3, <1>4, <1>5 DEF c, q, t

-----------------------------------------------------------------------------
\* The inductive invariant of the parser of chunks.
ChunkInv ==
    /\ ChunkText /\ ended \in BOOLEAN
    /\ delivered \in Seq(NodeEvents) /\ ChunkGood(delivered, parser)
    /\ parser.step = "called" => parser.state = "InDocument"
    /\ parser.state = "EndOfStream" => ended

\* It holds of a new parser.
LEMMA ChunkStarts ==
    ASSUME NEW case \in ChunkCases, StartWith(case, Chunked!NewParser)
    PROVE  ChunkInv
<1>1. /\ text \in Seq(STRING) /\ option \in [chunk_size : Nat, short_reads : BOOLEAN]
      /\ delivered = <<>> /\ ended = FALSE /\ parser = Chunked!NewParser
  BY CasesAssumption DEF StartWith
<1>2. Len(text) \in Nat
  BY <1>1
<1> DEFINE state == "Initial"
           step == "returned"
<1>3. state \in ChunkStates /\ step \in ChunkSteps
  BY DEF ChunkStates, ChunkSteps
<1>4. parser = [read |-> 0, taken |-> 0, state |-> state, collection_stack |-> <<>>,
                pending_anchor |-> FALSE, in_block_scalar |-> FALSE, events |-> <<>>, step |-> step]
  BY <1>1 DEF Chunked!NewParser
<1>5. step # "called" /\ state # "EndOfStream" /\ Phase(<<>>, state)
  BY DEF Phase, FramedEvents
<1> HIDE DEF state, step
<1>6. <<>> \in Seq(BOOLEAN) /\ <<>> \in Seq(NodeEvents)
  OBVIOUS
<1>7. parser \in ChunkParsers
  BY <1>2, <1>3, <1>4, <1>6 DEF ChunkParsers
<1>8. /\ parser.events = <<>> /\ parser.taken = 0 /\ parser.read = 0
      /\ parser.state = state /\ parser.step = step /\ ~parser.pending_anchor /\ <<>> \o <<>> = <<>>
  BY <1>4
<1>9. Spans(<<>>, 0) /\ ChunkKept(<<>>, 0) /\ Anchored(<<>>)
  BY DEF Spans, Within, InOrder, ChunkKept, Anchored
<1>10. ChunkGood(delivered, parser)
  BY <1>1, <1>5, <1>7, <1>8, <1>9 DEF ChunkGood
<1>11. ended \in BOOLEAN
  BY <1>1
<1>12. ChunkText /\ delivered \in Seq(NodeEvents)
  BY <1>1 DEF ChunkText
<1> QED BY <1>5, <1>8, <1>10, <1>11, <1>12 DEF ChunkInv

\* Every step of the parser keeps it.
LEMMA ChunkStep ==
    ASSUME ChunkInv, [Chunked!Next]_parsing, UNCHANGED option
    PROVE  ChunkInv'
<1>1. /\ ChunkText /\ delivered \in Seq(NodeEvents) /\ ChunkGood(delivered, parser)
      /\ parser.step = "called" => parser.state = "InDocument"
      /\ parser.state = "EndOfStream" => ended
      /\ parser \in ChunkParsers /\ parser.taken <= parser.read
  BY DEF ChunkInv, ChunkGood
<1>2. SUFFICES /\ text' = text /\ ended' \in BOOLEAN
               /\ delivered' \in Seq(NodeEvents) /\ ChunkGood(delivered', parser')
               /\ parser'.step = "called" => parser'.state = "InDocument"
               /\ parser'.state = "EndOfStream" => ended'
  <2>1. ChunkText'
    BY <1>1, <1>2 DEF ChunkText
  <2>2. ChunkGood(delivered, parser)'
    <3>1. ChunkParsers' = ChunkParsers
      BY <1>2 DEF ChunkParsers
    <3>6. \A i, sign, ends : Behind(i, sign, ends)' <=> Behind(i, sign, ends)
      BY <1>2, Zenon DEF Behind
    <3>7. NoName' = NoName
      BY <1>2 DEF NoName
    <3>2. \A i : DroppedByChunks(i)' <=> DroppedByChunks(i)
      BY <3>6, <3>7, Zenon DEF DroppedByChunks
    <3>3. \A n, e : ChunkKept(e, n)' <=> ChunkKept(e, n)
      BY <1>2, <3>2, Zenon DEF ChunkKept
    <3>4. \A e, m : NameBehind(e, m)' <=> NameBehind(e, m)
      BY <1>2, Zenon DEF NameBehind
    <3>5. \A e : Anchored(e)' <=> Anchored(e)
      BY <1>2, Zenon DEF Anchored
    <3> QED BY <1>2, <3>1, <3>3, <3>4, <3>5 DEF ChunkGood
  <2> QED BY <1>2, <2>1, <2>2 DEF ChunkInv
<1>3. CASE Chunked!next_event
  <2>1. /\ delivered' = Append(delivered, Head(parser.events))
        /\ parser' = [parser EXCEPT !.events = Tail(@)]
        /\ text' = text /\ ended' = ended /\ parser.events # <<>>
    BY <1>3 DEF Chunked!next_event
  <2> QED BY <1>1, <2>1, ChunkDelivers DEF ChunkInv
<1>4. CASE Chunked!parse_next
  <2>0. PICK n \in Chunked!Reads(parser) :
            parser' = Chunked!ParseBuffer([Chunked!read_chunk(parser, n) EXCEPT !.step = "called"])
    BY <1>4 DEF Chunked!parse_next
  <2> DEFINE p == Chunked!read_chunk(parser, n)
             to == "called"
             q == [p EXCEPT !.step = to]
             state == parser.state
  <2>1. /\ parser' = Chunked!ParseBuffer(q) /\ parser.step = "returned" /\ ~ended
        /\ text' = text /\ delivered' = delivered
        /\ ended' = (parser'.step = "returned" /\ parser'.events = <<>>)
    BY <1>4, <2>0 DEF Chunked!parse_next, Chunked!Idle
  <2>2. ChunkAt(delivered, parser, state, "returned")
    BY <1>1, <2>1 DEF ChunkAt
  <2>3. ChunkAt(delivered, p, state, "returned")
    BY <1>1, <2>2, ReadChunkGood
  <2>4. to \in ChunkSteps
    BY DEF ChunkSteps
  <2>7. q = [p EXCEPT !.step = to]
    OBVIOUS
  <2> HIDE DEF p, to, q
  <2>5. ChunkAt(delivered, q, state, to)
    BY <1>1, <2>3, <2>4, <2>7, ChunkStepGood
  <2>6. Stepped(delivered, Chunked!ParseBuffer(q))
    BY <1>1, <2>1, <2>5, ParseBufferGood DEF to
  <2> QED BY <1>1, <2>1, <2>6 DEF Stepped
<1>5. CASE Chunked!EndOfStream
  <2> DEFINE state == "EndOfStream"
             q == [parser EXCEPT !.state = state]
  <2>1. parser' = q /\ ended' = TRUE /\ text' = text /\ delivered' = delivered /\ parser.step = "returned"
    BY <1>5 DEF Chunked!EndOfStream, Chunked!Idle
  <2>2. state \in ChunkStates /\ state \notin {"Initial", "BetweenDocuments", "InDocument"}
    BY DEF ChunkStates
  <2>3. \A events : FramedEvents(events) => Phase(events, state)
    BY <2>2 DEF Phase
  <2> HIDE DEF state
  <2>4. /\ q \in ChunkParsers /\ q.events = parser.events /\ q.taken = parser.taken /\ q.read = parser.read
        /\ q.step = parser.step /\ q.state = state /\ (q.pending_anchor => parser.pending_anchor)
    BY <1>1, <2>2 DEF ChunkParsers
  <2> HIDE DEF q
  <2>5. ChunkGood(delivered, q)
    <3>1. FramedEvents(delivered \o parser.events)
      BY <1>1 DEF ChunkGood, Phase
    <3>2. Phase(delivered \o q.events, q.state)
      BY <2>3, <2>4, <3>1
    <3> QED BY <1>1, <2>4, <3>2 DEF ChunkGood
  <2>6. q.step # "called"
    BY <2>1, <2>4
  <2> QED BY <1>1, <2>1, <2>5, <2>6
<1>6. CASE Chunked!parse_document_content
  <2>1. /\ parser' = Chunked!DocumentContent(parser) /\ parser.step = "called"
        /\ text' = text /\ delivered' = delivered
        /\ ended' = (parser'.step = "returned" /\ parser'.events = <<>>)
    BY <1>6 DEF Chunked!parse_document_content
  <2>2. ChunkAt(delivered, parser, "InDocument", "called")
    BY <1>1, <2>1 DEF ChunkAt
  <2>3. Stepped(delivered, Chunked!DocumentContent(parser))
    BY <1>1, <2>2, DocumentContentGood
  <2> QED BY <1>1, <2>1, <2>3 DEF Stepped
<1>7. CASE UNCHANGED parsing
  BY <1>1, <1>7 DEF parsing, ChunkInv
<1> QED BY <1>3, <1>4, <1>5, <1>6, <1>7 DEF Chunked!Next

-----------------------------------------------------------------------------
(***************************************************************************)
(* MmapReader: what is read is the file up to the position, and in valid   *)
(* UTF-8 no chunk ends inside a character, so that no error is answered.   *)
(***************************************************************************)

\* A part of valid bytes from boundary to boundary is valid.
LEMMA SliceValid ==
    ASSUME NEW m \in Seq(Bytes), NEW a \in 0 .. Len(m), NEW b \in a .. Len(m),
           Valid(m), Boundary(m, a), Boundary(m, b)
    PROVE  Valid(SubSeq(m, a + 1, b))
<1> DEFINE s == SubSeq(m, a + 1, b)
<1>1. /\ s \in Seq(Bytes) /\ Len(s) = b - a /\ DOMAIN s = 1 .. b - a
      /\ \A i \in 1 .. b - a : s[i] = m[a + i]
  <2>1. a + 1 \in 1 .. Len(m) + 1 /\ b \in a .. Len(m)
    OBVIOUS
  <2> QED
    BY <2>1, SubSeqProperties DEF Bytes
<1>2. \A i \in 1 .. Len(m) : m[i] \in 0 .. 5
  BY ElementOfSeq DEF Bytes
<1> SUFFICES ASSUME NEW i \in 1 .. b - a
             PROVE  /\ s[i] # Invalid
                    /\ s[i] # Continuation =>
                           \A k \in i + 1 .. i + s[i] - 1 : k \in 1 .. b - a /\ s[k] = Continuation
                    /\ s[i] = Continuation => \E j \in 1 .. i - 1 : s[j] > i - j
  BY <1>1 DEF Valid
<1>3. a + i \in DOMAIN m /\ a + i \in 1 .. Len(m) /\ s[i] = m[a + i]
  BY <1>1
<1>4. s[i] # Invalid
  BY <1>3 DEF Valid
<1>5. ASSUME s[i] # Continuation, NEW k \in i + 1 .. i + s[i] - 1
      PROVE  k \in 1 .. b - a /\ s[k] = Continuation
  <2>1. s[i] \in 1 .. 5
    BY <1>2, <1>3, <1>5 DEF Continuation
  <2>2. \A n \in a + i + 1 .. a + i + m[a + i] - 1 : n \in DOMAIN m /\ m[n] = Continuation
    BY <1>3, <1>5 DEF Valid
  <2>3. a + k \in DOMAIN m /\ m[a + k] = Continuation
    BY <2>1, <2>2, <1>3
  <2>4. k <= b - a
    <3> SUFFICES ASSUME k > b - a
                 PROVE  FALSE
      BY <2>1
    <3>1. b + 1 \in a + i + 1 .. a + i + m[a + i] - 1
      BY <2>1, <1>3
    <3>2. b + 1 \in DOMAIN m /\ m[b + 1] = Continuation
      BY <3>1, <2>2
    <3> QED
      BY <3>2 DEF Boundary
  <2> QED
    BY <2>1, <2>3, <2>4, <1>1
<1>6. ASSUME s[i] = Continuation
      PROVE  \E j \in 1 .. i - 1 : s[j] > i - j
  <2>1. PICK j \in 1 .. a + i - 1 : m[j] > a + i - j
    BY <1>3, <1>6 DEF Valid
  <2>2. j \in DOMAIN m /\ m[j] \in 0 .. 5
    BY <1>2, <1>3
  <2>3. j > a
    <3> SUFFICES ASSUME j <= a
                 PROVE  FALSE
      OBVIOUS
    <3>3. m[j] \in Nat /\ j \in Nat /\ j + m[j] > a + i /\ 1 <= i
      BY <2>1, <2>2
    <3>4. m[j] # 0 /\ a + 1 \in j + 1 .. j + m[j] - 1
      BY <3>3
    <3>1. m[j] # Continuation /\ a + 1 \in j + 1 .. j + m[j] - 1
      BY <3>4 DEF Continuation
    <3>2. m[a + 1] = Continuation
      BY <3>1, <2>2 DEF Valid
    <3> QED
      BY <3>2, <1>3 DEF Boundary
  <2>4. j - a \in 1 .. i - 1 /\ j - a \in 1 .. b - a /\ a + (j - a) = j
    BY <2>1, <2>3
  <2>5. s[j - a] = m[j]
    BY <2>4, <1>1
  <2>6. s[j - a] > i - (j - a)
    <3> HIDE DEF s
    <3> QED
      BY <2>1, <2>2, <2>5
  <2> QED
    BY <2>4, <2>6
<1> QED
  BY <1>4, <1>5, <1>6

\* No character is open at the beginning of valid bytes.
LEMMA StartIsBoundary ==
    ASSUME NEW m \in Seq(Bytes), Valid(m)
    PROVE  Boundary(m, 0)
<1> SUFFICES ASSUME 0 < Len(m), m[1] = Continuation
             PROVE  FALSE
  BY DEF Boundary
<1> QED
  BY DEF Valid

\* A prefix and what follows it are a longer prefix.
LEMMA PrefixGrows ==
    ASSUME NEW m \in Seq(Bytes), NEW a \in 0 .. Len(m), NEW b \in a .. Len(m)
    PROVE  SubSeq(m, 1, a) \o SubSeq(m, a + 1, b) = SubSeq(m, 1, b)
<1> DEFINE p == SubSeq(m, 1, a)
           s == SubSeq(m, a + 1, b)
           q == SubSeq(m, 1, b)
<1>1. /\ p \in Seq(Bytes) /\ Len(p) = a
      /\ \A i \in 1 .. a : p[i] = m[i]
  BY SubSeqProperties
<1>2. /\ s \in Seq(Bytes) /\ Len(s) = b - a
      /\ \A i \in 1 .. b - a : s[i] = m[a + i]
  BY SubSeqProperties
<1>3. /\ q \in Seq(Bytes) /\ Len(q) = b
      /\ \A i \in 1 .. b : q[i] = m[i]
  BY SubSeqProperties
<1> HIDE DEF p, s, q
<1>4. /\ p \o s \in Seq(Bytes) /\ Len(p \o s) = Len(p) + Len(s)
      /\ \A i \in 1 .. Len(p) + Len(s) : (p \o s)[i] = IF i <= Len(p) THEN p[i] ELSE s[i - Len(p)]
  BY <1>1, <1>2, ConcatProperties
<1>5. Len(p \o s) = b
  BY <1>1, <1>2, <1>4
<1>6. \A i \in 1 .. b : (p \o s)[i] = m[i]
  <2> SUFFICES ASSUME NEW i \in 1 .. b
               PROVE  (p \o s)[i] = m[i]
    OBVIOUS
  <2>1. CASE i <= a
    BY <2>1, <1>1, <1>2, <1>4
  <2>2. CASE i > a
    <3>1. (p \o s)[i] = s[i - a]
      BY <2>2, <1>1, <1>2, <1>4
    <3>2. i - a \in 1 .. b - a /\ a + (i - a) = i
      BY <2>2
    <3> QED
      BY <3>1, <3>2, <1>2
  <2>3. i <= a \/ i > a
    OBVIOUS
  <2> QED
    BY <2>1, <2>2, <2>3
<1>7. p \o s = q
  BY <1>3, <1>4, <1>5, <1>6, SeqEqual
<1> QED
  BY <1>7 DEF p, s, q

-----------------------------------------------------------------------------
ReaderInv == ReaderTypeOK /\ ReadsFile /\ NeverSplits

\* The invariant holds of a new reader.
LEMMA ReaderStarts == ReaderInit => ReaderInv
<1> SUFFICES ASSUME ReaderInit
             PROVE  ReaderInv
  OBVIOUS
<1>1. ReaderTypeOK
  BY DEF ReaderInit, NewReader, ReaderTypeOK, Answers
<1>2. ReadsFile
  BY DEF ReaderInit, NewReader, ReadsFile
<1>3. NeverSplits
  BY StartIsBoundary DEF ReaderInit, NewReader, NeverSplits
<1> QED
  BY <1>1, <1>2, <1>3 DEF ReaderInv

\* What a call that reads leaves behind.
LEMMA ReadKeeps ==
    ASSUME ReaderInv, NEW size \in Sizes, try_read_chunk(size)
    PROVE  ReaderInv'
<1> USE DEF ReaderInv
<1>1. PICK end \in 0 .. Len(mmap) : Ends(end, size) /\ reader' = Answer(end)
  BY DEF try_read_chunk
<1>2. /\ mmap' = mmap /\ mmap \in Seq(Bytes)
      /\ reader.position \in 0 .. Len(mmap) /\ reader.position < Len(mmap)
      /\ reader.read \in Seq(Bytes) /\ size \in Nat /\ Len(mmap) \in Nat
  BY SizesAssumption DEF try_read_chunk, ReaderTypeOK
<1>3. end \in reader.position .. Len(mmap) /\ Boundary(mmap, end)
  BY <1>1, <1>2 DEF Ends, Wanted
<1> DEFINE slice == SubSeq(mmap, reader.position + 1, end)
<1>4. slice \in Seq(Bytes) /\ Slice(reader.position, end) = slice
  BY <1>2, <1>3, SubSeqProperties DEF Slice
<1>5. Valid(mmap) => Valid(slice)
  BY <1>2, <1>3, SliceValid DEF NeverSplits
<1>6. CASE Valid(slice)
  <2>1. reader' = [position |-> end, read |-> reader.read \o slice, answer |-> "text"]
    BY <1>1, <1>4, <1>6 DEF Answer, Took
  <2>2. reader.read \o slice = SubSeq(mmap, 1, end)
    BY <1>2, <1>3, PrefixGrows DEF ReadsFile
  <2>3. ReaderTypeOK'
    BY <1>2, <1>4, <2>1, ConcatProperties DEF ReaderTypeOK, Answers
  <2>4. ReadsFile' /\ NeverSplits'
    BY <1>2, <1>3, <2>1, <2>2 DEF ReadsFile, NeverSplits
  <2> QED
    BY <2>3, <2>4
<1>7. CASE ~Valid(slice)
  <2>1. reader' = [reader EXCEPT !.answer = "error"] /\ ~Valid(mmap)
    BY <1>1, <1>4, <1>5, <1>7 DEF Answer
  <2> QED
    BY <1>2, <2>1 DEF ReaderTypeOK, Answers, ReadsFile, NeverSplits
<1> QED
  BY <1>6, <1>7

\* Every step of the reader keeps the invariant.
LEMMA ReaderKeeps == ReaderInv /\ [ReaderNext]_<<mmap, reader>> => ReaderInv'
<1> SUFFICES ASSUME ReaderInv, [ReaderNext]_<<mmap, reader>>
             PROVE  ReaderInv'
  OBVIOUS
<1>1. CASE \E size \in Sizes : try_read_chunk(size)
  BY <1>1, ReadKeeps
<1>2. CASE EndOfInput
  BY <1>2 DEF ReaderInv, EndOfInput, ReaderTypeOK, Answers, ReadsFile, NeverSplits
<1>3. CASE Rewind
  <2>1. mmap' = mmap /\ reader' = NewReader /\ mmap \in Seq(Bytes)
    BY <1>3 DEF ReaderInv, Rewind, ReaderTypeOK
  <2>2. ReaderTypeOK'
    BY <2>1 DEF NewReader, ReaderTypeOK, Answers
  <2>3. ReadsFile'
    BY <2>1 DEF NewReader, ReadsFile
  <2>4. NeverSplits'
    BY <2>1, StartIsBoundary DEF NewReader, NeverSplits
  <2> QED
    BY <2>2, <2>3, <2>4 DEF ReaderInv
<1>4. CASE UNCHANGED <<mmap, reader>>
  BY <1>4 DEF ReaderInv, ReaderTypeOK, ReadsFile, NeverSplits
<1> QED
  BY <1>1, <1>2, <1>3, <1>4 DEF ReaderNext

\* The invariant holds in every state of every behaviour.
LEMMA ReaderAlways == ReaderSpec => []ReaderInv
  BY ReaderStarts, ReaderKeeps, PTL DEF ReaderSpec

\* The chunks of any sizes are the file, in order and without a gap, up to the
\* position (MmapYamlReader::try_read_chunk, read_chunk, reset).
THEOREM ChunksAreTheFile == ReaderSpec => []ReadsFile
<1>1. ReaderInv => ReadsFile
  BY DEF ReaderInv
<1> QED
  BY <1>1, ReaderAlways, PTL

\* Read in chunks of any sizes, a valid file is never found malformed, and no
\* chunk of it ends inside a character.
THEOREM ValidFilesAreRead == ReaderSpec => []NeverSplits
<1>1. ReaderInv => NeverSplits
  BY DEF ReaderInv
<1> QED
  BY <1>1, ReaderAlways, PTL

-----------------------------------------------------------------------------
(***************************************************************************)
(* All of them.                                                            *)
(***************************************************************************)
StreamInv ==
    /\ kind \in {"chunks", "lines", "batches", "mapped"}
    /\ ended \in BOOLEAN /\ ReaderInv
    /\ kind = "chunks" => ChunkInv
    /\ kind = "lines" => LineInv
    /\ kind = "batches" => BatchInv
    /\ kind = "mapped" => text = <<>>

\* The invariant holds of a new parser and of a new reader.
LEMMA StreamStarts == Init => StreamInv
<1> SUFFICES ASSUME Init PROVE StreamInv
  OBVIOUS
<1>1. ASSUME NEW case, NEW newParser, StartWith(case, newParser)
      PROVE  ended \in BOOLEAN /\ ReaderInv
  <2>1. ended = FALSE /\ mmap = <<>> /\ reader = NewReader
    BY <1>1 DEF StartWith
  <2>2. ReaderInit
    BY <2>1 DEF ReaderInit
  <2> QED BY <2>1, <2>2, ReaderStarts
<1>2. CASE kind = "chunks" /\ \E case \in ChunkCases : StartWith(case, Chunked!NewParser)
  <2>1. ChunkInv
    BY <1>2, ChunkStarts
  <2> QED BY <1>1, <1>2, <2>1 DEF StreamInv
<1>3. CASE kind = "lines" /\ \E case \in LineCases : StartWith(case, Lines!NewParser)
  <2>1. LineInv
    BY <1>3, LineStarts
  <2> QED BY <1>1, <1>3, <2>1 DEF StreamInv
<1>4. CASE kind = "batches" /\ \E case \in BatchCases : StartWith(case, Batched!NewParser)
  <2>1. BatchInv
    BY <1>4, BatchStarts
  <2> QED BY <1>1, <1>4, <2>1 DEF StreamInv
<1>5. CASE kind = "mapped" /\ StartMapped
  <2>1. ended = FALSE /\ text = <<>> /\ mmap \in Seq(Bytes) /\ reader = NewReader
    BY <1>5, CasesAssumption DEF StartMapped
  <2>2. ReaderInv
    BY <2>1, ReaderStarts DEF ReaderInit
  <2> QED BY <1>5, <2>1, <2>2 DEF StreamInv
<1> QED BY <1>2, <1>3, <1>4, <1>5 DEF Init

\* Every step keeps it: a step is one of the parser, or of the reader, that there is.
LEMMA StreamKeeps == StreamInv /\ [Next]_vars => StreamInv'
<1> SUFFICES ASSUME StreamInv, [Next]_vars PROVE StreamInv'
  OBVIOUS
<1>1. kind' = kind /\ option' = option
  BY DEF Next, vars
<1>2. CASE kind = "chunks"
  <2>1. [Chunked!Next]_parsing /\ UNCHANGED mapping
    BY <1>2 DEF Next, Stop, vars
  <2>2. ChunkInv'
    BY <1>1, <1>2, <2>1, ChunkStep DEF StreamInv
  <2>3. ReaderInv'
    BY <2>1, ReaderKeeps DEF StreamInv, mapping
  <2>4. ended' \in BOOLEAN
    BY <2>2 DEF ChunkInv
  <2> QED BY <1>1, <1>2, <2>2, <2>3, <2>4 DEF StreamInv
<1>3. CASE kind = "lines"
  <2>1. [Lines!Next]_parsing /\ UNCHANGED mapping
    BY <1>3 DEF Next, Stop, vars
  <2>2. LineInv'
    BY <1>1, <1>3, <2>1, LineStep DEF StreamInv
  <2>3. ReaderInv'
    BY <2>1, ReaderKeeps DEF StreamInv, mapping
  <2>4. ended' \in BOOLEAN
    BY <2>2 DEF LineInv
  <2> QED BY <1>1, <1>3, <2>2, <2>3, <2>4 DEF StreamInv
<1>4. CASE kind = "batches"
  <2>1. [Batched!Next]_parsing /\ UNCHANGED mapping
    BY <1>4 DEF Next, Stop, vars
  <2>2. BatchInv'
    BY <1>1, <1>4, <2>1, BatchStep DEF StreamInv
  <2>3. ReaderInv'
    BY <2>1, ReaderKeeps DEF StreamInv, mapping
  <2>4. ended' \in BOOLEAN
    BY <2>2 DEF BatchInv
  <2> QED BY <1>1, <1>4, <2>2, <2>3, <2>4 DEF StreamInv
<1>5. CASE kind = "mapped"
  <2>1. [ReaderNext]_mapping /\ UNCHANGED parsing
    BY <1>5 DEF Next, Stop, vars
  <2>2. ReaderInv'
    BY <2>1, ReaderKeeps DEF StreamInv, mapping
  <2> QED BY <1>1, <1>5, <2>1, <2>2 DEF StreamInv, parsing
<1> QED BY <1>2, <1>3, <1>4, <1>5 DEF StreamInv

\* The invariant holds in every state of every behaviour.
LEMMA StreamAlways == Spec => []StreamInv
BY StreamStarts, StreamKeeps, PTL DEF Spec

\* The events of every parser are in order, and of its text.
LEMMA EventsSpan == StreamInv => Spans(Events, Len(text))
<1> SUFFICES ASSUME StreamInv PROVE Spans(Events, Len(text))
  OBVIOUS
<1> DEFINE s == delivered \o parser.events
<1>1. CASE kind = "chunks"
  <2>1. Events = s
    BY <1>1 DEF Events
  <2>2. ChunkText /\ parser \in ChunkParsers /\ Spans(s, parser.taken) /\ parser.taken <= parser.read
    BY <1>1 DEF StreamInv, ChunkInv, ChunkGood
  <2> HIDE DEF s
  <2>3. parser.taken \in Nat /\ Len(text) \in Nat /\ parser.taken <= Len(text)
    BY <2>2, ChunkFields
  <2> QED BY <2>1, <2>2, <2>3, SpansWiden
<1>2. CASE kind = "lines"
  <2>1. Events = s
    BY <1>2 DEF Events
  <2>2. LineText /\ parser \in LineParsers /\ Spans(s, parser.taken) /\ parser.taken <= parser.read
    BY <1>2 DEF StreamInv, LineInv, LineGood
  <2> HIDE DEF s
  <2>3. parser.taken \in Nat /\ Len(text) \in Nat /\ parser.taken <= Len(text)
    BY <2>2, LineFields
  <2> QED BY <2>1, <2>2, <2>3, SpansWiden
<1>3. CASE kind = "batches"
  <2>1. Events = s
    BY <1>3 DEF Events
  <2>2. BatchText /\ parser \in BatchParsers /\ Spans(s, parser.at)
    BY <1>3 DEF StreamInv, BatchInv, BatchGood
  <2> HIDE DEF s
  <2>3. parser.at \in Nat /\ Len(text) \in Nat /\ parser.at <= Len(text)
    BY <2>2, BatchFields
  <2> QED BY <2>1, <2>2, <2>3, SpansWiden
<1>4. CASE kind = "mapped"
  <2>1. Events = <<>>
    BY <1>4 DEF Events
  <2> QED BY <2>1 DEF Spans, Within, InOrder
<1> QED BY <1>1, <1>2, <1>3, <1>4 DEF StreamInv

-----------------------------------------------------------------------------
\* The parsers and what they deliver are of their types (StreamingYamlParser,
\* AsyncStreamingParser, StreamingParser, MmapYamlReader).
THEOREM StreamsTypeOK == Spec => []TypeOK
<1>1. StreamInv => TypeOK
  <2> SUFFICES ASSUME StreamInv PROVE TypeOK
    OBVIOUS
  <2>1. ReaderTypeOK /\ ended \in BOOLEAN
    BY DEF StreamInv, ReaderInv
  <2>2. \A i \in DOMAIN Events :
            Events[i].first \in 1 .. Len(text) + 1 /\ Events[i].last \in 0 .. Len(text)
    BY EventsSpan DEF Spans, Within
  <2>3. ASSUME kind = "chunks"
        PROVE  0 <= parser.taken /\ parser.taken <= parser.read /\ parser.read <= Len(text)
    <3>1. ChunkText /\ parser \in ChunkParsers /\ parser.taken <= parser.read
      BY <2>3 DEF StreamInv, ChunkInv, ChunkGood
    <3> QED BY <3>1, ChunkFields
  <2>4. ASSUME kind = "lines"
        PROVE  0 <= parser.taken /\ parser.taken <= parser.read /\ parser.read <= Len(text)
    <3>1. LineText /\ parser \in LineParsers /\ parser.taken <= parser.read
      BY <2>4 DEF StreamInv, LineInv, LineGood
    <3> QED BY <3>1, LineFields
  <2> QED BY <2>1, <2>2, <2>3, <2>4 DEF TypeOK
<1> QED BY <1>1, StreamAlways, PTL

\* However the reader cuts a text, no part of it is made an event twice, and none out of
\* order (the drains of streaming_enhanced.rs and streaming_async.rs, the cursor of
\* ZeroScanner).
THEOREM StreamsInOrder == Spec => []SpansInOrder
<1>1. StreamInv => SpansInOrder
  BY EventsSpan DEF Spans, InOrder, SpansInOrder
<1> QED BY <1>1, StreamAlways, PTL

\* A word that is drained from the buffer is in an event, wherever the reader cuts the
\* text, but for what a parser drops: a comment up to the end of its line, the name of an
\* anchor, a flow collection up to its first closing bracket, and a line without a colon
\* or that begins with "#" (drain and emit of parse_mapping_entry, parse_plain_scalar,
\* parse_block_scalar_content, parse_quoted_scalar, parse_alias, parse_line; skip_comment,
\* parse_anchor, parse_flow_sequence, parse_flow_mapping).
THEOREM StreamsLoseNothing == Spec => []NothingLost
<1>1. StreamInv => NothingLost
  <2> SUFFICES ASSUME StreamInv, kind \in {"chunks", "lines"},
                      NEW i \in 1 .. parser.taken, text[i] = "a", ~Dropped(i)
               PROVE  \E e \in DOMAIN Events : Events[e].first <= i /\ i <= Events[e].last
    BY DEF NothingLost
  <2> DEFINE s == delivered \o parser.events
  <2>1. Events = s
    BY DEF Events
  <2>2. CASE kind = "chunks"
    <3>1. ChunkKept(s, parser.taken)
      BY <2>2 DEF StreamInv, ChunkInv, ChunkGood
    <3>2. ~DroppedByChunks(i)
      BY <2>2, Zenon DEF Dropped
    <3> HIDE DEF s
    <3>3. Covered(s, i)
      BY <3>1, <3>2 DEF ChunkKept
    <3> QED BY <2>1, <3>3 DEF Covered
  <2>3. CASE kind = "lines"
    <3>1. LineKept(s, parser.taken)
      BY <2>3 DEF StreamInv, LineInv, LineGood
    <3>2. kind # "chunks"
      BY <2>3
    <3>3. ~DroppedByLines(i)
      BY <3>2, Zenon DEF Dropped
    <3> HIDE DEF s
    <3>4. Covered(s, i)
      BY <3>1, <3>3 DEF LineKept
    <3> QED BY <2>1, <3>4 DEF Covered
  <2> QED BY <2>2, <2>3
<1> QED BY <1>1, StreamAlways, PTL

\* The stream starts once, documents do not nest, and nodes come in a document
\* (parse_buffer, parse_document_start and the end marker in parse_document_content, of
\* both parsers).
THEOREM StreamsAreFramed == Spec => []Framed
<1>1. StreamInv => Framed
  <2> SUFFICES ASSUME StreamInv, kind # "batches" PROVE FramedEvents(Events)
    BY DEF Framed, FramedEvents, FramedEvent, InDocument, OpenBefore
  <2>1. CASE kind = "chunks"
    BY <2>1 DEF Events, StreamInv, ChunkInv, ChunkGood, Phase
  <2>2. CASE kind = "lines"
    BY <2>2 DEF Events, StreamInv, LineInv, LineGood, Phase
  <2>3. CASE kind = "mapped"
    BY <2>3 DEF Events, FramedEvents
  <2> QED BY <2>1, <2>2, <2>3 DEF StreamInv
<1> QED BY <1>1, StreamAlways, PTL

\* Between an anchored node and the name before it no document ends
\* (ParseContext::reset).
THEOREM StreamsKeepAnchors == Spec => []AnchorsStay
<1>1. StreamInv => AnchorsStay
  <2> SUFFICES ASSUME StreamInv, kind = "chunks" PROVE Anchored(Events)
    BY DEF AnchorsStay, Anchored
  <2> QED BY DEF Events, StreamInv, ChunkInv, ChunkGood
<1> QED BY <1>1, StreamAlways, PTL

\* The depth counts the open collections, and passes the limit by no more than a batch
\* (push_state, pop_state, and the check in generate_events of parser/streaming.rs).
THEOREM BatchDepthCounts == Spec => []DepthCounts
<1>1. StreamInv => DepthCounts
  BY DEF StreamInv, BatchInv, BatchGood, BatchLimit, DepthCounts
<1> QED BY <1>1, StreamAlways, PTL

\* A callback reader is complete only with nothing left to read or to deliver
\* (is_complete in process_yaml_stream of streaming_async.rs).
THEOREM LinesCompleteAtEnd == Spec => []CompleteAtEnd
<1>1. StreamInv => CompleteAtEnd
  BY DEF StreamInv, LineInv, LineGood, Lines!is_complete, CompleteAtEnd
<1> QED BY <1>1, StreamAlways, PTL
====
