-------------------------- MODULE EventStreamProofs --------------------------
(* Every parser that the Parser interface can leave behind is a parser, and *)
(* what is known of those whose stream has no errors.                      *)
EXTENDS EventStream, SequenceTheorems, TLAPS

\* The fields of an event made are what it was made of.
LEMMA EventFields ==
    \A t, a, v : /\ Event(t, a, v).type = t
                 /\ Event(t, a, v).anchor = a
                 /\ Event(t, a, v).value = v
  BY DEF Event

\* What an event's anchor is; an alias always has one.
LEMMA EventAnchors ==
    ASSUME NEW e \in Events
    PROVE  /\ e.anchor \in OptNames
           /\ e.type = "Alias" => e.anchor \in Names
<1> DEFINE Typed(event) == /\ event.anchor \in OptNames
                           /\ event.type = "Alias" => event.anchor \in Names
<1>1. \A type, a, v : a \in OptNames /\ type # "Alias" => Typed(Event(type, a, v))
  BY EventFields
<1>2. \A a \in Names : \A v : Typed(Event("Alias", a, v))
  BY EventFields DEF OptNames
<1> SUFFICES Typed(e)
  OBVIOUS
<1> HIDE DEF Typed
<1>3. NoAnchor \in OptNames
  BY DEF OptNames
<1>4. CASE e \in Marks \cup {NoEvent} \cup DocumentStarts
  BY <1>1, <1>3, <1>4 DEF Marks, Mark, NoEvent, DocumentStarts
<1>5. CASE e \in ScalarEvents
  <2>1. PICK v \in Scalars : e \in {Event("Scalar", a, v) : a \in OptNames}
    BY <1>5 DEF ScalarEvents
  <2> QED
    BY <1>1, <2>1
<1>7. CASE e = EmptyScalar
  BY <1>1, <1>3, <1>7 DEF EmptyScalar
<1>8. CASE e \in CollectionStarts
  BY <1>1, <1>8 DEF CollectionStarts
<1>6. CASE e \in Aliases(Names)
  BY <1>2, <1>6 DEF Aliases
<1> QED
  BY <1>4, <1>5, <1>6, <1>7, <1>8 DEF Events

\* What the grammar allows next are events.
LEMMA LegalEvents ==
    ASSUME NEW p \in Parsers
    PROVE  Legal(p) \subseteq Events
<1> USE DEF Events
<1>1. \A names \in SUBSET Names : Aliases(names) \subseteq Events
  BY DEF Aliases
<1>2. p.defined \in SUBSET Names
  BY DEF Parsers
<1>3. NodeEvents(p) \subseteq Events
  BY <1>1, <1>2 DEF NodeEvents
<1>4. OptionalNodeEvents(p) \subseteq Events
  BY <1>3 DEF OptionalNodeEvents
<1>5. {Mark("StreamEnd"), Mark("DocumentEnd"), Mark("SequenceEnd"), Mark("MappingEnd")} \subseteq Events
  BY DEF Marks
<1>6. DocumentStarts \subseteq Events
  OBVIOUS
<1>7. CASE p.open = <<>>
  BY <1>5, <1>6, <1>7 DEF Legal
<1>8. CASE p.open # <<>>
  <2> DEFINE innermost == p.open[Len(p.open)]
  <2>1. CASE innermost = "footer"
    BY <1>5, <1>8, <2>1 DEF Legal
  <2>2. CASE innermost = "sequence"
    BY <1>4, <1>5, <1>8, <2>2 DEF Legal
  <2>3. CASE innermost = "key"
    BY <1>4, <1>5, <1>8, <2>3 DEF Legal
  <2>4. CASE innermost \notin {"footer", "sequence", "key"}
    BY <1>3, <1>8, <2>4 DEF Legal
  <2> QED
    BY <2>1, <2>2, <2>3, <2>4
<1> QED
  BY <1>7, <1>8

\* What a broken parser may yield are events.
LEMMA ArbitraryEvents == \A p : Arbitrary(p) \subseteq Events
  BY DEF Arbitrary, Events

\* The open constructs stay constructs.
LEMMA AfterNodeTyped ==
    ASSUME NEW open \in Seq(Constructs)
    PROVE  AfterNode(open) \in Seq(Constructs)
<1> DEFINE last == Len(open)
           c == CASE open[last] = "document" -> "footer"
                  [] open[last] = "key" -> "value"
                  [] open[last] = "value" -> "key"
                  [] OTHER -> open[last]
<1>1. AfterNode(open) = [open EXCEPT ![last] = c]
  BY DEF AfterNode
<1>2. CASE open = <<>>
  <2>1. DOMAIN open = {}
    BY <1>2
  <2>2. [open EXCEPT ![last] = c] = open
    BY <1>2, <2>1
  <2> QED
    BY <1>1, <2>2
<1>3. CASE open # <<>>
  <2>1. last \in 1 .. Len(open)
    BY <1>3, EmptySeq, LenProperties
  <2>2. open[last] \in Constructs
    BY <2>1, ElementOfSeq
  <2>3. c \in Constructs
    BY <2>2 DEF Constructs
  <2> HIDE DEF c
  <2> QED
    BY <1>1, <2>1, <2>3, ExceptSeq
<1> QED
  BY <1>2, <1>3

\* An event leaves a sequence of open constructs.
LEMMA OpenAfterTyped ==
    ASSUME NEW open \in Seq(Constructs), NEW event
    PROVE  OpenAfter(open, event) \in Seq(Constructs)
<1>1. <<"document">> \in Seq(Constructs) /\ <<>> \in Seq(Constructs)
  BY DEF Constructs
<1>2. Append(open, "sequence") \in Seq(Constructs) /\ Append(open, "key") \in Seq(Constructs)
  BY AppendProperties DEF Constructs
<1>3. SubSeq(open, 1, Len(open) - 1) \in Seq(Constructs)
  <2>1. Len(open) \in Nat /\ \A i \in 1 .. Len(open) - 1 : open[i] \in Constructs
    BY LenProperties, ElementOfSeq
  <2> QED
    BY <2>1, SubSeqProperties
<1>4. AfterNode(open) \in Seq(Constructs)
  BY AfterNodeTyped
<1>5. AfterNode(SubSeq(open, 1, Len(open) - 1)) \in Seq(Constructs)
  BY <1>3, AfterNodeTyped
<1> QED
  BY <1>1, <1>2, <1>4, <1>5 DEF OpenAfter

\* A parser whose event is taken is a parser.
LEMMA ConsumedTyped ==
    ASSUME NEW p \in Parsers
    PROVE  Consumed(p) \in Parsers
<1> DEFINE event == p.next
           open == IF p.broken THEN p.open ELSE OpenAfter(p.open, event)
           defined == IF event.type # "Alias" /\ event.anchor # NoAnchor
                      THEN p.defined \cup {event.anchor} ELSE p.defined
           nodes == IF p.nodes > 0 /\ (p.broken \/ StartsNode(event)) THEN p.nodes - 1 ELSE p.nodes
           documents == IF p.documents > 0 /\ event.type = "DocumentStart"
                        THEN p.documents - 1 ELSE p.documents
<1>1. open \in Seq(Constructs)
  BY OpenAfterTyped DEF Parsers
<1>2. defined \in SUBSET Names
  BY EventAnchors DEF Parsers, OptNames
<1>3. nodes \in Nat /\ documents \in Nat
  BY DEF Parsers
<1>4. Consumed(p) = [p EXCEPT !.open = open, !.defined = defined,
                              !.nodes = nodes, !.documents = documents]
  BY DEF Consumed
<1> HIDE DEF open, defined, nodes, documents
<1> QED
  BY <1>1, <1>2, <1>3, <1>4 DEF Parsers

\* A parser that shows an event is a parser.
LEMMA AtTyped ==
    ASSUME NEW p \in Parsers, NEW event \in Events, NEW cached \in BOOLEAN
    PROVE  At(p, event, cached) \in Parsers
  BY DEF At, Parsers

\* What an error leaves behind is a parser.
LEMMA AfterFaultTyped ==
    ASSUME NEW p \in Parsers, p.faults > 0
    PROVE  AfterFault(p) \subseteq Parsers
<1> DEFINE rest == [p EXCEPT !.faults = @ - 1, !.broken = TRUE]
<1>1. rest \in Parsers
  <2>1. p.faults - 1 \in Nat
    BY DEF Parsers
  <2> QED
    BY <2>1 DEF Parsers
<1> HIDE DEF rest
<1>2. AfterFault(p) = {At(rest, event, cached) : event \in Arbitrary(rest), cached \in BOOLEAN}
  BY DEF AfterFault, rest
<1>3. \A event \in Arbitrary(rest), cached \in BOOLEAN : At(rest, event, cached) \in Parsers
  BY <1>1, ArbitraryEvents, AtTyped
<1> QED
  BY <1>2, <1>3

\* What consuming an event leaves behind is a parser.
LEMMA FollowersTyped ==
    ASSUME NEW p \in Parsers
    PROVE  Followers(p) \subseteq Parsers
<1> DEFINE rest == Consumed(p)
           following == IF p.broken THEN Arbitrary(rest)
                        ELSE IF p.next.type = "StreamEnd" THEN {NoEvent}
                        ELSE Legal(rest)
           pairs == {pair \in following \X BOOLEAN : MayBeCached(p, pair[1], pair[2])}
           advanced == {At(rest, pair[1], pair[2]) : pair \in pairs}
<1>1. rest \in Parsers
  BY ConsumedTyped
<1>2. NoEvent \in Events
  BY DEF Events
<1>3. following \subseteq Events
  BY <1>1, <1>2, ArbitraryEvents, LegalEvents
<1>4. rest.faults = p.faults
  BY DEF Consumed, Parsers
<1>5. Followers(p) = advanced
        \cup (IF p.eager /\ ~p.broken /\ p.faults > 0 THEN AfterFault(rest) ELSE {})
  BY DEF Followers
<1> HIDE DEF rest, following
<1>6. \A pair \in following \X BOOLEAN : At(rest, pair[1], pair[2]) \in Parsers
  BY <1>1, <1>3, AtTyped
<1>7. advanced \subseteq Parsers
  BY <1>6
<1>8. p.faults > 0 => AfterFault(rest) \subseteq Parsers
  BY <1>1, <1>4, AfterFaultTyped
<1> QED
  BY <1>5, <1>7, <1>8

\* A new parser is a parser.
LEMMA NewParsersTyped == NewParsers \subseteq Parsers
<1>1. Mark("StreamStart") \in Events
  BY DEF Events, Marks
<1>2. \A eager \in BOOLEAN, n \in Nat : NewParser(eager, n) \in Parsers
  BY <1>1, StreamAssumption, EmptySeq DEF NewParser, Parsers
<1>3. \A q \in Parsers : [q EXCEPT !.cached = FALSE, !.broken = TRUE] \in Parsers
  BY DEF Parsers
<1>4. {0, MaxFaults} \subseteq Nat /\ Constructors \subseteq BOOLEAN
  BY StreamAssumption
<1> DEFINE intact == {NewParser(eager, faults) : eager \in Constructors, faults \in {0, MaxFaults}}
           stopped == {[NewParser(eager, MaxFaults) EXCEPT !.cached = FALSE, !.broken = TRUE] :
                          eager \in {e \in Constructors : e /\ MaxFaults > 0}}
<1>5. intact \subseteq Parsers
  BY <1>2, <1>4
<1>6. \A eager \in Constructors :
          [NewParser(eager, MaxFaults) EXCEPT !.cached = FALSE, !.broken = TRUE] \in Parsers
  BY <1>2, <1>3, <1>4
<1>7. stopped \subseteq Parsers
  BY <1>6
<1>8. NewParsers = intact \cup stopped
  BY DEF NewParsers
<1> HIDE DEF intact, stopped
<1> QED
  BY <1>5, <1>7, <1>8

-----------------------------------------------------------------------------
(***************************************************************************)
(* Streams without errors.                                                 *)
(***************************************************************************)

\* The types of the events that may stand behind these open constructs.
Expected(open) ==
    LET nodes == {"Scalar", "SequenceStart", "MappingStart", "Alias"}
    IN  IF open = <<>> THEN {"StreamStart", "StreamEnd", "DocumentStart", "None"}
        ELSE CASE open[Len(open)] = "footer" -> {"DocumentEnd"}
               [] open[Len(open)] = "sequence" -> {"SequenceEnd"} \cup nodes
               [] open[Len(open)] = "key" -> {"MappingEnd"} \cup nodes
               [] OTHER -> nodes

\* An eager parser of a stream without errors: it shows every event, the event fits
\* the open constructs, and a document may only begin while there are some left.
Intact(p) ==
    /\ p.eager /\ ~p.broken /\ p.faults = 0 /\ ~p.scanning_error
    /\ p.cached = (p.next # NoEvent)
    /\ p.next.type \in Expected(p.open)
    /\ p.next.type = "None" => p.next = NoEvent
    /\ p.next.type = "DocumentStart" => p.documents > 0

\* The type of an event without anchor and content.
LEMMA MarkTypes == \A t : Mark(t).type = t
<1> SUFFICES ASSUME NEW t PROVE Mark(t).type = t
  OBVIOUS
<1>1. \A v : Event(t, NoAnchor, v).type = t
  BY EventFields
<1> DEFINE Typed(e) == e.type = t
<1>2. \A v : Typed(Event(t, NoAnchor, v))
  BY <1>1
<1> HIDE DEF Typed
<1>3. Typed(Mark(t))
  BY <1>2 DEF Mark
<1> QED BY <1>3 DEF Typed

\* The grammar's events fit the open constructs.
LEMMA LegalExpected ==
    ASSUME NEW p \in Parsers, NEW e \in Legal(p)
    PROVE  /\ e.type \in Expected(p.open) /\ e.type # "None"
           /\ e.type = "DocumentStart" => p.documents > 0
<1> DEFINE nodes == {"Scalar", "SequenceStart", "MappingStart", "Alias"}
<1>1. \A f \in NodeEvents(p) : f.type \in nodes
  <2> DEFINE Starts(f) == f.type \in nodes
  <2>1. \A t, a, v : t \in nodes => Starts(Event(t, a, v))
    BY EventFields
  <2> HIDE DEF Starts
  <2>2. \A a, v : /\ Starts(Event("Scalar", a, v)) /\ Starts(Event("Alias", a, v))
                  /\ Starts(Event("SequenceStart", a, v)) /\ Starts(Event("MappingStart", a, v))
    BY <2>1
  <2>3. \A f \in ScalarEvents : Starts(f)
    <3> SUFFICES ASSUME NEW s \in Scalars, NEW f \in {Event("Scalar", a, s) : a \in OptNames}
                 PROVE  Starts(f)
      BY DEF ScalarEvents
    <3> QED BY <2>2
  <2>4. \A f \in CollectionStarts : Starts(f)
    BY <2>2 DEF CollectionStarts
  <2>5. \A f \in Aliases(p.defined) : Starts(f)
    BY <2>2 DEF Aliases
  <2>6. Starts(EmptyScalar)
    BY <2>2 DEF EmptyScalar
  <2>7. \A f \in NodeEvents(p) : Starts(f)
    BY <2>3, <2>4, <2>5, <2>6 DEF NodeEvents
  <2> QED BY <2>7 DEF Starts
<1>2. \A f \in OptionalNodeEvents(p) : f.type \in nodes
  BY <1>1 DEF OptionalNodeEvents
<1>3. \A t : Mark(t).type = t
  BY MarkTypes
<1>4. \A f \in DocumentStarts : f.type = "DocumentStart"
  BY EventFields DEF DocumentStarts
<1>5. CASE p.open = <<>>
  <2>1. e = Mark("StreamEnd") \/ (e \in DocumentStarts /\ p.documents > 0)
    BY <1>5 DEF Legal
  <2> QED BY <1>3, <1>4, <1>5, <2>1 DEF Expected
<1>6. CASE p.open # <<>>
  <2> DEFINE innermost == p.open[Len(p.open)]
  <2>1. CASE innermost = "footer"
    <3>1. e = Mark("DocumentEnd")
      BY <1>6, <2>1 DEF Legal
    <3> QED BY <1>3, <1>6, <2>1, <3>1 DEF Expected
  <2>2. CASE innermost = "sequence"
    <3>1. e = Mark("SequenceEnd") \/ e \in OptionalNodeEvents(p)
      BY <1>6, <2>2 DEF Legal
    <3> QED BY <1>2, <1>3, <1>6, <2>2, <3>1 DEF Expected
  <2>3. CASE innermost = "key"
    <3>1. e = Mark("MappingEnd") \/ e \in OptionalNodeEvents(p)
      BY <1>6, <2>3 DEF Legal
    <3> QED BY <1>2, <1>3, <1>6, <2>3, <3>1 DEF Expected
  <2>4. CASE innermost \notin {"footer", "sequence", "key"}
    <3>1. e \in NodeEvents(p)
      BY <1>6, <2>4 DEF Legal
    <3> QED BY <1>1, <1>6, <2>4, <3>1 DEF Expected
  <2> QED BY <2>1, <2>2, <2>3, <2>4
<1> QED BY <1>5, <1>6

\* Taking an event of a stream without errors leaves one, behind the constructs the event
\* leaves open; the end of the stream has nothing behind it.
LEMMA IntactFollowers ==
    ASSUME NEW p \in Parsers, Intact(p), NEW q \in Followers(p)
    PROVE  /\ Intact(q) /\ q.open = OpenAfter(p.open, p.next)
           /\ q.documents = IF p.next.type = "DocumentStart" THEN p.documents - 1 ELSE p.documents
<1> DEFINE rest == Consumed(p)
           following == IF p.next.type = "StreamEnd" THEN {NoEvent} ELSE Legal(rest)
<1>1. /\ p.eager /\ ~p.broken /\ p.faults = 0 /\ ~p.scanning_error /\ p.documents \in Nat
      /\ p.next.type = "DocumentStart" => p.documents > 0
  BY DEF Intact, Parsers
<1>2. rest \in Parsers
  BY ConsumedTyped
<1>3. /\ rest.open = OpenAfter(p.open, p.next) /\ rest.eager = p.eager /\ rest.broken = p.broken
      /\ rest.faults = p.faults /\ rest.scanning_error = p.scanning_error
      /\ rest.documents = IF p.next.type = "DocumentStart" THEN p.documents - 1 ELSE p.documents
  BY <1>1 DEF Consumed, Parsers
<1>4. PICK pair \in following \X BOOLEAN :
          MayBeCached(p, pair[1], pair[2]) /\ q = At(rest, pair[1], pair[2])
  BY <1>1 DEF Followers
<1> HIDE DEF rest
<1>5. pair[1] \in following /\ pair[2] \in BOOLEAN
  BY <1>4
<1>6. pair[2] = TRUE
  BY <1>1, <1>4, <1>5 DEF MayBeCached
<1> DEFINE e == pair[1]
<1>7. q = [rest EXCEPT !.next = e, !.cached = (e # NoEvent)]
  BY <1>4, <1>6 DEF At
<1>8. /\ e.type \in Expected(rest.open) /\ (e.type = "None" => e = NoEvent)
      /\ e.type = "DocumentStart" => rest.documents > 0
  <2>1. CASE p.next.type = "StreamEnd"
    <3>1. e = NoEvent
      BY <1>5, <2>1
    <3>2. NoEvent.type = "None"
      BY MarkTypes DEF NoEvent
    <3>3. rest.open = <<>>
      BY <1>3, <2>1 DEF OpenAfter
    <3> QED BY <3>1, <3>2, <3>3 DEF Expected
  <2>2. CASE p.next.type # "StreamEnd"
    <3>1. e \in Legal(rest)
      BY <1>5, <2>2
    <3> HIDE DEF e
    <3> QED BY <1>2, <3>1, LegalExpected
  <2> QED BY <2>1, <2>2
<1> HIDE DEF e
<1>9. /\ q.open = rest.open /\ q.eager = rest.eager /\ q.broken = rest.broken
      /\ q.faults = rest.faults /\ q.scanning_error = rest.scanning_error
      /\ q.documents = rest.documents /\ q.next = e /\ q.cached = (e # NoEvent)
  BY <1>2, <1>7 DEF Parsers
<1> QED BY <1>1, <1>3, <1>8, <1>9 DEF Intact

\* The constructs left open, one kind of event after the other.
LEMMA OpenAfterCases ==
    ASSUME NEW open, NEW e
    PROVE  /\ e.type = "DocumentStart" => OpenAfter(open, e) = <<"document">>
           /\ e.type = "SequenceStart" => OpenAfter(open, e) = Append(open, "sequence")
           /\ e.type = "MappingStart" => OpenAfter(open, e) = Append(open, "key")
           /\ e.type \in {"SequenceEnd", "MappingEnd"} =>
                  OpenAfter(open, e) = AfterNode(SubSeq(open, 1, Len(open) - 1))
           /\ e.type \in {"Scalar", "Alias"} => OpenAfter(open, e) = AfterNode(open)
           /\ e.type \in {"StreamStart", "StreamEnd", "DocumentEnd"} => OpenAfter(open, e) = <<>>
  BY DEF OpenAfter

\* A completed node closes nothing.
LEMMA AfterNodeOpen ==
    ASSUME NEW open \in Seq(Constructs), open # <<>>
    PROVE  AfterNode(open) # <<>>
<1>1. DOMAIN AfterNode(open) = DOMAIN open
  BY DEF AfterNode
<1>2. DOMAIN open # {}
  BY EmptySeq
<1> QED BY <1>1, <1>2

\* Neither an event taken nor an error mends a broken parser or changes its constructor.
LEMMA StaysBroken ==
    ASSUME NEW p \in Parsers, NEW q \in Followers(p) \cup AfterFault(p) \cup {TakeScanningError(p)}
    PROVE  q.eager = p.eager /\ (p.broken => q.broken)
<1>1. ASSUME NEW r \in Parsers, NEW s \in AfterFault(r)
      PROVE  s.eager = r.eager /\ s.broken
  <2>1. PICK event, cached : s = At([r EXCEPT !.faults = @ - 1, !.broken = TRUE], event, cached)
    BY DEF AfterFault
  <2> QED BY <2>1 DEF At, Parsers
<1>2. Consumed(p) \in Parsers /\ Consumed(p).eager = p.eager /\ Consumed(p).broken = p.broken
  <2>1. Consumed(p).eager = p.eager /\ Consumed(p).broken = p.broken
    BY DEF Consumed, Parsers
  <2> QED BY <2>1, ConsumedTyped
<1>3. CASE q \in Followers(p)
  <2>1. q \in AfterFault(Consumed(p)) \/ \E event, cached : q = At(Consumed(p), event, cached)
    BY <1>3 DEF Followers
  <2>2. CASE q \in AfterFault(Consumed(p))
    BY <1>1, <1>2, <2>2
  <2>3. CASE \E event, cached : q = At(Consumed(p), event, cached)
    <3> PICK event, cached : q = At(Consumed(p), event, cached)
      BY <2>3
    <3> QED BY <1>2 DEF At, Parsers
  <2> QED BY <2>1, <2>2, <2>3
<1>4. CASE q \in AfterFault(p)
  BY <1>1, <1>4
<1>5. CASE q = TakeScanningError(p)
  BY <1>5 DEF TakeScanningError, Parsers
<1> QED BY <1>3, <1>4, <1>5

\* The new parsers that have not met an error yet.
LEMMA NewParsersCases ==
    \A p \in NewParsers :
        p.broken \/ \E eager \in Constructors, faults \in {0, MaxFaults} : p = NewParser(eager, faults)
<1> DEFINE intact == {NewParser(eager, faults) : eager \in Constructors, faults \in {0, MaxFaults}}
           stopped == {[NewParser(eager, MaxFaults) EXCEPT !.cached = FALSE, !.broken = TRUE] :
                          eager \in {e \in Constructors : e /\ MaxFaults > 0}}
<1>1. \A e \in BOOLEAN, n \in Nat : NewParser(e, n) \in Parsers
  <2>1. Mark("StreamStart") \in Events
    BY DEF Events, Marks
  <2> QED BY <2>1, StreamAssumption, EmptySeq DEF NewParser, Parsers
<1>2. \A q \in Parsers : [q EXCEPT !.cached = FALSE, !.broken = TRUE].broken
  BY DEF Parsers
<1>3. \A q \in stopped : q.broken
  BY <1>1, <1>2, StreamAssumption
<1>4. \A q \in intact :
          \E eager \in Constructors, faults \in {0, MaxFaults} : q = NewParser(eager, faults)
  OBVIOUS
<1>5. NewParsers = intact \cup stopped
  BY DEF NewParsers
<1> HIDE DEF intact, stopped
<1> QED BY <1>3, <1>4, <1>5

\* A new eager parser shows the beginning of its stream; it has met an error or the
\* stream has none.
LEMMA NewEagerParsers ==
    ASSUME NEW p \in NewParsers, p.eager, ~p.broken
    PROVE  /\ p.next = Mark("StreamStart") /\ p.cached /\ p.open = <<>> /\ p.documents = MaxDocuments
           /\ p.scanning_error \/ Intact(p)
<1>1. PICK e \in Constructors, faults \in {0, MaxFaults} : p = NewParser(e, faults)
  BY NewParsersCases
<1>2. /\ p.next = Mark("StreamStart") /\ p.cached = e /\ p.open = <<>> /\ p.documents = MaxDocuments
      /\ p.eager = e /\ p.faults = faults /\ p.broken = FALSE
      /\ p.scanning_error = (e /\ faults > 0)
  BY <1>1 DEF NewParser
<1>3. e = TRUE
  BY <1>2, StreamAssumption
<1>4. p.scanning_error = (faults > 0)
  BY <1>2, <1>3
<1>5. ASSUME faults = 0 PROVE Intact(p)
  <2>1. p.next.type = "StreamStart" /\ NoEvent.type = "None"
    BY <1>2, MarkTypes DEF NoEvent
  <2>2. p.next # NoEvent /\ p.next.type \in Expected(p.open)
    BY <1>2, <2>1 DEF Expected
  <2>3. ~(faults > 0)
    BY <1>5
  <2> QED BY <1>2, <1>3, <1>4, <1>5, <2>1, <2>2, <2>3 DEF Intact
<1>6. ASSUME faults # 0 PROVE p.scanning_error
  <2>1. faults > 0
    BY <1>6, StreamAssumption
  <2> QED BY <1>4, <2>1
<1> QED BY <1>2, <1>3, <1>5, <1>6
=============================================================================
