---------------------------- MODULE EventStream ----------------------------
(***************************************************************************)
(* The parser as the composer sees it (the Parser trait of                 *)
(* src/parser/mod.rs): a cursor over a stream of events that is produced   *)
(* while it is read.  A parser is a record                                 *)
(*                                                                         *)
(*   eager    the constructor that made it                                 *)
(*   next     the event at the cursor, NoEvent when the stream is over     *)
(*   cached   the event at the cursor is in the Vec `events` already:      *)
(*            peek_event shows it.  An event that is still to be generated *)
(*            from tokens is invisible to peek_event                       *)
(*   open     the constructs open before `next`, innermost last            *)
(*   defined  the anchor names seen so far (never forgotten)               *)
(*   nodes    how many more nodes this instance of the stream may hold     *)
(*   documents  how many more documents it may start                       *)
(*   faults   how many more errors get_event may return                    *)
(*   broken   an error has passed: nothing is promised of what follows     *)
(*   scanning_error   an error of eager parsing waits to be taken          *)
(*                                                                         *)
(* An intact stream is the grammar the parser is meant to emit: balanced,  *)
(* one root node per document, a value after every key, aliases only to    *)
(* names whose anchor was seen.  After an error any event may follow.      *)
(***************************************************************************)
EXTENDS Naturals, Sequences

CONSTANTS
    Names,          \* anchor names
    NoAnchor,       \* a node without an anchor
    Scalars,        \* contents of the scalars in the stream
    Versions,       \* what a document's %YAML directive may say
    Constructors,   \* which constructors: TRUE for new_eager, FALSE for the lazy one
    MaxNodes,       \* bound on node events in the stream
    MaxDocuments,   \* bound on documents in the stream
    MaxFaults       \* bound on errors from the parser

ASSUME StreamAssumption ==
    /\ NoAnchor \notin Names
    /\ Constructors \subseteq BOOLEAN
    /\ {MaxNodes, MaxDocuments, MaxFaults} \subseteq Nat

OptNames == Names \cup {NoAnchor}

Event(type, anchor, value) == [type |-> type, anchor |-> anchor, value |-> value]
Mark(type) == Event(type, NoAnchor, "")

NoEvent == Mark("None")

\* An empty plain scalar: what the parser emits where a node is required
\* and the text has none.
EmptyScalar == Event("Scalar", NoAnchor, "")

Marks == {Mark(type) : type \in {"StreamStart", "StreamEnd", "DocumentEnd",
                                 "SequenceEnd", "MappingEnd"}}
DocumentStarts == {Event("DocumentStart", NoAnchor, version) : version \in Versions}
ScalarEvents == UNION {{Event("Scalar", a, s) : a \in OptNames} : s \in Scalars}
CollectionStarts == {Event("SequenceStart", a, "") : a \in OptNames}
                    \cup {Event("MappingStart", a, "") : a \in OptNames}
Aliases(names) == {Event("Alias", a, "") : a \in names}

Events == Marks \cup DocumentStarts \cup ScalarEvents \cup {EmptyScalar}
          \cup CollectionStarts \cup Aliases(Names) \cup {NoEvent}

Constructs == {"document", "footer", "sequence", "key", "value"}

\* The type of a parser.
Parsers ==
    [eager : BOOLEAN, next : Events, cached : BOOLEAN, open : Seq(Constructs), defined : SUBSET Names,
     nodes : Nat, documents : Nat, faults : Nat, broken : BOOLEAN, scanning_error : BOOLEAN]

StartsNode(event) == event.type \in {"Scalar", "SequenceStart", "MappingStart", "Alias"}

-----------------------------------------------------------------------------
\* The grammar of an intact stream.

\* A node has just been completed inside the innermost open construct.
AfterNode(open) ==
    [open EXCEPT ![Len(open)] = CASE @ = "document" -> "footer"
                                  [] @ = "key" -> "value"
                                  [] @ = "value" -> "key"
                                  [] OTHER -> @]

\* The open constructs once this event is over.
OpenAfter(open, event) ==
    CASE event.type = "DocumentStart" -> <<"document">>
      [] event.type = "SequenceStart" -> Append(open, "sequence")
      [] event.type = "MappingStart" -> Append(open, "key")
      [] event.type \in {"SequenceEnd", "MappingEnd"} -> AfterNode(SubSeq(open, 1, Len(open) - 1))
      [] event.type \in {"Scalar", "Alias"} -> AfterNode(open)
      [] OTHER -> <<>>

NodeEvents(p) ==
    IF p.nodes > 0
    THEN ScalarEvents \cup CollectionStarts \cup Aliases(p.defined)
    ELSE {EmptyScalar}

OptionalNodeEvents(p) == IF p.nodes > 0 THEN NodeEvents(p) ELSE {}

\* What may stand at the cursor, given the constructs open before it.
Legal(p) ==
    IF p.open = <<>>
    THEN {Mark("StreamEnd")} \cup (IF p.documents > 0 THEN DocumentStarts ELSE {})
    ELSE LET innermost == p.open[Len(p.open)]
         IN  CASE innermost = "footer" -> {Mark("DocumentEnd")}
               [] innermost = "sequence" -> {Mark("SequenceEnd")} \cup OptionalNodeEvents(p)
               [] innermost = "key" -> {Mark("MappingEnd")} \cup OptionalNodeEvents(p)
               [] OTHER -> NodeEvents(p)

\* What may stand at the cursor of a broken stream: anything, or nothing.
Arbitrary(p) ==
    IF p.nodes > 0 THEN Events ELSE {NoEvent}

-----------------------------------------------------------------------------
\* The Parser interface.

\* check_event: cached events, or tokens to make more from.
check_event(p) == p.next # NoEvent

\* peek_event sees only events that were generated already.
Peeks(p, types) == p.cached /\ p.next.type \in types

\* What is known of the stream once its next event is consumed.
Consumed(p) ==
    LET event == p.next
    IN  [p EXCEPT
            !.open = IF p.broken THEN @ ELSE OpenAfter(@, event),
            !.defined = IF event.type # "Alias" /\ event.anchor # NoAnchor
                        THEN @ \cup {event.anchor} ELSE @,
            !.nodes = IF @ > 0 /\ (p.broken \/ StartsNode(event)) THEN @ - 1 ELSE @,
            !.documents = IF @ > 0 /\ event.type = "DocumentStart" THEN @ - 1 ELSE @]

\* The parser with this event at its cursor.
At(p, event, cached) == [p EXCEPT !.next = event, !.cached = cached /\ event # NoEvent]

\* The parsers an error leaves behind.  The offending token is gone.
AfterFault(p) ==
    LET rest == [p EXCEPT !.faults = @ - 1, !.broken = TRUE]
    IN  {At(rest, event, cached) : event \in Arbitrary(rest), cached \in BOOLEAN}

\* Whether one token can yield these two events in a row.  An alias or a
\* scalar of the text is the last event of its token.
SameToken(event, following) ==
    CASE event.type \in {"StreamStart", "Alias"} -> FALSE
      [] event.type = "Scalar" -> event = EmptyScalar
      [] event.type \in {"DocumentStart", "SequenceStart", "MappingStart"} -> StartsNode(following)
      [] OTHER -> TRUE

\* Whether the next event is cached once this one is consumed: eager parsing
\* caches every event, lazy parsing those of the tokens it has processed.
MayBeCached(p, following, cached) ==
    IF p.eager /\ ~p.broken THEN cached ELSE cached => SameToken(p.next, following)

\* The parsers that consuming the event at the cursor can leave behind.  Where
\* eager parsing stopped at an error, the cached events end.
Followers(p) ==
    LET rest == Consumed(p)
        following == IF p.broken THEN Arbitrary(rest)
                     ELSE IF p.next.type = "StreamEnd" THEN {NoEvent}
                     ELSE Legal(rest)
    IN  {At(rest, pair[1], pair[2]) : pair \in
            {pair \in following \X BOOLEAN : MayBeCached(p, pair[1], pair[2])}}
        \cup (IF p.eager /\ ~p.broken /\ p.faults > 0 THEN AfterFault(rest) ELSE {})

\* get_event can fail only while it generates events, never on a cached one.
CanFault(p) == p.faults > 0 /\ ~p.cached /\ check_event(p)

TakeScanningError(p) == [p EXCEPT !.scanning_error = FALSE]

NewParser(eager, faults) ==
    [eager |-> eager, next |-> Mark("StreamStart"), cached |-> eager, open |-> <<>>,
     defined |-> {}, nodes |-> MaxNodes, documents |-> MaxDocuments, faults |-> faults,
     broken |-> FALSE, scanning_error |-> eager /\ faults > 0]

\* The new parsers.  Only eager parsing has met its error before it is asked:
\* in process_token, with a prefix of the events cached, or in the scanner,
\* with none of the tokens before the error parsed.
NewParsers ==
    {NewParser(eager, faults) : eager \in Constructors, faults \in {0, MaxFaults}}
    \cup {[NewParser(eager, MaxFaults) EXCEPT !.cached = FALSE, !.broken = TRUE] :
             eager \in {e \in Constructors : e /\ MaxFaults > 0}}
=============================================================================
