------------------------------ MODULE FrontEnd ------------------------------
(***************************************************************************)
(* Scanner and parser behind get_event (src/parser/mod.rs), with a consumer *)
(* that asks for one event after the other.                                *)
(*                                                                         *)
(* The eager constructors scan and parse the whole text before the first   *)
(* event is asked for.  A lazy parser processes a token only when it is out *)
(* of events; the scanner behind it reads the whole rest of the text when  *)
(* it is asked for its second token.                                       *)
(*                                                                         *)
(* An error ends the behaviour: what a parser still yields after it, the   *)
(* model EventStream describes.                                            *)
(***************************************************************************)
EXTENDS Scanner

VARIABLES
    parser,      \* the BasicParser
    lazy,        \* which constructor made it
    delivered    \* the events get_event has returned

INSTANCE Parser

\* The grammar of event streams the composer relies on.
Stream == INSTANCE EventStream WITH
    Names <- {"name"}, NoAnchor <- "none", Scalars <- {"", "word"}, Versions <- {"", "%YAML"},
    Constructors <- {FALSE}, MaxNodes <- 1, MaxDocuments <- 1, MaxFaults <- 0

vars == <<scanner, parser, lazy, delivered>>

\* A new parser, whatever its text.
NewFrontEnd ==
    /\ ScannerInit
    /\ parser = NewBasicParser
    /\ lazy \in BOOLEAN
    /\ delivered = <<>>

FrontEndInit == text \in Texts /\ NewFrontEnd

Cached == parser.event_index < Len(parser.events)

\* new_eager_with_limits scans first; scan_next_token scans everything when
\* get_event needs the token after StreamStart.
scan ==
    /\ lazy => parser.token_index = 1 /\ ~Cached
    /\ ScannerNext
    /\ UNCHANGED <<parser, lazy, delivered>>

\* parse_all, or generate_next_event in the loop of get_event.
parse ==
    /\ lazy => ~Cached
    /\ scanning = "done" \/ (lazy /\ parser.token_index = 0)
    /\ process_token
    /\ UNCHANGED <<scanner, lazy, delivered>>

\* A mutant of get_event: an event is handed out before the rest of the text is parsed.
GetEventEarly ==
    /\ Cached
    /\ delivered' = Append(delivered, parser.events[parser.event_index + 1])
    /\ parser' = [parser EXCEPT !.event_index = @ + 1]
    /\ UNCHANGED <<scanner, lazy>>

\* get_event returns a cached event.
get_event ==
    /\ Cached
    /\ lazy \/ parser.failed \/ parser.state = "StreamEnd"
    /\ delivered' = Append(delivered, parser.events[parser.event_index + 1])
    /\ parser' = [parser EXCEPT !.event_index = @ + 1]
    /\ UNCHANGED <<scanner, lazy>>

Refused == scanning = "error" \/ parser.failed
Accepted == parser.state = "StreamEnd" /\ ~Cached

\* get_event returns the error, or None.  Every behaviour ends here: a text
\* that is neither refused nor delivered to its end is a deadlock.
answer ==
    /\ Refused \/ Accepted
    /\ UNCHANGED vars

FrontEndNext == scan \/ parse \/ get_event \/ answer

FrontEndSpec == FrontEndInit /\ [][FrontEndNext]_vars

-----------------------------------------------------------------------------
(***************************************************************************)
(* Properties.                                                             *)
(***************************************************************************)

\* The fields of scanner and parser have their types.
TypeOK ==
    /\ ScannerTypeOK
    /\ parser \in Parsers
    /\ parser.token_index <= Len(tokens)
    /\ parser.event_index <= Len(parser.events)
    /\ lazy \in BOOLEAN
    /\ delivered \in Seq(Events)

Place(x) == <<x.type, x.line, x.column>>

\* The places of words and aliases, token by token and event by event.
WithToken(places, t) == IF t.type \in Leaves THEN Append(places, Place(t)) ELSE places
WithEvent(places, e) == IF e.type \in Leaves /\ ~e.empty THEN Append(places, Place(e)) ELSE places

WordsOfText == FoldLeft(WithToken, <<>>, tokens)
WordsOfEvents == FoldLeft(WithEvent, <<>>, parser.events)

\* Of a text that is accepted, no word and no alias is lost, doubled or moved:
\* the events that are not empty scalars are the words of the text in its order,
\* through all the insertions, empty scalars and implicit ends around them.
WordsInOrder ==
    parser.state = "StreamEnd" => WordsOfText = WordsOfEvents

\* Every node is in a document, and one document ends before the next begins,
\* whatever mixture of markers, implicit starts and directives opens and ends them.
DocumentsFramed ==
    LET upTo(n) == SubSeq(parser.events, 1, n)
        open(n) == Pieces(upTo(n), {"DocumentStart"}, 1) - Pieces(upTo(n), {"DocumentEnd"}, 1)
    IN  \A n \in DOMAIN parser.events :
            /\ open(n) \in {0, 1}
            /\ parser.events[n].type \in NodeStarts \cup NodeEnds \cup Leaves => open(n) = 1
            /\ parser.events[n].type = "StreamEnd" => open(n) = 0

\* The places of anchors, and of the nodes that have one.
WithAnchor(spots, t) == IF t.type = "Anchor" THEN Append(spots, Spot(t)) ELSE spots
WithNode(spots, e) == IF e.anchor THEN Append(spots, Spot(e)) ELSE spots

\* Of a text that is accepted, an anchor is on the node that comes next: no word
\* or alias stands between the n-th anchor and the n-th node that has one.  (A
\* document marker may: an anchor at the end of a document moves to the next one.)
AnchorsMeetNodes ==
    LET anchors == FoldLeft(WithAnchor, <<>>, tokens)
        nodes == FoldLeft(WithNode, <<>>, parser.events)
    IN  parser.state = "StreamEnd" =>
            \A n \in DOMAIN nodes :
                /\ n <= Len(anchors)
                /\ \A i \in DOMAIN tokens :
                       tokens[i].type \in Leaves =>
                           ~(Before(anchors[n], Spot(tokens[i])) /\ Before(Spot(tokens[i]), nodes[n]))

\* The collections open before the n-th event of the parser.
Around(n) == Levels(SubSeq(parser.events, 1, n - 1))

\* Of a text that is accepted, every collection that starts ends, in its own
\* document and by the end event of its own kind: if the text has no block sequences
\* and no markers, which can cut collections open.
Balanced ==
    LET cut == \E l \in DOMAIN text : ToSet(text[l].lexemes) \cap {"-", "---"} # {}
    IN  parser.state = "StreamEnd" /\ ~cut =>
        \A n \in DOMAIN parser.events :
            LET type == parser.events[n].type
            IN  /\ type \in NodeEnds =>
                       /\ Around(n) # <<>>
                       /\ (type = "MappingEnd") = (Last(Around(n)).start = "MappingStart")
                /\ type \in {"DocumentStart", "DocumentEnd", "StreamEnd"} => Around(n) = <<>>

\* An event as the composer's model of the parser has it.
Seen(e) ==
    Stream!Event(e.type,
                 IF e.anchor \/ e.type = "Alias" THEN "name" ELSE "none",
                 CASE e.type = "Scalar" /\ ~e.empty -> "word"
                   [] e.type = "DocumentStart" /\ e.version -> "%YAML"
                   [] OTHER -> "")

\* The constructs open behind a legal event, the string "illegal" behind
\* any other.
Follow(open, e) ==
    LET cursor == [open |-> open, nodes |-> 1, documents |-> 1, defined |-> {"name"}]
    IN  IF open = <<"illegal">> \/ Seen(e) \notin Stream!Legal(cursor)
        THEN <<"illegal">>
        ELSE Stream!OpenAfter(open, Seen(e))

\* What the consumer is given obeys the grammar of EventStream at every point:
\* one root in each document, a value for each key, ends where they belong.
\* The composer's properties rest on it.
Grammatical ==
    delivered # <<>> => FoldLeft(Follow, <<>>, Tail(delivered)) # <<"illegal">>

-----------------------------------------------------------------------------
(***************************************************************************)
(* What a comment says, and the code does only with an eager parser.       *)
(***************************************************************************)

\* get_event consumes the event it returns: it gives each one once and leaves
\* none out, although the parser inserts events before others.
DeliveredOnce == delivered = SubSeq(parser.events, 1, parser.event_index)

\* An eager parser has made every event, and inserted those that belong before
\* others, when the first one is asked for: the consumer's place in its list stays
\* the place of the next event to give.
EagerDeliversOnce == ~lazy => DeliveredOnce
=============================================================================
