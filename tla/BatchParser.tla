----------------------------- MODULE BatchParser -----------------------------
(***************************************************************************)
(* StreamingParser (src/parser/streaming.rs): events are generated in      *)
(* small batches, from the characters of a ZeroScanner (src/zerocopy.rs)   *)
(* or from the tokens of the traditional scanner, and read through the     *)
(* Parser trait or as batches.                                             *)
(*                                                                         *)
(* A parser is a record: `at`, the characters or tokens passed; `state`,   *)
(* `state_stack`, `depth`, `pending_anchor` and `stream_ended` as in the   *)
(* code; `events`, its event_buffer.  An event has the first and the last  *)
(* position of the input it was made of.  Values of `state` that nothing   *)
(* tells apart are left out, and the statistics.                           *)
(***************************************************************************)
EXTENDS Integers, SequencesExt, FiniteSetsExt

CONSTANTS
    BatchSize,      \* characters that generate_events_zero_copy takes at a time
    TokenBatch,     \* tokens that generate_events_traditional takes at a time
    TargetSize,     \* events that next_batch is after
    MaxNesting      \* StreamingConfig.max_depth

VARIABLES
    text,           \* the characters, or the token types
    zero_copy,      \* which constructor made the parser
    batching,       \* the consumer calls next_batch, not get_event
    parser,
    delivered,      \* the events the consumer has been given
    ended           \* the consumer has stopped

vars == <<text, zero_copy, batching, parser, delivered, ended>>

Turns(n) == [i \in 1 .. n |-> i]

NewParser ==
    [at |-> 0, state |-> "StreamStart", state_stack |-> <<>>, depth |-> 0,
     pending_anchor |-> FALSE, stream_ended |-> FALSE, events |-> <<>>]

Event(type, first, last, anchor) ==
    [type |-> type, first |-> first, last |-> last, anchor |-> anchor]

Push(p, type, first, last) == [p EXCEPT !.events = Append(@, Event(type, first, last, FALSE))]
PushMark(p, type) == Push(p, type, p.at + 1, p.at)

\* A node takes the pending anchor.
PushNode(p, type, first, last) ==
    [p EXCEPT !.events = Append(@, Event(type, first, last, p.pending_anchor)),
              !.pending_anchor = FALSE]

-----------------------------------------------------------------------------
\* ZeroScanner.

AtEnd(p) == p.at = Len(text)
CharAt(position) == IF position \in DOMAIN text THEN text[position] ELSE "end"
current_char(p) == CharAt(p.at + 1)
advance(p, n) == [p EXCEPT !.at = IF @ + n > Len(text) THEN Len(text) ELSE @ + n]

\* The parser at the first character from here on that is not in a set.
SkipTo(p, stops) ==
    LET found == {i \in p.at + 1 .. Len(text) : i \in stops}
    IN  [p EXCEPT !.at = IF found = {} THEN Len(text) ELSE Min(found) - 1]

WhiteSpace == {" ", "\n", "end"}

skip_whitespace(p) == SkipTo(p, {i \in DOMAIN text : text[i] # " "})

Words == {"a", "-"}
IdentifierEnd(p) == SkipTo(p, {i \in DOMAIN text : text[i] \notin Words})

\* Where a plain scalar stops.
ScalarEnds ==
    {i \in DOMAIN text :
        \/ text[i] \in {"\n", ",", "[", "]", "{", "}"}
        \/ text[i] = ":" /\ CharAt(i + 1) \in WhiteSpace
        \/ text[i] = "#" /\ (i = 1 \/ CharAt(i - 1) \in WhiteSpace)}

\* A comment goes with its line end.
skip_comment_simple(p) == advance(SkipTo(p, {i \in DOMAIN text : text[i] = "\n"}), 1)

IsMarker(p, c) ==
    /\ \A i \in 1 .. 3 : CharAt(p.at + i) = c
    /\ CharAt(p.at + 4) \in WhiteSpace

-----------------------------------------------------------------------------
\* Handlers.

push_state(p, state) ==
    [p EXCEPT !.state_stack = Append(@, p.state), !.state = state, !.depth = @ + 1]

\* Mutant: the depth goes down with every closing bracket.
PopCountingAll(p) ==
    IF p.state_stack = <<>> THEN [p EXCEPT !.depth = @ - 1]
    ELSE [p EXCEPT !.state = Last(@.state_stack), !.state_stack = Front(@), !.depth = @ - 1]

pop_state(p) ==
    IF p.state_stack = <<>> THEN p
    ELSE [p EXCEPT !.state = Last(p.state_stack), !.state_stack = Front(@), !.depth = @ - 1]

\* At a character; a bracket or a sign is passed.
Bracket(p) ==
    LET here == p.at + 1
    IN  CASE current_char(p) = "[" ->
                 PushNode(push_state(p, "FlowSequence"), "SequenceStart", here, here)
          [] current_char(p) = "{" ->
                 PushNode(push_state(p, "FlowMapping"), "MappingStart", here, here)
          [] current_char(p) = "]" -> pop_state(Push(p, "SequenceEnd", here, here))
          [] current_char(p) = "}" -> pop_state(Push(p, "MappingEnd", here, here))

Marker(p, type) ==
    advance([Push(p, type, p.at + 1, p.at + 3) EXCEPT !.state = type], 3)

\* scan_plain_scalar_zero_copy, handle_zero_copy_scalar.
ScanScalar(p) ==
    LET q == SkipTo(p, ScalarEnds)
    IN  PushNode(q, "Scalar", p.at + 1, q.at)

ScanAnchor(p) == [IdentifierEnd(advance(p, 1)) EXCEPT !.pending_anchor = TRUE]

ScanAlias(p) ==
    LET q == IdentifierEnd(advance(p, 1)) IN Push(q, "Alias", p.at + 2, q.at)

\* A character of the batch.  The handler is chosen by the character before the
\* whitespace, and looks at the one behind it.  A ":" changes nothing:
\* handle_value_indicator finds no BlockMappingKey, a state nothing sets.
ZeroCopyStep(p) ==
    LET ch == current_char(p)
        q == skip_whitespace(p)
    IN  CASE ch = "-" /\ IsMarker(q, "-") -> Marker(q, "DocumentStart")
          [] ch = "." /\ IsMarker(q, ".") -> Marker(q, "DocumentEnd")
          [] ch \in {"[", "]", "{", "}"} -> advance(Bracket(q), 1)
          [] ch = "#" -> skip_comment_simple(q)
          [] ch = "a" -> ScanScalar(q)
          [] ch = "&" -> ScanAnchor(q)
          [] ch = "*" -> ScanAlias(q)
          [] OTHER -> advance(q, 1)

EndStream(p) == [PushMark(p, "StreamEnd") EXCEPT !.stream_ended = TRUE]

\* A turn of the loop of generate_events_zero_copy.
ZeroCopyTurn(p, n) ==
    IF p.stream_ended THEN p ELSE IF AtEnd(p) THEN EndStream(p) ELSE ZeroCopyStep(p)

-----------------------------------------------------------------------------
\* The traditional scanner.

process_token(p) ==
    LET q == advance(p, 1)
    IN  CASE current_char(p) = "StreamStart" ->
                 [Push(q, "StreamStart", q.at, q.at) EXCEPT !.state = "ImplicitDocumentStart"]
          [] current_char(p) = "StreamEnd" ->
                 [Push(q, "StreamEnd", q.at, q.at) EXCEPT !.stream_ended = TRUE]
          [] current_char(p) = "Scalar" -> PushNode(q, "Scalar", q.at, q.at)
          [] OTHER -> q

\* The tokens that are left, TokenBatch at most; a turn that finds none adds an
\* end of the stream, even behind the one of the token.  The scanner, external here,
\* refuses no token: the error of get_token is left out.
Traditional(p) ==
    LET tokens == IF Len(text) - p.at < TokenBatch THEN Len(text) - p.at ELSE TokenBatch
        q == FoldLeft(LAMBDA r, n : process_token(r), p, Turns(tokens))
    IN  IF tokens < TokenBatch THEN EndStream(q) ELSE q

-----------------------------------------------------------------------------
\* Generating.

TooDeep(p) == p.depth > MaxNesting

generate_events(p) ==
    IF p.stream_ended THEN p
    ELSE IF zero_copy THEN FoldLeft(ZeroCopyTurn, p, Turns(BatchSize))
    ELSE Traditional(p)

\* Whether next_event_internal fails, and what it leaves otherwise: events, or
\* none for None.
Fails(p) == p.events = <<>> /\ ~p.stream_ended /\ TooDeep(p)

next_event_internal(p) == IF p.events = <<>> THEN generate_events(p) ELSE p

check_event(p) == p.events # <<>> \/ ~p.stream_ended
has_more_events(p) == ~p.stream_ended \/ p.events # <<>>

-----------------------------------------------------------------------------
\* A consumer that calls get_event while check_event holds.

get_event ==
    /\ ~ended /\ ~batching /\ check_event(parser) /\ ~Fails(parser)
    /\ LET p == next_event_internal(parser)
       IN  IF p.events = <<>> THEN parser' = p /\ UNCHANGED delivered
           ELSE /\ delivered' = Append(delivered, Head(p.events))
                /\ parser' = [p EXCEPT !.events = Tail(@)]
    /\ UNCHANGED <<text, zero_copy, batching, ended>>

\* One turn of the loop of next_batch: stopped, or with one event more.
BatchTurn(b, n) ==
    IF b.stopped \/ b.parser.stream_ended THEN [b EXCEPT !.stopped = TRUE]
    ELSE IF Fails(b.parser) THEN [b EXCEPT !.failed = TRUE, !.stopped = TRUE]
    ELSE LET p == next_event_internal(b.parser)
         IN  IF p.events = <<>> THEN [b EXCEPT !.parser = p, !.stopped = TRUE]
             ELSE [b EXCEPT !.parser = [p EXCEPT !.events = Tail(@)],
                            !.batch = Append(@, Head(p.events))]

NewBatch == [parser |-> parser, batch |-> <<>>, stopped |-> FALSE, failed |-> FALSE]

\* A consumer of batches; an empty one ends it, and so does an error, with which
\* the events of the batch are dropped.
next_batch ==
    /\ ~ended /\ batching /\ has_more_events(parser)
    /\ LET b == FoldLeft(BatchTurn, NewBatch, Turns(TargetSize))
       IN  /\ parser' = b.parser
           /\ delivered' = IF b.failed THEN delivered ELSE delivered \o b.batch
           /\ ended' = (b.failed \/ b.batch = <<>>)
    /\ UNCHANGED <<text, zero_copy, batching>>

\* Nothing is left, or the depth is exceeded.
Finish ==
    /\ ~ended
    /\ ~check_event(parser) \/ (~batching /\ Fails(parser))
    /\ ended' = TRUE
    /\ UNCHANGED <<text, zero_copy, batching, parser, delivered>>

Next == get_event \/ next_batch \/ Finish
=============================================================================
