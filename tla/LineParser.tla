----------------------------- MODULE LineParser ------------------------------
(***************************************************************************)
(* AsyncStreamingParser (src/streaming_async.rs): a text is read line by   *)
(* line into a buffer, and each complete line of a document becomes the    *)
(* scalars of its key and its value.                                       *)
(*                                                                         *)
(* Two ways to read it: a consumer of the Stream, which polls until it is  *)
(* given None, and process_yaml_stream, which calls parse_next until       *)
(* is_complete.                                                            *)
(*                                                                         *)
(* A parser is a record: `read` and `taken`, the characters the reader has *)
(* given and those that are drained from the buffer, `state`, `events`,    *)
(* and whether it is in the `loop` of parse_document_content.  An event    *)
(* has the first and the last position of its characters.                  *)
(***************************************************************************)
EXTENDS Integers, SequencesExt, FiniteSetsExt

VARIABLES
    text,           \* the characters of the text
    polling,        \* the consumer polls the Stream
    parser,
    delivered,      \* the events given out
    ended           \* the consumer has stopped

vars == <<text, polling, parser, delivered, ended>>

NewParser == [read |-> 0, taken |-> 0, state |-> "Initial", events |-> <<>>, loop |-> FALSE]

Event(type, first, last) == [type |-> type, first |-> first, last |-> last]

-----------------------------------------------------------------------------
Empty(p) == p.taken = p.read

\* The positions in the buffer where these characters stand in a row.
Places(p, characters) ==
    {i \in p.taken + 1 .. p.read - Len(characters) + 1 :
        SubSeq(text, i, i + Len(characters) - 1) = characters}

emit_event(p, type, first, last) == [p EXCEPT !.events = Append(@, Event(type, first, last))]
EmitMark(p, type) == emit_event(p, type, 1, 0)

\* The end of the line at a position, its line end included.
LineEnd(position) ==
    LET ends == {i \in position .. Len(text) : text[i] = "\n"}
    IN  IF ends = {} THEN Len(text) ELSE Min(ends)

\* One more line of the text.
read_line(p) == [p EXCEPT !.read = IF @ = Len(text) THEN @ ELSE LineEnd(@ + 1)]

\* Mutant: a "#" anywhere in the line.
HoldsSign(first, last) == \E i \in first .. last : text[i] = "#"

\* A comment line has a "#" first.
IsComment(first, last) ==
    LET visible == {i \in first .. last : text[i] \notin {" ", "\n"}}
    IN  visible # {} /\ text[Min(visible)] = "#"

\* A line with a colon is a key and a value.
parse_line(p, first, last) ==
    LET colons == {i \in first .. last : text[i] = ":"}
    IN  IF colons = {} \/ IsComment(first, last) THEN p
        ELSE emit_event(emit_event(p, "Scalar", first, Min(colons) - 1),
                        "Scalar", Min(colons) + 1, last - 1)

\* Mutant: one character more is drained.
LineAndBeyond(p) ==
    LET last == Min(Places(p, <<"\n">>))
    IN  [parse_line(p, p.taken + 1, last) EXCEPT !.taken = last + 1]

\* The first line of the buffer, drained.
TakeLine(p) ==
    LET last == Min(Places(p, <<"\n">>))
    IN  [parse_line(p, p.taken + 1, last) EXCEPT !.taken = last]

EndDocument(p) ==
    [EmitMark(p, "DocumentEnd") EXCEPT !.state = "BetweenDocuments", !.taken = @ + 3]

AtEnd(p) == p.taken + 1 \in Places(p, <<".", ".", ".">>)

\* A turn of the loop.
Turn(p) ==
    CASE Empty(p) -> [p EXCEPT !.loop = FALSE]
      [] ~Empty(p) /\ AtEnd(p) -> [EndDocument(p) EXCEPT !.loop = FALSE]
      [] ~Empty(p) /\ ~AtEnd(p) /\ Places(p, <<"\n">>) # {} -> TakeLine(p)
      [] OTHER -> [p EXCEPT !.loop = FALSE]

parse_buffer(p) ==
    CASE p.state = "Initial" -> [EmitMark(p, "StreamStart") EXCEPT !.state = "BetweenDocuments"]
      [] p.state = "BetweenDocuments" ->
             IF Places(p, <<"-", "-", "-">>) = {} THEN p
             ELSE [EmitMark(p, "DocumentStart") EXCEPT !.state = "InDocument"]
      [] p.state = "InDocument" -> [p EXCEPT !.loop = TRUE]
      [] p.state = "Complete" -> p

\* Mutant: whatever is in the buffer.
AtEndOfText(p) == p.read = Len(text)

\* At the end of the text with nothing in the buffer.
AtEndOfInput(p) == p.read = Len(text) /\ Empty(p)

parse_next(p) ==
    IF AtEndOfInput(p) THEN [p EXCEPT !.state = "Complete"] ELSE parse_buffer(read_line(p))

is_complete(p) == p.state = "Complete" /\ p.events = <<>>

-----------------------------------------------------------------------------
\* The consumers.

Idle == ~ended /\ ~parser.loop

\* An event in the queue is given out.
next_event ==
    /\ Idle /\ parser.events # <<>>
    /\ delivered' = Append(delivered, Head(parser.events))
    /\ parser' = [parser EXCEPT !.events = Tail(@)]
    /\ UNCHANGED <<text, polling, ended>>

\* What a consumer makes of a parse_next that comes back without events: the end,
\* if it polls.
Stops(p) == polling /\ ~p.loop /\ p.events = <<>>

\* An empty queue: the parser parses on.  A poll finds is_complete only after such
\* a parse_next; process_yaml_stream looks before each call.
Parse ==
    /\ Idle /\ parser.events = <<>>
    /\ polling \/ ~is_complete(parser)
    /\ parser' = parse_next(parser)
    /\ ended' = Stops(parser')
    /\ UNCHANGED <<text, polling, delivered>>

parse_document_content ==
    /\ parser.loop
    /\ parser' = Turn(parser)
    /\ ended' = Stops(parser')
    /\ UNCHANGED <<text, polling, delivered>>

\* process_yaml_stream returns.
Complete ==
    /\ Idle /\ ~polling /\ is_complete(parser)
    /\ ended' = TRUE
    /\ UNCHANGED <<text, polling, parser, delivered>>

Next == next_event \/ Parse \/ parse_document_content \/ Complete
=============================================================================
