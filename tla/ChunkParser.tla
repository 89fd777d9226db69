----------------------------- MODULE ChunkParser -----------------------------
(***************************************************************************)
(* StreamingYamlParser (src/streaming_enhanced.rs): a reader hands over    *)
(* chunks of a text, or parts of chunks, and what is complete, or looks    *)
(* complete, is made events of.  A character has one byte: what            *)
(* from_utf8_lossy makes of one that is cut is left out.                   *)
(*                                                                         *)
(* A parser is a record                                                    *)
(*                                                                         *)
(*   read, taken   the reader has given the first `read` characters, the   *)
(*                 first `taken` of them are drained from the buffer       *)
(*   state         as in the code                                          *)
(*   collection_stack, pending_anchor, in_block_scalar   its context       *)
(*   events        the queue of events                                     *)
(*   step          where it is: "called", in the loop of                   *)
(*                 parse_document_content, or "returned"                   *)
(*                                                                         *)
(* An event has the first and the last position of the characters it was   *)
(* made of, first > last for none.  Errors are left out: nothing sets the  *)
(* state to one.                                                           *)
(***************************************************************************)
EXTENDS Integers, SequencesExt, FiniteSetsExt

CONSTANTS
    LongBuffer      \* the length from which a buffer is worth parsing

VARIABLES
    text,           \* the characters of the text
    chunk_size,     \* StreamConfig.chunk_size
    short_reads,    \* the reader may give less than a chunk before the end
    parser,
    delivered,      \* what the iterator has given out
    ended           \* ... and whether it has given None

vars == <<text, chunk_size, short_reads, parser, delivered, ended>>

Blanks == {" "}
Names == {"a", "-"}     \* alphanumeric characters, '_' and '-'

NewParser ==
    [read |-> 0, taken |-> 0, state |-> "Initial", collection_stack |-> <<>>,
     pending_anchor |-> FALSE, in_block_scalar |-> FALSE, events |-> <<>>, step |-> "returned"]

Event(type, first, last, anchor) ==
    [type |-> type, first |-> first, last |-> last, anchor |-> anchor]

-----------------------------------------------------------------------------
\* The buffer.

Buffer(p) == SubSeq(text, p.taken + 1, p.read)
Empty(p) == p.taken = p.read
FirstChar(p) == text[p.taken + 1]
StartsWith(p, characters) == IsPrefix(characters, Buffer(p))

Drain(p, n) == [p EXCEPT !.taken = @ + n]

\* How many characters stand before the first one of a set; all of them if none
\* is there.
Before(p, characters) ==
    LET found == {i \in 1 .. p.read - p.taken : text[p.taken + i] \in characters}
    IN  IF found = {} THEN p.read - p.taken ELSE Min(found) - 1

Holds(p, characters) == Before(p, characters) < p.read - p.taken

\* The places where a sequence of characters stands, as the characters before it.
Places(p, characters) ==
    {i \in 0 .. p.read - p.taken - Len(characters) :
        SubSeq(text, p.taken + i + 1, p.taken + i + Len(characters)) = characters}

skip_whitespace(p) ==
    LET visible == {i \in p.taken + 1 .. p.read : text[i] \notin Blanks}
    IN  [p EXCEPT !.taken = IF visible = {} THEN p.read ELSE Min(visible) - 1]

\* Emission.  The nodes that can have an anchor take the pending one.
Emit(p, type, first, last) ==
    IF type \in {"Scalar", "SequenceStart", "MappingStart"}
    THEN [p EXCEPT !.events = Append(@, Event(type, first, last, p.pending_anchor)),
                   !.pending_anchor = FALSE]
    ELSE [p EXCEPT !.events = Append(@, Event(type, first, last, FALSE))]

\* An event of no characters, where the parser is.
EmitMark(p, type) == Emit(p, type, p.taken + 1, p.taken)

\* An event of the next n characters, which are drained.
EmitNext(p, type, n) == Drain(Emit(p, type, p.taken + 1, p.taken + n), n)

-----------------------------------------------------------------------------
\* One turn of parse_yaml_content.

is_sequence_item(p) == StartsWith(p, <<"-", " ">>)
is_mapping_key(p) == Holds(p, {":"}) /\ FirstChar(p) # ":"

\* A sequence, or mapping, is started unless one is on the stack.
Opens(p, type, mapping) ==
    IF \E i \in DOMAIN p.collection_stack : p.collection_stack[i] = mapping THEN p
    ELSE [EmitMark(p, type) EXCEPT !.collection_stack = Append(@, mapping)]

\* Mutant: the dash stays in the buffer.
SequenceItemKept(p) == Opens(p, "SequenceStart", FALSE)

parse_sequence_item(p) == skip_whitespace(Opens(Drain(p, 1), "SequenceStart", FALSE))

\* Mutant: the key stays in the buffer.
MappingEntryKept(p) ==
    LET opened == Opens(p, "MappingStart", TRUE)
    IN  Drain(Emit(opened, "Scalar", p.taken + 1, p.taken + Before(p, {":"})), 1)

parse_mapping_entry(p) ==
    LET opened == Opens(p, "MappingStart", TRUE)
    IN  Drain(EmitNext(opened, "Scalar", Before(p, {":"})), 1)

\* A flow collection is drained up to its first closing bracket; its content is
\* dropped.  Without a closing bracket nothing happens.
FlowCollection(p, start, end, closing) ==
    IF ~Holds(p, {closing}) THEN p
    ELSE Drain(EmitMark(EmitMark(p, start), end), Before(p, {closing}) + 1)

parse_block_scalar_start(p) == [Drain(p, 1) EXCEPT !.in_block_scalar = TRUE]

\* A name counts only when a character behind it is in the buffer.
NameLength(p) == Before(p, {text[i] : i \in DOMAIN text} \ Names)
NameEnds(p) == NameLength(p) < p.read - p.taken

parse_anchor(p) ==
    LET q == Drain(p, 1)
    IN  IF ~NameEnds(q) THEN q ELSE [Drain(q, NameLength(q)) EXCEPT !.pending_anchor = TRUE]

parse_alias(p) ==
    LET q == Drain(p, 1)
    IN  IF ~NameEnds(q) THEN q ELSE EmitNext(q, "Alias", NameLength(q))

parse_quoted_scalar(p) ==
    LET q == Drain(p, 1)
    IN  IF ~Holds(q, {"'"}) THEN q ELSE Drain(EmitNext(q, "Scalar", Before(q, {"'"})), 1)

\* Mutant: a comment reaches to the end of the buffer.
skip_buffer(p) == Drain(p, p.read - p.taken)

skip_comment(p) == Drain(p, Before(p, {"\n"}))

parse_plain_scalar(p) == EmitNext(p, "Scalar", Before(p, {"\n", ":", "#"}))

parse_yaml_content(p) ==
    LET q == skip_whitespace(p)
    IN  CASE Empty(q) -> q
          [] ~Empty(q) ->
             CASE is_sequence_item(q) -> parse_sequence_item(q)
               [] FirstChar(q) = "[" -> FlowCollection(q, "SequenceStart", "SequenceEnd", "]")
               [] FirstChar(q) = "{" -> FlowCollection(q, "MappingStart", "MappingEnd", "}")
               [] FirstChar(q) = "|" -> parse_block_scalar_start(q)
               [] FirstChar(q) = "&" -> parse_anchor(q)
               [] FirstChar(q) = "*" -> parse_alias(q)
               [] FirstChar(q) = "'" -> parse_quoted_scalar(q)
               [] FirstChar(q) = "#" -> skip_comment(q)
               [] FirstChar(q) = "\n" -> Drain(q, 1)
               [] OTHER -> IF is_mapping_key(q) THEN parse_mapping_entry(q)
                           ELSE parse_plain_scalar(q)

-----------------------------------------------------------------------------
\* Block scalars.

EmptyLine == <<"\n", "\n">>
EndMarker == <<"\n", ".", ".", ".">>

has_complete_block_scalar(p) == Places(p, EmptyLine) \cup Places(p, EndMarker) # {}

\* The first empty line, or else the first end of document.
find_block_scalar_end(p) == Min(IF Places(p, EmptyLine) # {} THEN Places(p, EmptyLine) ELSE Places(p, EndMarker))

parse_block_scalar_content(p) ==
    IF ~has_complete_block_scalar(p) THEN p
    ELSE [EmitNext(p, "Scalar", find_block_scalar_end(p)) EXCEPT !.in_block_scalar = FALSE]

-----------------------------------------------------------------------------
\* Documents.

needs_more_data(p) ==
    \/ p.read - p.taken < LongBuffer /\ ~Holds(p, {"\n"})
    \/ p.in_block_scalar /\ ~has_complete_block_scalar(p)

Returned(p) == [p EXCEPT !.step = "returned"]

\* Mutants: the state is kept, or the context.
EndDocumentOpen(p) ==
    [EmitMark(Drain(p, 3), "DocumentEnd") EXCEPT
        !.collection_stack = <<>>, !.pending_anchor = FALSE, !.in_block_scalar = FALSE]
EndDocumentInContext(p) ==
    [EmitMark(Drain(p, 3), "DocumentEnd") EXCEPT !.state = "BetweenDocuments"]

\* The end of a document: "..." is drained, the context forgotten.
EndDocument(p) ==
    [EmitMark(Drain(p, 3), "DocumentEnd") EXCEPT
        !.state = "BetweenDocuments", !.collection_stack = <<>>, !.pending_anchor = FALSE,
        !.in_block_scalar = FALSE]

\* One turn of the loop.
DocumentContent(p) ==
    IF Empty(p) THEN Returned(p)
    ELSE IF StartsWith(p, <<".", ".", ".">>) THEN Returned(EndDocument(p))
    ELSE LET q == IF p.in_block_scalar THEN parse_block_scalar_content(p) ELSE parse_yaml_content(p)
         IN  IF needs_more_data(q) THEN Returned(q) ELSE q

StartDocument(p) == [EmitMark(p, "DocumentStart") EXCEPT !.state = "InDocument"]

parse_document_start(p) ==
    LET q == skip_whitespace(p)
    IN  CASE StartsWith(q, <<"-", "-", "-">>) -> Returned(StartDocument(Drain(q, 3)))
          [] Empty(q) -> Returned(q)
          [] OTHER -> StartDocument(q)

\* parse_buffer.
ParseBuffer(p) ==
    CASE p.state = "Initial" ->
             Returned([EmitMark(p, "StreamStart") EXCEPT !.state = "BetweenDocuments"])
      [] p.state = "BetweenDocuments" -> parse_document_start(p)
      [] p.state = "InDocument" -> p

\* How many characters a read may give: none at the end of the text.
Reads(p) ==
    LET most == IF p.read + chunk_size > Len(text) THEN Len(text) - p.read ELSE chunk_size
    IN  IF short_reads /\ most > 0 THEN 1 .. most ELSE {most}

read_chunk(p, n) == [p EXCEPT !.read = @ + n]

-----------------------------------------------------------------------------
(***************************************************************************)
(* The iterator, asked until it gives None.                                *)
(***************************************************************************)
Idle == parser.step = "returned" /\ ~ended

\* An event is there.
next_event ==
    /\ Idle /\ parser.events # <<>>
    /\ delivered' = Append(delivered, Head(parser.events))
    /\ parser' = [parser EXCEPT !.events = Tail(@)]
    /\ UNCHANGED <<text, chunk_size, short_reads, ended>>

\* parse_next: the next chunk, then the buffer.
parse_next ==
    /\ Idle /\ parser.events = <<>>
    /\ \E n \in Reads(parser) :
           /\ ~(n = 0 /\ Empty(parser))
           /\ parser' = ParseBuffer([read_chunk(parser, n) EXCEPT !.step = "called"])
    /\ ended' = (parser'.step = "returned" /\ parser'.events = <<>>)
    /\ UNCHANGED <<text, chunk_size, short_reads, delivered>>

\* The end of the stream.
EndOfStream ==
    /\ Idle /\ parser.events = <<>>
    /\ 0 \in Reads(parser) /\ Empty(parser)
    /\ parser' = [parser EXCEPT !.state = "EndOfStream"]
    /\ ended' = TRUE
    /\ UNCHANGED <<text, chunk_size, short_reads, delivered>>

\* A turn of the loop of parse_document_content.  A call that comes back with no
\* event gives None.
parse_document_content ==
    /\ parser.step = "called"
    /\ parser' = DocumentContent(parser)
    /\ ended' = (parser'.step = "returned" /\ parser'.events = <<>>)
    /\ UNCHANGED <<text, chunk_size, short_reads, delivered>>

Next == next_event \/ parse_next \/ EndOfStream \/ parse_document_content
=============================================================================
