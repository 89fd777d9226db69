------------------------------- MODULE Streams -------------------------------
(***************************************************************************)
(* The streaming parsers side by side, each over its texts: cut into       *)
(* chunks, whole ones or any parts of them; by lines; in batches; and the  *)
(* reader of mapped files.  A case is a text and how it is read.           *)
(***************************************************************************)
EXTENDS MmapReader, SequencesExt, FiniteSetsExt

CONSTANTS
    LongBuffer,                             \* of ChunkParser
    BatchSize, TokenBatch, TargetSize, MaxNesting,      \* of BatchParser
    ChunkCases, LineCases, BatchCases,      \* the texts, each with its option
    Files                                   \* the mapped files

ASSUME BatchAssumption ==
    BatchSize \in Nat /\ TokenBatch \in Nat /\ TargetSize \in Nat /\ MaxNesting \in Nat

ASSUME CasesAssumption ==
    /\ ChunkCases \subseteq Seq(STRING) \X [chunk_size : Nat, short_reads : BOOLEAN]
    /\ LineCases \subseteq Seq(STRING) \X [polling : BOOLEAN]
    /\ BatchCases \subseteq Seq(STRING) \X [zero_copy : BOOLEAN, batching : BOOLEAN]
    /\ Files \subseteq Seq(Bytes)

VARIABLES
    kind,       \* which: "chunks", "lines", "batches" or "mapped"
    option,     \* how it is made and read
    text, parser, delivered, ended

parsing == <<text, parser, delivered, ended>>
mapping == <<mmap, reader>>
vars == <<kind, option, parsing, mapping>>

Chunked == INSTANCE ChunkParser WITH
    chunk_size <- option.chunk_size, short_reads <- option.short_reads
Lines == INSTANCE LineParser WITH polling <- option.polling
Batched == INSTANCE BatchParser WITH
    zero_copy <- option.zero_copy, batching <- option.batching

-----------------------------------------------------------------------------
StartWith(case, newParser) ==
    /\ text = case[1] /\ option = case[2] /\ parser = newParser
    /\ delivered = <<>> /\ ended = FALSE
    /\ mmap = <<>> /\ reader = NewReader

StartMapped ==
    /\ mmap \in Files /\ reader = NewReader
    /\ option = <<>> /\ text = <<>> /\ parser = <<>> /\ delivered = <<>> /\ ended = FALSE

Init ==
    \/ kind = "chunks" /\ \E case \in ChunkCases : StartWith(case, Chunked!NewParser)
    \/ kind = "lines" /\ \E case \in LineCases : StartWith(case, Lines!NewParser)
    \/ kind = "batches" /\ \E case \in BatchCases : StartWith(case, Batched!NewParser)
    \/ kind = "mapped" /\ StartMapped

Stop == ended /\ UNCHANGED <<parsing, mapping>>

Next ==
    /\ UNCHANGED <<kind, option>>
    /\ \/ kind = "chunks" /\ Chunked!Next /\ UNCHANGED mapping
       \/ kind = "lines" /\ Lines!Next /\ UNCHANGED mapping
       \/ kind = "batches" /\ Batched!Next /\ UNCHANGED mapping
       \/ kind = "mapped" /\ ReaderNext /\ UNCHANGED parsing
       \/ Stop

\* The consumer of chunks and lines goes on until it is told to stop.  For batches
\* nothing is said but that no reader gets stuck: TLC takes too long to find their
\* steps ENABLED.
Reading == kind \in {"chunks", "lines"} /\ Next

Spec == Init /\ [][Next]_vars /\ WF_vars(Reading)

-----------------------------------------------------------------------------
(***************************************************************************)
(* Properties.                                                             *)
(***************************************************************************)
Events == IF kind = "mapped" THEN <<>> ELSE delivered \o parser.events
Visible(event) == event.first <= event.last

\* The parsers and what they deliver are of their types (StreamingYamlParser,
\* AsyncStreamingParser, StreamingParser, MmapYamlReader).
TypeOK ==
    /\ ReaderTypeOK
    /\ ended \in BOOLEAN
    /\ \A i \in DOMAIN Events : Events[i].first \in 1 .. Len(text) + 1 /\ Events[i].last \in 0 .. Len(text)
    /\ kind \in {"chunks", "lines"} => 0 <= parser.taken /\ parser.taken <= parser.read /\ parser.read <= Len(text)

\* No part of the text is made an event twice, and none out of order, however the
\* reader cuts it: the characters of an event stand behind those of every event
\* before it (the drains of streaming_enhanced.rs and streaming_async.rs, the
\* cursor of ZeroScanner).
SpansInOrder ==
    \A j \in DOMAIN Events : Visible(Events[j]) =>
        \A i \in 1 .. j - 1 : Events[i].last < Events[j].first

\* The line of a position.
LineOf(i) ==
    LET before == {k \in 1 .. i - 1 : text[k] = "\n"}
        behind == {k \in i .. Len(text) : text[k] = "\n"}
    IN  (IF before = {} THEN 1 ELSE Max(before)) .. (IF behind = {} THEN Len(text) ELSE Min(behind))

\* A character stands behind a sign, or is the sign, and what the sign begins has
\* not ended there.
Behind(i, sign, ends) ==
    \E k \in 1 .. i : text[k] = sign /\ \A j \in k + 1 .. i : text[j] \notin ends

NoName == {text[j] : j \in DOMAIN text} \ Chunked!Names

\* The parser of chunks drops comments up to the end of their line, flow
\* collections up to the first bracket that closes one of their kind, and the names
\* of anchors.
DroppedByChunks(i) ==
    \/ Behind(i, "#", {"\n"})
    \/ Behind(i, "[", {"]"}) \/ Behind(i, "{", {"}"})
    \/ Behind(i, "&", NoName)

\* The parser of lines drops lines without a colon, and those that begin with "#",
\* be it behind blanks or the dots of an end marker.
DroppedByLines(i) ==
    \/ \A k \in LineOf(i) : text[k] # ":"
    \/ \E k \in LineOf(i) :
           text[k] = "#" /\ \A j \in LineOf(i) : j < k => text[j] \in {" ", "\n", "."}

Dropped(i) == IF kind = "chunks" THEN DroppedByChunks(i) ELSE DroppedByLines(i)

\* What is drained from the buffer is in an event: wherever the reader cuts the text,
\* no character of a word is lost but those of Dropped (drain and emit of
\* parse_mapping_entry, parse_plain_scalar, parse_block_scalar_content,
\* parse_quoted_scalar, parse_alias, parse_line; skip_comment, parse_anchor,
\* parse_flow_sequence and parse_flow_mapping take no more than they should).
NothingLost ==
    kind \in {"chunks", "lines"} =>
        \A i \in 1 .. parser.taken :
            text[i] = "a" /\ ~Dropped(i) =>
                \E e \in DOMAIN Events : Events[e].first <= i /\ i <= Events[e].last

\* A document has started before an event and not ended.
InDocument(j) ==
    \E i \in 1 .. j - 1 :
        Events[i].type = "DocumentStart" /\ \A k \in i + 1 .. j - 1 : Events[k].type # "DocumentEnd"

\* The stream starts once, documents do not nest, and nodes come in a document
\* (parse_buffer, parse_document_start and the end marker in
\* parse_document_content, of both parsers).
Framed ==
    kind # "batches" =>
        \A j \in DOMAIN Events :
            CASE Events[j].type = "StreamStart" -> j = 1
              [] Events[j].type = "DocumentStart" -> j > 1 /\ ~InDocument(j)
              [] OTHER -> InDocument(j)

\* An anchor is for a node of its own document: between an anchored node and the
\* name before it no document ends (ParseContext::reset).
AnchorsStay ==
    kind = "chunks" =>
        \A j \in DOMAIN Events : Events[j].anchor =>
            \E n \in 1 .. Events[j].first :
                /\ text[n] = "&"
                /\ \A i \in 1 .. j : Events[i].type = "DocumentEnd" => Events[i].last < n

\* The depth counts the open collections, whatever the brackets, and passes the
\* limit by no more than a batch (push_state, pop_state, and the check in
\* generate_events of parser/streaming.rs).
DepthCounts ==
    kind = "batches" =>
        parser.depth = Len(parser.state_stack) /\ parser.depth <= MaxNesting + BatchSize

\* A callback reader is complete only with nothing left to read or to deliver
\* (is_complete in process_yaml_stream of streaming_async.rs).
CompleteAtEnd ==
    kind = "lines" /\ ~option.polling /\ ended =>
        parser.read = Len(text) /\ parser.taken = parser.read /\ parser.events = <<>>
=============================================================================
