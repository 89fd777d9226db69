----------------------------- MODULE TreesMC --------------------------------
(***************************************************************************)
(* The front end on texts that are written down from trees, next to what   *)
(* the trees mean.                                                         *)
(***************************************************************************)
EXTENDS FrontEnd

-----------------------------------------------------------------------------
(***************************************************************************)
(* Trees.  A node has a kind, properties, and entries: nodes in a          *)
(* sequence, <<key, value>> in a mapping.  The kinds of collection are      *)
(* "seq", "map" (`key: value`), "?map" (`? key` and `: value` on lines of  *)
(* their own), "[]" and "{}"; those of a leaf "word", "quoted", "alias",   *)
(* "empty".                                                                *)
(***************************************************************************)
Node(kind, anchor, tag, entries) ==
    [kind |-> kind, anchor |-> anchor, tag |-> tag, entries |-> entries]

Word == Node("word", FALSE, FALSE, <<>>)
Nothing == Node("empty", FALSE, FALSE, <<>>)
Anchored == Node("word", TRUE, FALSE, <<>>)
Tagged == Node("word", FALSE, TRUE, <<>>)
QuotedWord == Node("quoted", FALSE, FALSE, <<>>)
AliasNode == Node("alias", FALSE, FALSE, <<>>)

Plain(kind, entries) == Node(kind, FALSE, FALSE, entries)

FlowKinds == {"[]", "{}"}
InFlow(node) == node.kind \in FlowKinds \cup {"word", "quoted", "alias"}

\* Collections of up to `width` of these nodes, with these keys.
Collections(nodes, keys, width) ==
    LET flow == {n \in nodes : InFlow(n)}
        upTo(set) == BoundedSeq(set, width) \ {<<>>}
    IN  {Plain("seq", es) : es \in upTo(nodes)}
        \cup {Plain("map", es) : es \in upTo(keys \X nodes)}
        \cup {Plain("?map", es) : es \in upTo(keys \X (nodes \ {Nothing}))}
        \cup {Plain("[]", es) : es \in BoundedSeq(flow, width)}
        \cup {Plain("{}", es) : es \in BoundedSeq({k \in keys : InFlow(k)} \X flow, width)}

-----------------------------------------------------------------------------
\* The text of a tree.

Line(indent, lexemes) == [indent |-> indent, lexemes |-> lexemes]

Properties(node) ==
    (IF node.anchor THEN <<"&">> ELSE <<>>) \o (IF node.tag THEN <<"!">> ELSE <<>>)

RECURSIVE Inline(_), BlockLines(_, _, _), Behind(_, _, _, _)

\* A node on one line.
Inline(node) ==
    LET entry(i) == IF node.kind = "[]" THEN Inline(node.entries[i])
                    ELSE Inline(node.entries[i][1]) \o <<":">> \o Inline(node.entries[i][2])
        entries == FlattenSeq([i \in DOMAIN node.entries |->
                                   (IF i = 1 THEN <<>> ELSE <<",">>) \o entry(i)])
    IN  Properties(node)
        \o CASE node.kind = "word" -> <<"s">>
             [] node.kind = "quoted" -> <<"q">>
             [] node.kind = "alias" -> <<"*">>
             [] node.kind = "empty" -> <<>>
             [] node.kind = "[]" -> <<"[">> \o entries \o <<"]">>
             [] node.kind = "{}" -> <<"{">> \o entries \o <<"}">>

BlockKinds == {"seq", "map", "?map"}

\* The lines of a block collection.
BlockLines(node, indent, compact) ==
    FlattenSeq([i \in DOMAIN node.entries |->
        LET e == node.entries[i]
            behind(lexemes, n) == Behind(lexemes, n, indent, compact)
        IN  CASE node.kind = "seq" -> behind(<<"-">>, e)
              [] node.kind = "map" -> behind(Inline(e[1]) \o <<":">>, e[2])
              [] node.kind = "?map" -> behind(<<"?">>, e[1]) \o behind(<<":">>, e[2])])

\* The lines of a node behind an indicator.  A block collection stands below
\* it; in compact style it starts on the line of a "-", and a sequence is not
\* indented below a ":".
Behind(lexemes, node, indent, compact) ==
    LET unindented == compact /\ node.kind = "seq" /\ Last(lexemes) = ":"
        below == BlockLines(node, IF unindented THEN indent ELSE indent + Slot, compact)
    IN  IF node.kind \notin BlockKinds
        THEN <<Line(indent, lexemes \o Inline(node))>>
        ELSE IF compact /\ lexemes = <<"-">> /\ Properties(node) = <<>>
        THEN <<Line(indent, lexemes \o below[1].lexemes)>> \o Tail(below)
        ELSE <<Line(indent, lexemes \o Properties(node))>> \o below

\* A document: a %YAML directive, "---", the root, "...", in compact style or not,
\* and which comments it has.
Document(root, version, start, end, compact) ==
    [root |-> root, version |-> version, start |-> start, end |-> end, compact |-> compact,
     comments |-> "none"]

\* A comment on each line and one above it: indented like the line, or at the
\* margin.  In the style "colon" there is none above and the text has a colon.
Commented(lines, style) ==
    LET comment == IF style = "colon" THEN "#:" ELSE "#"
        above(l) == IF style = "colon" THEN <<>>
                    ELSE <<Line(IF style = "margin" THEN 0 ELSE l.indent, <<comment>>)>>
        on(l) == IF l.lexemes[1] \in {"%", "..."} THEN l
                 ELSE Line(l.indent, Append(l.lexemes, comment))
    IN  IF style = "none" THEN lines
        ELSE FlattenSeq([i \in DOMAIN lines |-> above(lines[i]) \o <<on(lines[i])>>])

LineIf(condition, lexemes) == IF condition THEN <<Line(0, lexemes)>> ELSE <<>>

DocumentLines(d) ==
    LineIf(d.version, <<"%">>)
    \o LineIf(d.start, <<"---">>)
    \o (IF d.root.kind \in BlockKinds
        THEN LineIf(Properties(d.root) # <<>>, Properties(d.root))
             \o BlockLines(d.root, 0, d.compact)
        ELSE LineIf(Inline(d.root) # <<>>, Inline(d.root)))
    \o LineIf(d.end, <<"...">>)

DocumentText(d) == Commented(DocumentLines(d), d.comments)

TextOf(stream) == FlattenSeq([i \in DOMAIN stream |-> DocumentText(stream[i])])

-----------------------------------------------------------------------------
\* The meaning of a tree: its events, without positions.

Meaning(type, anchor, tag, flow, empty) ==
    [type |-> type, anchor |-> anchor, tag |-> tag, flow |-> flow, empty |-> empty,
     version |-> FALSE, implicit |-> FALSE]

Mark(type) == Meaning(type, FALSE, FALSE, FALSE, FALSE)

RECURSIVE EventsOf(_)
EventsOf(node) ==
    LET sequence == node.kind \in {"seq", "[]"}
        begin == IF sequence THEN "SequenceStart" ELSE "MappingStart"
        end == IF sequence THEN "SequenceEnd" ELSE "MappingEnd"
        within == FlattenSeq([i \in DOMAIN node.entries |->
                      IF sequence THEN EventsOf(node.entries[i])
                      ELSE EventsOf(node.entries[i][1]) \o EventsOf(node.entries[i][2])])
    IN  CASE node.kind = "alias" -> <<Mark("Alias")>>
          [] node.kind \in {"word", "quoted", "empty"} ->
                 <<Meaning("Scalar", node.anchor, node.tag, FALSE, node.kind = "empty")>>
          [] OTHER -> <<Meaning(begin, node.anchor, node.tag, node.kind \in FlowKinds, FALSE)>>
                      \o within \o <<Mark(end)>>

DocumentEvents(d) ==
    <<[Mark("DocumentStart") EXCEPT !.version = d.version, !.implicit = ~d.start]>>
    \o EventsOf(d.root)
    \o <<[Mark("DocumentEnd") EXCEPT !.implicit = ~d.end]>>

EventsOfStream(stream) ==
    <<Mark("StreamStart")>>
    \o FlattenSeq([i \in DOMAIN stream |-> DocumentEvents(stream[i])])
    \o <<Mark("StreamEnd")>>

MeaningOf(e) ==
    [type |-> e.type, anchor |-> e.anchor, tag |-> e.tag, flow |-> e.flow, empty |-> e.empty,
     version |-> e.version, implicit |-> e.implicit]

-----------------------------------------------------------------------------
Alone(root, compact) == <<Document(root, FALSE, FALSE, FALSE, compact)>>

\* Collections of collections of words and empty nodes.
Flat == Collections({Word, Nothing}, {Word}, 2)
Deep == Collections(Flat \cup {Word, Nothing}, {Word}, 2)

\* Every mixture of properties on leaves, keys and collections.
Marked(nodes) ==
    {[n EXCEPT !.anchor = a, !.tag = t] : n \in nodes, a \in BOOLEAN, t \in BOOLEAN}
MarkedFlat == Marked(Collections(Marked({Word, Nothing}) \cup {AliasNode}, Marked({Word}), 1))
MarkedDeep ==
    Marked(Collections(MarkedFlat \cup {Word}, {Word}, 1)
               \cup Collections(Marked({Word}) \cup {AliasNode}, {Word, Anchored, AliasNode}, 2))

\* Four levels of collections.
Chain == Collections(Collections(Collections(Collections({Word}, {Word}, 1), {Word}, 1), {Word}, 1), {Word}, 1)

\* Two documents.  The second begins with "---", its %YAML directive only
\* behind a "...".
Simple == {Word, Nothing} \cup Collections({Word}, {Word}, 2)
Nested == {Word} \cup Collections(Collections({Word}, {Word}, 1), {Word}, 1)
Pairs(first, second) ==
    {<<Document(r1, v1, TRUE, e1, FALSE), Document(r2, v2, TRUE, e2, FALSE)>> :
        r1 \in first, r2 \in second, v1, v2, e1, e2 \in BOOLEAN}
TwoDocuments(first, second) == {p \in Pairs(first, second) : p[2].version => p[1].end}

\* An alias comes after an anchor.
AliasesDefined(events) ==
    \A i \in DOMAIN events : events[i].type = "Alias" => \E j \in 1 .. i : events[j].anchor

\* These roots, and their compact texts where those differ.
Written(roots) ==
    {Alone(root, FALSE) : root \in roots}
    \cup {d \in {Alone(root, TRUE) : root \in roots} : TextOf(d) # TextOf(Alone(d[1].root, FALSE))}

WithComments(streams, style) ==
    {[d \in DOMAIN s |-> [s[d] EXCEPT !.comments = style]] : s \in streams}

\* What is written with comments.
Annotated ==
    Written(Chain \cup Collections({QuotedWord, Nothing}, {Word}, 2)
                  \cup Collections(Collections({QuotedWord}, {QuotedWord}, 1), {Word}, 2))
        \cup TwoDocuments(Simple, {Word})

\* One document of every shape, two documents with every mixture of markers.
SoundStreams ==
    WithComments(Annotated, "indented") \cup Annotated \cup
    {d \in Written({Word} \cup Deep \cup Chain \cup MarkedDeep) : AliasesDefined(EventsOfStream(d))}
    \cup {p \in TwoDocuments(Simple, Simple \cup Nested) : p[2].end => p[2].root \in Simple}

\* A first document whose collections "---" has to end.
CutStreams == TwoDocuments(Nested, {Word})

\* Documents whose comments are not indented like the lines below them, or look
\* like keys.
Careless ==
    WithComments({Alone(Word, FALSE)}, "colon")
    \cup WithComments(Written(Nested), "margin")

CONSTANT Streams    \* one of these

TreeTexts == {TextOf(d) : d \in Streams}

VARIABLE documents    \* what the text was written from

TreesInit ==
    /\ documents \in Streams
    /\ text = TextOf(documents)
    /\ NewFrontEnd

TreesNext == FrontEndNext /\ UNCHANGED documents
TreesSpec == TreesInit /\ [][TreesNext]_<<vars, documents>>

-----------------------------------------------------------------------------
(***************************************************************************)
(* Properties.                                                             *)
(***************************************************************************)

\* A text written down from trees is not refused, and what the consumer is given
\* is the trees: nesting, styles, empty nodes, and properties at their nodes,
\* whatever route through inserted events and synthesised ends it took.
RoundTrip ==
    /\ ~Refused
    /\ Accepted => EventsOfStream(documents) = [i \in DOMAIN delivered |-> MeaningOf(delivered[i])]

\* "Skip empty lines and comments" (src/scanner/mod.rs): with its comments, a text
\* means what it means without.
CommentsIgnored == RoundTrip

\* Empty scalars are synthesised where the text lacks a node, nowhere else.
NothingInvented ==
    LET empties(events) == Cardinality({i \in DOMAIN events : events[i].empty})
    IN  empties(parser.events) <= empties(EventsOfStream(documents))
=============================================================================
