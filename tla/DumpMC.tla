------------------------------- MODULE DumpMC --------------------------------
(***************************************************************************)
(* Values that are dumped and loaded again: the emitter, then the scanner  *)
(* and the parser on the text it has written, then a reader of their       *)
(* events.                                                                 *)
(*                                                                         *)
(* A caller holds an emitter and calls it several times, some calls on a   *)
(* writer that fails, until the text of one call is loaded; or Yaml::dump, *)
(* dump_with_comments and dump_all (src/yaml.rs) make an emitter for each  *)
(* document.                                                               *)
(*                                                                         *)
(* One step of indentation is one Slot of the scanner: a dash and a blank  *)
(* take two columns, as the default indentation does.                      *)
(***************************************************************************)
EXTENDS FrontEnd, Emitter

CONSTANTS
    Indents,            \* the indentations an emitter is made with
    Styles,             \* ... and those emit_with_style is asked for
    SequenceIndents,    \* ... and those of sequences below a key
    Dumped,             \* the values to dump
    Annotated,          \* the values to dump with comments
    Pairs,              \* the documents of dump_all
    MaxEarlier,         \* bound on calls before the one whose text is loaded
    Room                \* marks and line ends that no text exceeds

VARIABLES
    emitter,        \* the BasicEmitter the caller holds
    style,          \* the indentation it was made with
    earlier,        \* calls so far whose text is not loaded
    call,           \* how the text was written
    values,         \* the values of the text, <<>> until it is written
    output          \* the lines of the text, with contents

dumping == <<emitter, style, earlier, call, values, output>>

\* A text comes from a method, with an indentation.  It is stale when it has to do with
\* anchors of another text.
Writing(method, indent, stale) == [method |-> method, indent |-> indent, stale |-> stale]

DumpInit ==
    /\ style \in Indents
    /\ \E s \in SequenceIndents, anchors, version \in BOOLEAN :
           /\ version => s = Same
           /\ emitter = NewEmitter(style, s, anchors, version)
    /\ earlier = 0
    /\ call = Writing("none", style, FALSE)
    /\ values = <<>>
    /\ output = <<>>
    /\ text = <<>>
    /\ NewFrontEnd
    /\ ~lazy

-----------------------------------------------------------------------------
\* Calls of the emitter.

\* The last line end opens no line.
LinesOf(e) == IF Last(e.lines).marks = <<>> THEN Front(e.lines) ELSE e.lines

TextOf(lines) ==
    [i \in DOMAIN lines |->
        [indent |-> lines[i].indent,
         lexemes |-> [j \in DOMAIN lines[i].marks |-> lines[i].marks[j].lexeme]]]

Load(lines, vs) ==
    /\ output' = lines
    /\ values' = vs
    /\ text' = TextOf(lines)
    /\ UNCHANGED <<position, tokens, indents, flow_level, scanning, parser, lazy, delivered>>

\* A request: a method of the emitter and its argument.
Request(method, commented) == [method |-> method, commented |-> commented]

Requests ==
    {Request("emit", CommentedValue(v, FALSE, FALSE, FALSE)) : v \in Dumped \cup Annotated}
    \cup {Request(m, CommentedValue(v, l, t, i)) :
              m \in {"emit_commented", "emit_with_style", "emit_commented_value_public"},
              v \in Annotated, l, t, i \in BOOLEAN}

\* The emitter behind the call.
Result(method, c, new_style, numbering, e) ==
    CASE method = "emit" -> emit(c.value, numbering, e)
      [] method = "emit_commented" -> emit_commented(c, numbering, e)
      [] method = "emit_with_style" -> emit_with_style(c, new_style, numbering, e)
      [] method = "emit_commented_value_public" -> emit_commented_value_public(c, e)

Indentation(method, new_style, e) == IF method = "emit_with_style" THEN new_style ELSE e.indent

\* An emitter that has written the anchor of a part of the value, or keeps an anchor for
\* the value and an indentation.
Keeps(v, e) ==
    \/ \E p \in DOMAIN v : Repeated(Part(v, p), e)
    \/ Shared(v, e) /\ e.current_indent # 0

Stale(method, v, e) == method = "emit_commented_value_public" /\ Keeps(v, e)

\* A call, on a writer that may fail somewhere; the text of one that does not is loaded,
\* or the caller goes on.
Call ==
    /\ values = <<>>
    /\ \E request \in Requests :
           LET c == request.commented
               method == request.method
               annotated == c.value \in Annotated /\ earlier < MaxEarlier
           IN  \E room \in IF annotated THEN 0 .. Room ELSE {Room},
                  numbering \in Numberings(c.value),
                  new_style \in IF method = "emit_with_style" THEN Styles ELSE {style} :
                   \E done \in {Result(method, c, new_style, numbering, OnWriter(emitter, room))} :
                       /\ emitter' = OnWriter(done, 0)
                       /\ \/ /\ annotated /\ (done.failed \/ room = Room)
                             /\ earlier' = earlier + 1
                             /\ UNCHANGED <<vars, call, values, output>>
                          \/ /\ ~done.failed /\ room = Room
                             /\ Load(LinesOf(done), <<c.value>>)
                             /\ call' = Writing(method, Indentation(method, new_style, emitter),
                                                Stale(method, c.value, emitter))
                             /\ UNCHANGED earlier
    /\ UNCHANGED style

\* Yaml::dump_all: "---" between the documents, each from an emitter of its own.
dump_all ==
    /\ values = <<>> /\ earlier = 0 /\ ~emitter.yaml_version
    /\ \E pair \in Pairs :
           LET separator == [indent |-> 0, marks |-> <<[lexeme |-> "---", content |-> ""]>>]
               lines(v) == LinesOf(emit(v, SetToSeq(SharedIn(v)), OnWriter(emitter, Room)))
           IN  \E written \in {[i \in {1, 2} |-> lines(pair[i])]} :
                   Load(written[1] \o <<separator>> \o written[2], pair)
    /\ UNCHANGED <<emitter, style, earlier, call>>

Loading ==
    /\ values # <<>>
    /\ FrontEndNext
    /\ UNCHANGED dumping

DumpNext == Call \/ dump_all \/ Loading

DumpSpec == DumpInit /\ [][DumpNext]_<<vars, dumping>>

-----------------------------------------------------------------------------
(***************************************************************************)
(* Reading the events back.  The n-th anchor, alias and word of the events *)
(* are those of the text; a reader has them ahead of it, and notes each    *)
(* block collection it reads in full.                                      *)
(***************************************************************************)
Contents(lexemes) ==
    SelectSeq(FlattenSeq([i \in DOMAIN output |-> output[i].marks]),
              LAMBDA m : m.lexeme \in lexemes)

NewReader ==
    [words |-> Contents({"s", "q"}), anchors |-> Contents({"&"}), aliases |-> Contents({"*"}),
     known |-> <<>>, open |-> <<>>, full |-> <<>>, documents |-> <<>>]

Ahead(contents) == IF contents = <<>> THEN "missing" ELSE contents[1].content
Passed(contents) == IF contents = <<>> THEN <<>> ELSE Tail(contents)

\* A value is complete: an item of the innermost open collection, or a document.
Read(r, v) ==
    IF r.open = <<>> THEN [r EXCEPT !.documents = Append(@, v)]
    ELSE [r EXCEPT !.open[Len(r.open)].kids = Append(@, v)]

Collection(label, kids) ==
    IF label = SEQ THEN Build(SEQ, kids)
    ELSE Build(MAP, FoldLeft(LAMBDA es, j : Insert(es, kids[2 * j - 1], kids[2 * j]), <<>>,
                             [j \in 1 .. Len(kids) \div 2 |-> j]))

ReadEvent(r, e) ==
    CASE e.type = "Scalar" /\ e.empty -> Read(r, Leaf(Null))
      [] e.type = "Scalar" /\ ~e.empty -> Read([r EXCEPT !.words = Passed(@)], Leaf(Ahead(r.words)))
      [] e.type = "Alias" ->
             LET name == Ahead(r.aliases)
             IN  Read([r EXCEPT !.aliases = Passed(@)],
                      IF name \in DOMAIN r.known THEN r.known[name] ELSE Leaf("unknown"))
      [] e.type \in NodeStarts ->
             [r EXCEPT !.open = Append(@, [label |-> IF e.type = "SequenceStart" THEN SEQ ELSE MAP,
                                           flow |-> e.flow, anchored |-> e.anchor,
                                           name |-> Ahead(r.anchors), kids |-> <<>>]),
                       !.anchors = IF e.anchor THEN Passed(@) ELSE @]
      [] e.type \in NodeEnds ->
             LET top == Last(r.open)
                 v == Collection(top.label, top.kids)
             IN  Read([r EXCEPT !.open = Front(@),
                                !.full = IF top.flow THEN @ ELSE Append(@, v),
                                !.known = IF top.anchored THEN (top.name :> v) @@ @ ELSE @], v)
      [] OTHER -> r

Loaded == FoldLeft(ReadEvent, NewReader, delivered)

-----------------------------------------------------------------------------
(***************************************************************************)
(* Properties.                                                             *)
(***************************************************************************)

\* Every mapping that is an item of a sequence is one entry with a scalar for a key.
RowsInLine(v) ==
    \A p \in DOMAIN v : v[p] = MAP /\ p # <<>> /\ v[Front(p)] = SEQ =>
        Items(v, p) <= 1 /\ (Items(v, p) = 1 => v[p \o <<1>>] \notin {SEQ, MAP})

\* The text is accepted, and read back it is the values, their entries in order.
Loads == values # <<>> => ~Refused /\ (Accepted => Loaded.documents = values)

\* What is dumped can be loaded and is the same value: nesting and indentation, keys
\* that are collections, anchors in whatever order the HashMap numbers them and comments
\* included, and whatever an earlier call, failed or not, has left in the emitter.  Two
\* kinds of text are excluded: those that emit_commented_value_public writes with
\* anchors an earlier call has left (Keeps), and lines of a mapping below the first,
\* behind a dash, with another indentation than that of a dash and a blank.
DumpLoads ==
    ~call.stale /\ (call.indent = Slot \/ \A i \in DOMAIN values : RowsInLine(values[i])) => Loads

\* Of equal collections below a key or a dash only the first is written out, the
\* others are aliases to it, in the texts of emit, emit_commented and emit_with_style:
\* emit_commented_value_public looks for none.
SharedWrittenOnce ==
    values # <<>> /\ Accepted /\ emitter.emit_anchors /\ Len(values) = 1
        /\ call.method # "emit_commented_value_public" => IsInjective(Loaded.full)

\* "Parse -> serialize -> parse with data consistency" (README.md), whatever "Base
\* indentation" (src/yaml.rs) the caller has chosen.
AnyIndentationLoads == ~call.stale => Loads

\* "Store current style and temporarily update" (src/emitter.rs): a call leaves
\* the indentation of the emitter as it was.
StyleRestored == emitter.indent = style

-----------------------------------------------------------------------------
\* The values of the instances: all of up to three levels with small collections,
\* and collections that share parts.

Scalars == {Leaf("s"), Leaf("t"), Leaf("yes"), Leaf(Null)}

CollectionsOf(keys, parts, width) ==
    {Build(SEQ, kids) : kids \in BoundedSeq(parts, width)}
    \cup {Build(MAP, <<>>)}
    \cup {Build(MAP, <<k, v>>) : k \in keys, v \in parts}
    \cup {Build(MAP, <<k[1], v[1], k[2], v[2]>>) :
             k \in {k \in keys \X keys : width > 1 /\ k[1] # k[2]}, v \in parts \X parts}

DefaultSequenceIndents == {Same, 0, 2 * Slot}

Word1 == Leaf("s")
Small == CollectionsOf({Word1}, {Word1, Leaf("yes")}, 1)
Keys == {Word1, Leaf(Null), Build(SEQ, <<Word1>>), Build(MAP, <<Word1, Word1>>)}
Medium == CollectionsOf(Keys, Small \cup {Word1}, 2)
Large == CollectionsOf({Word1}, CollectionsOf({Word1, Build(SEQ, <<>>)}, Small, 1), 1)

\* Collections whose items are mappings of two entries.
Rows ==
    LET row(v, w) == Build(MAP, <<Word1, v, Leaf("t"), w>>)
        rows == {row(v, w) : v, w \in Small \cup {Word1}}
    IN  CollectionsOf({Word1}, rows, 1) \cup {Build(SEQ, <<Word1, r>>) : r \in rows}

AllValues == Scalars \cup Medium \cup Large \cup Rows

\* Collections, and collections that hold them twice.
Item == Build(SEQ, <<Word1, Leaf("t")>>)
Row == Build(MAP, <<Word1, Item, Leaf("t"), Word1>>)
FewValues == {Word1, Item, Row, Build(SEQ, <<Item, Item>>), Build(SEQ, <<Row, Row>>),
              Build(MAP, <<Word1, Build(MAP, <<Word1, Word1>>),
                           Leaf("t"), Build(SEQ, <<Item, Item>>)>>)}
SoundPairs == (Small \cup Scalars) \X (Small \cup FewValues \cup Scalars)
=============================================================================
