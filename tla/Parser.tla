------------------------------- MODULE Parser -------------------------------
(***************************************************************************)
(* BasicParser (src/parser/mod.rs): from tokens to events.                 *)
(*                                                                         *)
(* process_token takes one token and appends the events it gives rise to.  *)
(* What construct the parser is in, it knows from a state, a stack of      *)
(* states to come back to, and from walks over the events already made:    *)
(* there is no stack of open collections, so that the state and the events *)
(* can disagree.                                                           *)
(*                                                                         *)
(* An event carries its position, what was before it in the text (anchor,  *)
(* tag, %YAML version), the style of a collection, and whether it is an    *)
(* empty scalar the text does not have.  Names of anchors, tag resolution  *)
(* and %TAG, quoted and block scalars and messages are left out.           *)
(***************************************************************************)
EXTENDS Integers, SequencesExt

CONSTANT TokenTypes     \* the types of tokens there are, the scanner's

VARIABLES tokens, parser

ParserStates ==
    {"StreamStart", "StreamEnd", "ImplicitDocumentStart", "DocumentStart", "DocumentContent",
     "BlockMappingKey", "BlockMappingValue", "BlockSequence",
     "FlowMapping", "FlowMappingKey", "FlowMappingValue", "FlowSequence"}

EventTypes ==
    {"StreamStart", "StreamEnd", "DocumentStart", "DocumentEnd", "SequenceStart", "SequenceEnd",
     "MappingStart", "MappingEnd", "Scalar", "Alias"}

\* Lines and columns are 0 where the code has None.
NewBasicParser ==
    [token_index |-> 0, events |-> <<>>, event_index |-> 0,
     state |-> "StreamStart", state_stack |-> <<>>,
     pending_anchor |-> FALSE, pending_anchor_line |-> 0,
     pending_tag |-> FALSE, pending_tag_line |-> 0,
     last_key_marker_line |-> 0, last_key_marker_column |-> 0,
     just_closed_inline_wrap |-> FALSE, inline_wrap_column |-> 0,
     last_token_type |-> "None", last_value_token_line |-> 0,
     yaml_version |-> FALSE, defined_anchors |-> FALSE,
     explicit_key_pending |-> FALSE, implicit_flow_pair_depth |-> 0,
     failed |-> FALSE]

\* The type of a parser.
Events == [type : EventTypes, line : Nat, column : Nat,
           flow : BOOLEAN, anchor : BOOLEAN, tag : BOOLEAN, version : BOOLEAN,
           implicit : BOOLEAN, empty : BOOLEAN]

Parsers ==
    [token_index : Nat, events : Seq(Events), event_index : Nat,
     state : ParserStates, state_stack : Seq(ParserStates),
     pending_anchor : BOOLEAN, pending_anchor_line : Nat,
     pending_tag : BOOLEAN, pending_tag_line : Nat,
     last_key_marker_line : Nat, last_key_marker_column : Nat,
     just_closed_inline_wrap : BOOLEAN, inline_wrap_column : Nat,
     last_token_type : TokenTypes \cup {"None"}, last_value_token_line : Nat,
     yaml_version : BOOLEAN, defined_anchors : BOOLEAN,
     explicit_key_pending : BOOLEAN, implicit_flow_pair_depth : Nat,
     failed : BOOLEAN]

NodeStarts == {"SequenceStart", "MappingStart"}
NodeEnds == {"SequenceEnd", "MappingEnd"}
Leaves == {"Scalar", "Alias"}

FlowMappingStates == {"FlowMapping", "FlowMappingKey", "FlowMappingValue"}

-----------------------------------------------------------------------------
(***************************************************************************)
(* Walks over the events.                                                  *)
(***************************************************************************)

Pieces(events, types, from) == Cardinality({i \in from .. Len(events) : events[i].type \in types})

LastEvent(p, types) == p.events # <<>> /\ Last(p.events).type \in types

\* The index of the last DocumentStart, 0 for none.
LastDocument(events) == Max({0} \cup {i \in DOMAIN events : events[i].type = "DocumentStart"})

\* has_open_document
HasOpenDocument(events) ==
    LastDocument(events) > 0 /\ Pieces(events, {"DocumentEnd"}, LastDocument(events)) = 0

\* The collections open after the events, outermost first, with the nodes each
\* one holds.
Counted(levels) ==
    IF levels = <<>> THEN <<>> ELSE [levels EXCEPT ![Len(levels)].children = @ + 1]

Level(levels, event) ==
    CASE event.type \in {"DocumentStart", "DocumentEnd"} -> <<>>
      [] event.type \in NodeStarts -> Append(levels, [start |-> event.type, children |-> 0])
      [] event.type \in NodeEnds -> Counted(Front(levels))
      [] event.type \in Leaves -> Counted(levels)
      [] OTHER -> levels

Levels(events) == FoldLeft(Level, <<>>, events)

\* Mutant: only the first key is looked at.
OwesFirstValue(level) == level.start = "MappingStart" /\ level.children = 1

OwesValue(level) == level.start = "MappingStart" /\ level.children % 2 = 1

\* innermost_mapping_has_odd_children
OddChildren(p) ==
    LET levels == Levels(p.events) IN levels # <<>> /\ OwesValue(Last(levels))

\* has_unclosed_flow_collection
FlowDepth(depth, event) ==
    CASE event.type \in NodeStarts /\ event.flow -> depth + 1
      [] event.type \in NodeEnds /\ depth > 0 -> depth - 1
      [] OTHER -> depth

UnclosedFlow(events) == FoldLeft(FlowDepth, 0, events) > 0

\* second_root_node_present: the document has a root node, and it is closed.
SecondRoot(events) ==
    LET from == LastDocument(events)
        depth(i) == Pieces(SubSeq(events, 1, i), NodeStarts, from) - Pieces(SubSeq(events, 1, i), NodeEnds, from)
    IN  /\ HasOpenDocument(events)
        /\ depth(Len(events)) = 0
        /\ \E i \in from .. Len(events) : events[i].type \in NodeEnds \cup Leaves /\ depth(i) = 0

\* A mapping since `from` has no end yet.
UnclosedMapping(events, from) ==
    \E i \in (from .. Len(events)) \ {0} :
        /\ events[i].type = "MappingStart"
        /\ Pieces(events, {"MappingStart"}, i) > Pieces(events, {"MappingEnd"}, i)

-----------------------------------------------------------------------------
(***************************************************************************)
(* The steps the arms of process_token are made of.                        *)
(***************************************************************************)

Event(type, t) ==
    [type |-> type, line |-> t.line, column |-> t.column, flow |-> FALSE,
     anchor |-> FALSE, tag |-> FALSE, version |-> FALSE, implicit |-> FALSE, empty |-> FALSE]

FlowEvent(type, t) == [Event(type, t) EXCEPT !.flow = TRUE]
Empty(t) == [Event("Scalar", t) EXCEPT !.empty = TRUE]

Push(p, event) == [p EXCEPT !.events = Append(@, event)]

\* Mutant: the properties wait on.
PushNodeKeeping(p, event) ==
    Push(p, [event EXCEPT !.anchor = p.pending_anchor, !.tag = p.pending_tag])

\* The event of a node takes the properties that wait for one.
PushNode(p, event) ==
    [Push(p, [event EXCEPT !.anchor = p.pending_anchor, !.tag = p.pending_tag])
        EXCEPT !.pending_anchor = FALSE, !.pending_tag = FALSE]

HasProperties(p) == p.pending_anchor \/ p.pending_tag

PushIf(condition, p, event) ==
    [p EXCEPT !.events = IF condition THEN Append(@, event) ELSE @]
PushNodeIf(condition, p, event) == IF condition THEN PushNode(p, event) ELSE p

Goto(p, state) == [p EXCEPT !.state = state]
Save(p) == [p EXCEPT !.state_stack = Append(@, p.state)]
SaveIf(states, p) ==
    [p EXCEPT !.state_stack = IF p.state \in states THEN Append(@, p.state) ELSE @]

SavedIs(p, state) == p.state_stack # <<>> /\ Last(p.state_stack) = state
Restore(p) == [p EXCEPT !.state = Last(p.state_stack), !.state_stack = Front(@)]

\* A collection is over: back to the state that was saved when it began.
Resume(p) == IF p.state_stack = <<>> THEN Goto(p, "DocumentContent") ELSE Restore(p)

\* handle_node_completion
Completed(p) ==
    [p EXCEPT !.state = CASE @ = "BlockMappingValue" -> "BlockMappingKey"
                          [] @ = "FlowMappingValue" -> "FlowMapping"
                          [] OTHER -> @]

\* An implicit document.  Only create_implicit_document_start gives it the
\* directives.
Begin(p, t) ==
    PushIf(p.state = "ImplicitDocumentStart", p, [Event("DocumentStart", t) EXCEPT !.implicit = TRUE])

BeginWithDirectives(p, t) ==
    IF p.state = "ImplicitDocumentStart"
    THEN [Push(p, [Event("DocumentStart", t) EXCEPT !.implicit = TRUE, !.version = p.yaml_version])
             EXCEPT !.yaml_version = FALSE]
    ELSE p

BeginContent(p, t) ==
    IF p.state = "ImplicitDocumentStart" THEN Goto(Begin(p, t), "DocumentContent") ELSE p

\* close_open_collections.  A collection closed here is not counted as a child
\* of the one around it.
Closing(level, t) ==
    (IF OwesValue(level) THEN <<Empty(t)>> ELSE <<>>)
        \o <<Event(IF level.start = "MappingStart" THEN "MappingEnd" ELSE "SequenceEnd", t)>>

\* Mutant: the innermost collection only.
CloseInnermost(p, t) ==
    LET levels == Levels(p.events)
    IN  [p EXCEPT !.events = IF levels = <<>> THEN @ ELSE @ \o Closing(Last(levels), t)]

CloseOpenCollections(p, t) ==
    LET levels == Levels(p.events)
        depth == Len(levels)
    IN  [p EXCEPT !.events = @ \o FlattenSeq([i \in 1 .. depth |-> Closing(levels[depth + 1 - i], t)])]

\* The end of an implicit single pair of a flow sequence.
EndPair(p, t) ==
    IF p.implicit_flow_pair_depth > 0 /\ p.state \in FlowMappingStates /\ SavedIs(p, "FlowSequence")
    THEN [Restore(Push(PushIf(OddChildren(p), p, Empty(t)), Event("MappingEnd", t)))
             EXCEPT !.implicit_flow_pair_depth = @ - 1]
    ELSE p

StartPair(p) == [Save(p) EXCEPT !.implicit_flow_pair_depth = @ + 1]

\* A `key:` at the end of a mapping, with no "?" before it and no ":" after it.
BareKey(p) ==
    /\ p.state = "BlockMappingKey"
    /\ ~p.explicit_key_pending
    /\ OddChildren(p)
    /\ ~LastEvent(p, NodeEnds)

AnotherRoot(p) == p.state = "DocumentContent" /\ SecondRoot(p.events)

-----------------------------------------------------------------------------
(***************************************************************************)
(* The arms of process_token.  `ahead` is the type of the token peek_token *)
(* shows, `next` that token.                                               *)
(***************************************************************************)

Pending == parser.token_index < Len(tokens) /\ ~parser.failed
token == tokens[parser.token_index + 1]
HasNext == parser.token_index + 2 <= Len(tokens)
next == tokens[parser.token_index + 2]
NextIs(types) == HasNext /\ next.type \in types

ColonAhead == NextIs({"Value"})
ColonOnLine == ColonAhead /\ next.line = token.line

OnStreamStart(p, t) == Goto(Push(p, Event("StreamStart", t)), "ImplicitDocumentStart")

\* A key that is a collection gets an empty value, a document without a body
\* an empty root, properties without a node a document of their own.
OnStreamEnd(p, t) ==
    LET valued == PushIf(/\ p.state = "BlockMappingKey" /\ ~p.explicit_key_pending
                         /\ OddChildren(p), p, Empty(t))
        rooted == PushIf(LastEvent(valued, {"DocumentStart"}), valued, Empty(t))
        propertied ==
            IF rooted.state = "ImplicitDocumentStart" /\ HasProperties(rooted)
            THEN Goto(PushNode(BeginWithDirectives(rooted, t), Empty(t)), "DocumentContent")
            ELSE rooted
        ended ==
            IF propertied.state \in {"StreamStart", "ImplicitDocumentStart", "StreamEnd"}
            THEN propertied
            ELSE Push(CloseOpenCollections(propertied, t),
                      [Event("DocumentEnd", t) EXCEPT !.implicit = TRUE])
    IN  Goto(Push(ended, Event("StreamEnd", t)), "StreamEnd")

\* check_directive_context, and one version per document.
OnYamlDirective(p, t) == [p EXCEPT !.yaml_version = TRUE]

\* Mutant: what is open without a node does not count as a document.
EndDocumentIfBegun(p, t, implicit) ==
    IF LastEvent(p, {"DocumentStart"}) THEN p
    ELSE Push(CloseOpenCollections(p, t), [Event("DocumentEnd", t) EXCEPT !.implicit = implicit])

\* A document that is still open ends here.
EndDocument(p, t, implicit) ==
    Push(IF LastEvent(p, {"DocumentStart"}) THEN Push(p, Empty(t)) ELSE CloseOpenCollections(p, t),
         [Event("DocumentEnd", t) EXCEPT !.implicit = implicit])

\* Mutant: the version persists.
OnDocumentStartVersioned(p, t) ==
    LET ended == IF HasOpenDocument(p.events) THEN EndDocument(p, t, TRUE) ELSE p
    IN  [Push(ended, [Event("DocumentStart", t) EXCEPT !.version = p.yaml_version])
            EXCEPT !.state = "DocumentStart"]

OnDocumentStart(p, t) ==
    LET ended == IF HasOpenDocument(p.events) THEN EndDocument(p, t, TRUE) ELSE p
    IN  [Push(ended, [Event("DocumentStart", t) EXCEPT !.version = p.yaml_version])
            EXCEPT !.yaml_version = FALSE, !.state = "DocumentStart"]

OnDocumentEnd(p, t) ==
    Goto(IF HasOpenDocument(p.events) THEN EndDocument(p, t, FALSE) ELSE p, "ImplicitDocumentStart")

OnBlockSequenceStart(p, t) ==
    LET begun == SaveIf({"BlockMappingValue", "BlockMappingKey", "BlockSequence"},
                        BeginWithDirectives(p, t))
    IN  Goto(PushNode(begun, Event("SequenceStart", t)), "BlockSequence")

\* Whether the token starts a mapping or goes on with the one that is open.
CreatesMapping(p) ==
    CASE p.state \in {"ImplicitDocumentStart", "DocumentStart", "BlockMappingValue", "BlockSequence"} -> TRUE
      [] p.state = "DocumentContent" -> ~UnclosedMapping(p.events, LastDocument(p.events))
      [] OTHER -> p.last_token_type \in {"Key", "Value"}

\* Properties on the line of the first key of a root mapping are the key's.
PropertiesOfKey(p) ==
    /\ p.state \notin {"BlockMappingValue", "BlockSequence"}
    /\ NextIs({"Scalar", "Anchor", "Tag"})
    /\ next.line = p.pending_anchor_line

CreateMapping(p, t) ==
    LET begun == SaveIf({"BlockMappingValue", "BlockSequence"}, BeginWithDirectives(p, t))
        started == IF PropertiesOfKey(p)
                   THEN Push(begun, Event("MappingStart", t))
                   ELSE [PushNode(begun, Event("MappingStart", t)) EXCEPT !.pending_anchor_line = 0]
    IN  Goto(started, "BlockMappingKey")

ContinueMapping(p) ==
    IF p.state \in {"DocumentContent", "BlockMappingKey"} THEN Goto(p, "BlockMappingKey")
    ELSE IF SavedIs(p, "BlockMappingValue") THEN Completed(Restore(p))
    ELSE p

OnBlockMappingStart(p, t) == IF CreatesMapping(p) THEN CreateMapping(p, t) ELSE ContinueMapping(p)

OnFlowStart(p, t) ==
    LET type == IF t.type = "FlowSequenceStart" THEN "SequenceStart" ELSE "MappingStart"
        begun == SaveIf({"BlockMappingValue", "BlockMappingKey", "BlockSequence", "FlowSequence"}
                            \cup FlowMappingStates, Begin(p, t))
    IN  Goto(PushNode(begun, FlowEvent(type, t)),
             IF type = "SequenceStart" THEN "FlowSequence" ELSE "FlowMapping")

OnFlowSequenceEnd(p, t) == Completed(Resume(Push(EndPair(p, t), Event("SequenceEnd", t))))

\* A "?" with nothing behind it is an empty key; a key without a value has an
\* empty one.
OnFlowMappingEnd(p, t) ==
    LET keyed == PushIf(/\ p.state = "FlowMappingKey" /\ p.explicit_key_pending
                        /\ ~OddChildren(p), p, Empty(t))
        valued == PushIf(OddChildren(keyed), keyed, Empty(t))
    IN  Completed(Resume(Push(valued, Event("MappingEnd", t))))

\* Mutant: a last entry without content is no entry.
EndBlockSequenceUnfilled(p, t) ==
    Completed(Resume(Push(PushNodeIf(HasProperties(p), p, Empty(t)), Event("SequenceEnd", t))))

EndBlockSequence(p, t) ==
    LET filled == PushNodeIf(HasProperties(p) \/ p.last_token_type = "BlockEntry", p, Empty(t))
    IN  Completed(Resume(Push(filled, Event("SequenceEnd", t))))

\* Without a saved state the events tell whether a mapping is still open.
EndBlockMapping(p, t) ==
    LET valued == PushNodeIf(OddChildren(p), p, Empty(t))
        propertied == PushNodeIf(HasProperties(valued), valued, Empty(t))
        closed == Push(PushIf(OddChildren(propertied), propertied, Empty(t)), Event("MappingEnd", t))
    IN  CASE SavedIs(closed, "BlockMappingValue") -> Completed(Restore(closed))
          [] closed.state_stack = <<>> /\ UnclosedMapping(closed.events, LastDocument(closed.events)) ->
                 Goto(closed, "BlockMappingKey")
          [] OTHER -> Resume(closed)

OnBlockEnd(p, t) ==
    CASE p.state = "BlockSequence" -> EndBlockSequence(p, t)
      [] p.state \in {"BlockMappingKey", "BlockMappingValue"} -> EndBlockMapping(p, t)
      [] OTHER -> p

\* An implicit key opens the mapping it belongs to.
OpenKeyMapping(p, t) ==
    CASE p.state = "BlockSequence" /\ ColonAhead ->
             Goto(PushNode(Save(p), Event("MappingStart", t)), "BlockMappingKey")
      [] p.state = "FlowSequence" /\ ColonAhead ->
             Goto(Push(StartPair(p), FlowEvent("MappingStart", t)), "FlowMappingKey")
      [] p.state = "BlockMappingValue" /\ p.just_closed_inline_wrap /\ ColonOnLine ->
             Goto(Push(Save(p), Event("MappingStart", t)), "BlockMappingKey")
      [] OTHER -> p

\* A key on a line below the ":" before it: that ":" has an empty value.
EmptyValue(p, t) ==
    IF p.state = "BlockMappingValue" /\ p.last_value_token_line # t.line /\ ColonAhead
    THEN Goto(PushNode(p, Empty(t)), "BlockMappingKey")
    ELSE p

OnScalar(p, t) ==
    LET begun == BeginContent(p, t)
        opened == EmptyValue(
            [OpenKeyMapping(begun, t) EXCEPT
                !.just_closed_inline_wrap = @ /\ begun.state # "BlockMappingValue"], t)
        keyed == PushIf(opened.state = "BlockMappingKey" /\ OddChildren(opened), opened, Empty(t))
    IN  Completed(PushNode(keyed, Event("Scalar", t)))

\* An entry without content is an empty scalar; so are properties of an earlier
\* line.
OnBlockEntry(p, t) ==
    LET left == \E l \in {p.pending_anchor_line, p.pending_tag_line} \ {0} : l < t.line
    IN  CASE p.state = "BlockSequence" ->
                 IF p.last_token_type = "BlockEntry" \/ (HasProperties(p) /\ left)
                 THEN [PushNode(p, Empty(t)) EXCEPT !.pending_anchor_line = 0, !.pending_tag_line = 0]
                 ELSE p
          [] p.state = "BlockMappingValue" -> Goto(Push(p, Event("MappingEnd", t)), "BlockSequence")
          [] OTHER -> Goto(PushNode(Begin(p, t), Event("SequenceStart", t)), "BlockSequence")

-----------------------------------------------------------------------------
(***************************************************************************)
(* The arm for ":".                                                        *)
(***************************************************************************)

\* A mapping whose first key is empty.  Where the mapping is the node itself,
\* waiting properties are its own, else the key's.
EmptyKeyMapping(p, t) ==
    Goto(PushNode(Push(p, Event("MappingStart", t)), Empty(t)), "BlockMappingValue")

OpenPairWithEmptyKey(p, t) ==
    Goto(Push(Push(StartPair(p), FlowEvent("MappingStart", t)), Empty(t)), "FlowMappingValue")

\* Mutant: the mapping takes the place of the node.
WrapOver(p, i, flow) ==
    [p EXCEPT !.events = [@ EXCEPT ![i] = [Event("MappingStart", @) EXCEPT !.flow = flow]]]

\* events.insert: a mapping starts before the node at index i.
WrapFrom(p, i, flow) ==
    [p EXCEPT !.events = InsertAt(@, i, [Event("MappingStart", @[i]) EXCEPT !.flow = flow])]

\* Where the node begins that was completed last.
LastNode(events) ==
    Max({i \in DOMAIN events :
            /\ events[i].type \in {"Scalar"} \cup NodeStarts
            /\ Pieces(events, NodeEnds, i + 1) = Pieces(events, NodeStarts, i + 1)})

\* "?" and ":" at one column: the mapping that was the "?" key is complete.
CloseInlineKey(p, t) ==
    IF p.inline_wrap_column = t.column /\ SavedIs(p, "BlockMappingKey") /\ ~OddChildren(p)
    THEN [Restore(Push(p, Event("MappingEnd", t)))
             EXCEPT !.inline_wrap_column = 0, !.just_closed_inline_wrap = TRUE]
    ELSE p

\* "? key :" on one line: the key is a mapping of its own, with or without a
\* node before the ":".
InlineKey(p, t) == p.last_key_marker_line = t.line

OpenInlineKey(p, t) ==
    LET saved == [Save(p) EXCEPT !.last_key_marker_line = 0, !.state = "BlockMappingValue"]
    IN  IF OddChildren(p)
        THEN [WrapFrom(saved, LastNode(p.events), FALSE)
                 EXCEPT !.inline_wrap_column = p.last_key_marker_column]
        ELSE Push(Push(saved, Event("MappingStart", t)), Empty(t))

\* The scalar event before the last one is empty and of this line.
EmptyKeyOnLine(events, line) ==
    LET scalars == {i \in DOMAIN events : events[i].type = "Scalar"}
        earlier == scalars \ {Max(scalars)}
    IN  /\ Cardinality(scalars) > 1
        /\ events[Max(earlier)].empty /\ events[Max(earlier)].line = line

\* "a : b : c"
SecondColon(p, t) ==
    /\ p.state = "BlockMappingKey"
    /\ LET closed == CloseInlineKey(p, t)
       IN  ~InlineKey(closed, t) /\ ~OddChildren(closed)
    /\ p.last_token_type = "Scalar"
    /\ p.last_value_token_line = t.line
    /\ ~EmptyKeyOnLine(p.events, t.line)

ValueOfKey(p, t) ==
    LET closed == CloseInlineKey(p, t)
    IN  IF InlineKey(closed, t) THEN OpenInlineKey(closed, t)
        ELSE Goto(PushNodeIf(~OddChildren(closed), closed, Empty(t)), "BlockMappingValue")

\* A flow collection before the ":" is the key of a pair.
ValueInFlowSequence(p, t) ==
    LET opens(i) == /\ p.events[i].type \in NodeStarts /\ p.events[i].flow
                    /\ Pieces(p.events, NodeEnds, i) = Cardinality(
                           {j \in i .. Len(p.events) : p.events[j].type \in NodeStarts /\ p.events[j].flow})
        key == {i \in DOMAIN p.events : opens(i)}
    IN  IF LastEvent(p, NodeEnds) /\ key # {}
        THEN Goto(WrapFrom(StartPair(p), Max(key), TRUE), "FlowMappingValue")
        ELSE OpenPairWithEmptyKey(p, t)

OnValue(old, t) ==
    LET p == [old EXCEPT !.last_value_token_line = t.line, !.explicit_key_pending = FALSE]
    IN  CASE p.state \in {"ImplicitDocumentStart", "DocumentStart", "DocumentContent"} ->
                 EmptyKeyMapping(BeginWithDirectives(p, t), t)
          [] p.state = "BlockMappingKey" -> ValueOfKey(p, t)
          [] p.state = "BlockSequence" /\ p.last_token_type = "BlockEntry" ->
                 Goto(Push(PushNode(Save(p), Event("MappingStart", t)), Empty(t)), "BlockMappingValue")
          [] p.state = "FlowMappingKey" -> Goto(p, "FlowMappingValue")
          [] p.state = "FlowMapping" ->
                 Goto(PushNodeIf(~OddChildren(p), p, Empty(t)), "FlowMappingValue")
          [] p.state = "FlowSequence" -> ValueInFlowSequence(p, t)
          [] OTHER -> p

-----------------------------------------------------------------------------
OnFlowEntry(p, t) ==
    EndPair(IF p.state \in FlowMappingStates /\ OddChildren(p)
            THEN Goto(PushNode(p, Empty(t)), "FlowMapping") ELSE p, t)

OnAnchor(p, t) ==
    [p EXCEPT !.defined_anchors = TRUE, !.pending_anchor = TRUE, !.pending_anchor_line = t.line]

OnTag(p, t) == [p EXCEPT !.pending_tag = TRUE, !.pending_tag_line = t.line]

OnAlias(p, t) == Completed(Push(BeginContent(p, t), Event("Alias", t)))

OnKey(old, t) ==
    LET p == [old EXCEPT !.explicit_key_pending = TRUE, !.last_key_marker_line = t.line,
                         !.last_key_marker_column = t.column]
    IN  CASE p.state = "DocumentContent" /\ LastEvent(p, {"Scalar"}) /\ UnclosedMapping(p.events, 1) ->
                 Goto(p, "BlockMappingKey")
          [] p.state \in {"FlowMapping", "FlowMappingKey", "BlockMappingKey"} ->
                 IF p.state = "FlowMapping" THEN Goto(p, "FlowMappingKey")
                 ELSE PushIf(OddChildren(p), p, Empty(t))
          [] p.state = "FlowSequence" ->
                 Goto(Push(StartPair(p), FlowEvent("MappingStart", t)), "FlowMappingKey")
          [] OTHER ->
                 Goto(PushNode(SaveIf({"BlockSequence", "BlockMappingValue"}, BeginWithDirectives(p, t)),
                               Event("MappingStart", t)), "BlockMappingKey")

-----------------------------------------------------------------------------
(***************************************************************************)
(* process_token.                                                          *)
(***************************************************************************)

\* The errors of the arms.
Refuses(p, t) ==
    LET type == t.type
        entry == p.last_token_type \in {"Scalar", "FlowSequenceEnd", "FlowMappingEnd"}
    IN  \/ /\ type = "StreamEnd"
           /\ \/ p.state \in {"StreamStart", "ImplicitDocumentStart"} /\ p.yaml_version
              \/ UnclosedFlow(p.events)
              \/ BareKey(p)
        \/ /\ type = "YamlDirective"
           /\ p.state \notin {"StreamStart", "ImplicitDocumentStart"} \/ p.yaml_version
        \/ type \in {"BlockSequenceStart", "BlockMappingStart", "Scalar"} /\ AnotherRoot(p)
        \/ /\ type = "BlockMappingStart" /\ p.state = "DocumentStart"
           /\ p.pending_anchor /\ p.pending_anchor_line = t.line
        \/ type = "BlockEnd" /\ BareKey(p)
        \/ type = "Scalar" /\ entry /\ p.state \in {"BlockSequence", "FlowMapping", "FlowSequence"}
        \/ type = "Scalar" /\ p.state = "FlowSequence" /\ ColonAhead /\ ~ColonOnLine
        \/ type = "Value" /\ SecondColon(p, t)
        \/ /\ type = "FlowEntry"
           /\ p.last_token_type = "FlowEntry" \/ (LastEvent(p, NodeStarts) /\ Last(p.events).flow)
        \/ type = "Anchor" /\ p.pending_anchor
        \/ type = "Alias" /\ (~p.defined_anchors \/ HasProperties(p))
        \/ type = "Key" /\ p.state \in {"StreamStart", "FlowMappingValue", "StreamEnd"}

\* The arms that return before last_token_type is updated.
ReturnsEarly(p, t) ==
    \/ /\ t.type = "Key" /\ p.state = "DocumentContent"
       /\ LastEvent(p, {"Scalar"}) /\ UnclosedMapping(p.events, 1)
    \/ /\ t.type = "BlockEnd" /\ p.state \in {"BlockMappingKey", "BlockMappingValue"}
       /\ p.state_stack = <<>> /\ UnclosedMapping(OnBlockEnd(p, t).events, LastDocument(p.events))

Takes(types) == Pending /\ token.type \in types /\ ~Refuses(parser, token)

Becomes(p) ==
    parser' = [p EXCEPT !.token_index = @ + 1,
                        !.last_token_type = IF ReturnsEarly(parser, token) THEN @ ELSE token.type]

StreamStart == Takes({"StreamStart"}) /\ Becomes(OnStreamStart(parser, token))
StreamEnd == Takes({"StreamEnd"}) /\ Becomes(OnStreamEnd(parser, token))
YamlDirective == Takes({"YamlDirective"}) /\ Becomes(OnYamlDirective(parser, token))
DocumentStart == Takes({"DocumentStart"}) /\ Becomes(OnDocumentStart(parser, token))
DocumentEnd == Takes({"DocumentEnd"}) /\ Becomes(OnDocumentEnd(parser, token))
BlockSequenceStart == Takes({"BlockSequenceStart"}) /\ Becomes(OnBlockSequenceStart(parser, token))
BlockMappingStart == Takes({"BlockMappingStart"}) /\ Becomes(OnBlockMappingStart(parser, token))
BlockEnd == Takes({"BlockEnd"}) /\ Becomes(OnBlockEnd(parser, token))
BlockEntry == Takes({"BlockEntry"}) /\ Becomes(OnBlockEntry(parser, token))
FlowStart == Takes({"FlowSequenceStart", "FlowMappingStart"}) /\ Becomes(OnFlowStart(parser, token))
FlowSequenceEnd == Takes({"FlowSequenceEnd"}) /\ Becomes(OnFlowSequenceEnd(parser, token))
FlowMappingEnd == Takes({"FlowMappingEnd"}) /\ Becomes(OnFlowMappingEnd(parser, token))
FlowEntry == Takes({"FlowEntry"}) /\ Becomes(OnFlowEntry(parser, token))
Key == Takes({"Key"}) /\ Becomes(OnKey(parser, token))
Value == Takes({"Value"}) /\ Becomes(OnValue(parser, token))
Scalar == Takes({"Scalar"}) /\ Becomes(OnScalar(parser, token))
Anchor == Takes({"Anchor"}) /\ Becomes(OnAnchor(parser, token))
Alias == Takes({"Alias"}) /\ Becomes(OnAlias(parser, token))
Tag == Takes({"Tag"}) /\ Becomes(OnTag(parser, token))

\* An error of process_token.  The events so far stay.
RefuseToken ==
    /\ Pending
    /\ Refuses(parser, token)
    /\ parser' = [parser EXCEPT !.token_index = @ + 1, !.failed = TRUE]

process_token ==
    \/ StreamStart \/ StreamEnd \/ YamlDirective \/ DocumentStart \/ DocumentEnd
    \/ BlockSequenceStart \/ BlockMappingStart \/ BlockEnd \/ BlockEntry
    \/ FlowStart \/ FlowSequenceEnd \/ FlowMappingEnd \/ FlowEntry
    \/ Key \/ Value \/ Scalar \/ Anchor \/ Alias \/ Tag
    \/ RefuseToken
=============================================================================
