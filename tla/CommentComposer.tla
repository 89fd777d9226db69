-------------------------- MODULE CommentComposer --------------------------
(***************************************************************************)
(* CommentPreservingComposer (src/composer_comments.rs) without the        *)
(* comments it attaches.  Its parser is eager, so every event is visible.  *)
(* The depth is that of compose_node's own calls, one for each event of    *)
(* the stream it passes over included, and each call costs one; items cost *)
(* nothing more.  The style of a scalar is not looked at.                  *)
(***************************************************************************)
EXTENDS ComposerState

store_anchor(c, name) ==
    IF c.failed \/ name = NoAnchor THEN c ELSE [c EXCEPT !.anchors[name] = c.value]

resolve_scalar_type(c, content) ==
    IF IsValueIndicator(content, c.yaml_version) THEN Err(c)
    ELSE Ok(c, Leaf(resolve_plain_scalar(content, c.yaml_version)))

compose_scalar(c, event) == store_anchor(resolve_scalar_type(c, Text(event.value)), event.anchor)

Popped(c) == [c EXCEPT !.alias_expansion_stack = SubSeq(@, 1, Len(@) - 1)]

\* The clone of an alias, charged as far as the charges go.
Clone(c, value, score) ==
    LET expanded == add_alias_materialization(c.tracker, score)
        charged == add_complexity(expanded, score)
    IN  IF ~WithinAliasNodes(expanded) THEN Err([c EXCEPT !.tracker = expanded])
        ELSE IF ~WithinComplexity(charged) THEN Err([c EXCEPT !.tracker = charged])
        ELSE Popped([c EXCEPT !.tracker = charged, !.value = value, !.cloned = @ + NodeCount(value)])

Expand(c, value) ==
    IF value = NoValue THEN Err(Popped(c)) ELSE Clone(c, value, calculate_value_complexity(value))

compose_alias(c, name) ==
    IF name \in Elements(c.alias_expansion_stack) \/ Len(c.alias_expansion_stack) >= MaxAliasDepth
    THEN Err(c)
    ELSE Expand([c EXCEPT !.alias_expansion_stack = Append(@, name)], c.anchors[name])

\* process_merge_key ignores what is no mapping.
process_merge_key(kids, value) ==
    MergedAll(kids, SelectSeq(Sources(value), LAMBDA source : Label(source) = MAP))

RECURSIVE compose_node(_), compose_sequence(_, _), compose_mapping(_, _)

\* The loop of compose_sequence, with the items so far; None is no item.
AddItem(c, items) ==
    IF c.failed THEN c
    ELSE compose_sequence(c, IF c.value = NoValue THEN items ELSE Append(items, c.value))

compose_sequence(c, items) ==
    IF ~HasEvent(c) THEN Ok(c, Build(SEQ, items))
    ELSE IF Sees(c, {"SequenceEnd"}) THEN Ok(Get(c), Build(SEQ, items))
    ELSE AddItem(compose_node(c), items)

\* The loop of compose_mapping, with the entries so far.
AddEntry(c, kids, key) ==
    IF c.failed THEN c
    ELSE IF key = Leaf(MergeKey) THEN compose_mapping(c, process_merge_key(kids, ValueOrNull(c.value)))
    ELSE compose_mapping(c, Insert(kids, key, ValueOrNull(c.value)))

BehindKey(c, kids) ==
    IF c.failed THEN c
    ELSE IF c.value = NoValue THEN Ok(c, Build(MAP, kids))
    ELSE AddEntry(compose_node(c), kids, c.value)

compose_mapping(c, kids) ==
    IF ~HasEvent(c) THEN Ok(c, Build(MAP, kids))
    ELSE IF Sees(c, {"MappingEnd"}) THEN Ok(Get(c), Build(MAP, kids))
    ELSE BehindKey(compose_node(c), kids)

\* The arms of compose_node; structure is passed over by one more call.
Arm(c, event) ==
    CASE event.type = "Scalar" -> compose_scalar(c, event)
      [] event.type = "SequenceStart" -> store_anchor(compose_sequence(c, <<>>), event.anchor)
      [] event.type = "MappingStart" -> store_anchor(compose_mapping(c, <<>>), event.anchor)
      [] event.type = "Alias" -> compose_alias(c, event.anchor)
      [] event.type = "DocumentStart" -> compose_node([c EXCEPT !.yaml_version = event.value])
      [] event.type \in {"StreamStart", "StreamEnd", "DocumentEnd"} -> compose_node(c)
      [] event.type \in {"SequenceEnd", "MappingEnd"} -> Ok(c, NoValue)

Shallower(c) == [c EXCEPT !.current_depth = @ - 1]

compose_node(c) ==
    LET entered == [c EXCEPT !.tracker = add_complexity(@, 1), !.current_depth = @ + 1]
    IN  IF ~WithinComplexity(entered.tracker) THEN Err([c EXCEPT !.tracker = entered.tracker])
        ELSE IF entered.current_depth > MaxDepth THEN Err(entered)
        ELSE IF ~HasEvent(c) THEN Ok(Shallower(entered), NoValue)
        ELSE Shallower(Arm(Get(entered), Got(c)))

\* Mutant: the anchors stay for the next document.
ComposeKeepingAnchors(c) ==
    compose_node([c EXCEPT !.current_depth = 0, !.alias_expansion_stack = <<>>,
                           !.tracker = NewTracker])

\* Every document begins with nothing known.
compose_document(c) ==
    compose_node([c EXCEPT !.current_depth = 0, !.anchors = [n \in Names |-> NoValue],
                           !.alias_expansion_stack = <<>>, !.tracker = NewTracker])
=============================================================================
