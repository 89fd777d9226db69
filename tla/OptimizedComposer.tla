------------------------- MODULE OptimizedComposer -------------------------
(***************************************************************************)
(* ReducedAllocComposer (src/composer_optimized.rs).  Its parser is lazy:  *)
(* an event that is still to be made from tokens is not visible.           *)
(***************************************************************************)
EXTENDS ComposerState

calculate_optimized_structure_depth(value) == calculate_structure_depth(value)
calculate_complexity(value) == calculate_value_complexity(value)

\* The end of each arm that makes a node: an anchor is charged and stored.
store_anchor(c, name) ==
    IF c.failed \/ name = NoAnchor \/ c.value = NoValue THEN c
    ELSE IF ~WithinAnchors(add_anchor(c.tracker)) THEN Err([c EXCEPT !.tracker = add_anchor(@)])
    ELSE [c EXCEPT !.tracker = add_anchor(@), !.anchors[name] = c.value]

compose_scalar_optimized(c, content) ==
    IF content = Quoted THEN Ok(c, Leaf(content))
    ELSE IF IsValueIndicator(content, c.yaml_version) THEN Err(c)
    ELSE Ok(c, Leaf(resolve_plain_scalar(content, c.yaml_version)))

\* "Clean up tracking": reached by the clone and by an unknown anchor, not by
\* the errors of the limits in between.
CleanUp(c) ==
    [c EXCEPT !.alias_expansion_stack = SubSeq(@, 1, Len(@) - 1), !.tracker = exit_alias(@)]

\* Mutant: the charge is not compared.
CloneUncapped(c, value, score) ==
    IF calculate_optimized_structure_depth(value) > MaxAliasDepth THEN Err(c)
    ELSE CleanUp([c EXCEPT !.tracker = add_alias_materialization(@, score),
                           !.value = value, !.cloned = @ + NodeCount(value)])

\* The clone of an alias, charged as far as the charges go.  The code makes the clone, of
\* an Rc, before it charges it: cloned counts the ones that are kept.
Clone(c, value, score) ==
    LET expanded == add_alias_materialization(c.tracker, score)
        charged == add_complexity(expanded, score)
    IN  IF calculate_optimized_structure_depth(value) > MaxAliasDepth THEN Err(c)
        ELSE IF ~WithinAliasNodes(expanded) THEN Err([c EXCEPT !.tracker = expanded])
        ELSE IF ~WithinComplexity(charged) THEN Err([c EXCEPT !.tracker = charged])
        ELSE CleanUp([c EXCEPT !.tracker = charged, !.value = value,
                               !.cloned = @ + NodeCount(value)])

Expand(c, value) ==
    IF value = NoValue THEN Err(CleanUp(c)) ELSE Clone(c, value, calculate_complexity(value))

compose_alias(c, name) ==
    IF \/ name \in Elements(c.alias_expansion_stack)
       \/ Len(c.alias_expansion_stack) >= MaxAliasDepth
       \/ ~CanEnterAlias(c.tracker)
    THEN Err(c)
    ELSE Expand([c EXCEPT !.tracker = enter_alias(@), !.alias_expansion_stack = Append(@, name)],
                c.anchors[name])

\* process_merge_key: mappings only, alone or in a sequence.
CanMerge(value) == \A i \in DOMAIN Sources(value) : Label(Sources(value)[i]) = MAP

\* Mutant: the merged entries come first, whatever the mapping has.
MergeUnder(kids, value) == MergedAll(MergedAll(<<>>, Sources(value)), <<Build(MAP, kids)>>)

process_merge_key(kids, value) == MergedAll(kids, Sources(value))

RECURSIVE compose_node(_), compose_sequence(_, _), compose_mapping(_, _)

\* Behind an element: None ends the sequence.
BehindElement(c, items) ==
    IF c.failed THEN c
    ELSE IF c.value = NoValue THEN Closed(c, SEQ, items)
    ELSE IF ~ItemAllowed(Charged(c.tracker, 1)) THEN Err([c EXCEPT !.tracker = Charged(@, 1)])
    ELSE compose_sequence([c EXCEPT !.tracker = Charged(@, 1)], Append(items, c.value))

\* The loop of compose_sequence, with the items so far.
compose_sequence(c, items) ==
    IF Sees(c, {"SequenceEnd"}) THEN Closed(Get(c), SEQ, items)
    ELSE IF ~HasEvent(c) \/ Sees(c, Boundaries) THEN Closed(c, SEQ, items)
    ELSE BehindElement(compose_node(c), items)

\* Behind a value: a merge key costs nothing.
AddEntry(c, kids, key, value) ==
    IF c.failed THEN c
    ELSE IF key = Leaf(MergeKey)
         THEN IF CanMerge(value) THEN compose_mapping(c, process_merge_key(kids, value)) ELSE Err(c)
    ELSE IF ~ItemAllowed(Charged(c.tracker, 2)) THEN Err([c EXCEPT !.tracker = Charged(@, 2)])
    ELSE compose_mapping([c EXCEPT !.tracker = Charged(@, 2)], Insert(kids, key, value))

BehindValue(c, kids, key) == AddEntry(c, kids, key, ValueOrNull(c.value))

\* Behind a key: None ends the mapping.
BehindKey(c, kids) ==
    IF c.failed THEN c
    ELSE IF c.value = NoValue THEN Closed(c, MAP, kids)
    ELSE BehindValue(compose_node(c), kids, c.value)

\* The loop of compose_mapping, with the entries so far.
compose_mapping(c, kids) ==
    IF Sees(c, {"MappingEnd"}) THEN Closed(Get(c), MAP, kids)
    ELSE IF ~HasEvent(c) \/ Sees(c, Boundaries) THEN Closed(c, MAP, kids)
    ELSE BehindKey(compose_node(c), kids)

\* The arms of compose_node, behind get_event.
Arm(c, event) ==
    CASE event.type \in {"StreamStart", "StreamEnd", "DocumentStart"} -> compose_node(c)
      [] event.type \in {"DocumentEnd", "SequenceEnd", "MappingEnd"} -> Ok(c, NoValue)
      [] event.type = "Scalar" ->
            store_anchor(compose_scalar_optimized(c, event.value), event.anchor)
      [] event.type \in {"SequenceStart", "MappingStart"} /\ ~WithinDepth(Opened(c).tracker) ->
            Err(Opened(c))
      [] event.type = "SequenceStart" /\ WithinDepth(Opened(c).tracker) ->
            store_anchor(compose_sequence(Opened(c), <<>>), event.anchor)
      [] event.type = "MappingStart" /\ WithinDepth(Opened(c).tracker) ->
            store_anchor(compose_mapping(Opened(c), <<>>), event.anchor)
      [] event.type = "Alias" -> compose_alias(c, event.anchor)

compose_node(c) == IF HasEvent(c) THEN Arm(Get(c), Got(c)) ELSE Ok(c, NoValue)

compose_document(c) == SkipEnds(compose_node(SkipStarts(c)))

reset(c) ==
    [c EXCEPT !.anchors = [n \in Names |-> NoValue], !.tracker = NewTracker,
              !.alias_expansion_stack = <<>>, !.current_depth = 0]
=============================================================================
