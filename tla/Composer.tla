------------------------------ MODULE Composer ------------------------------
(***************************************************************************)
(* BasicComposer (src/composer.rs) turns the parser's events into values,  *)
(* driven by one of its clients: Yaml::load and Yaml::load_all through     *)
(* SafeConstructor (src/yaml.rs, src/constructor.rs), or a caller that     *)
(* holds the composer and calls compose_document and reset directly, also  *)
(* after an error.                                                         *)
(*                                                                         *)
(* The recursion of compose_node, compose_sequence and compose_mapping is  *)
(* the stack `frames`; a return of compose_node is the control state       *)
(* "return" with its Option<Value> in `result`.  An error unwinds the      *)
(* whole stack to the client and leaves every field as it is at that       *)
(* point, which is what the `?` operator does.                             *)
(***************************************************************************)
EXTENDS Values, Limits, EventStream, SequencesExt

CONSTANTS
    Callers,      \* which clients: "load", "load_all", "direct"
    MaxCalls,     \* bound on compose_document and reset calls of a direct client
    BadScalars,   \* tagged contents that apply_tag refuses (an !!int that is none)
    Oversized     \* contents longer than Limits.max_string_length

ASSUME ComposerAssumption ==
    /\ Callers \subseteq {"load", "load_all", "direct"}
    /\ MaxCalls \in Nat
    /\ \A s \in Scalars : s \notin {SEQ, MAP}

VARIABLES
    parser,                 \* self.parser, see EventStream
    anchors,                \* self.anchors: NoValue for a name without an entry
    tracker,                \* self.resource_tracker
    alias_expansion_stack,  \* self.alias_expansion_stack
    current_depth,          \* self.current_depth
    yaml_version,           \* self.yaml_version
    frames,                 \* the collections being composed, innermost last
    pc,                     \* where compose_document is; "idle" between calls
    result,                 \* the Option<Value> just returned by compose_node
    merging,                \* where process_merge_key is
    caller,                 \* the client, one and the same in a behavior
    docs,                   \* the documents the client has received
    outcome,                \* "running", or how the client's call ended
    calls,                  \* calls of a direct client so far
    failed,                 \* some call has failed since the last reset
    materialized            \* nodes cloned through aliases since the last reset

composer == <<anchors, tracker, alias_expansion_stack, current_depth, yaml_version>>
control == <<frames, pc, result, merging>>
client == <<docs, outcome, calls>>
vars == <<parser, composer, control, caller, client, failed, materialized>>

\* No merge is under way.
NoMerge == [value |-> NoValue, element |-> 1, entry |-> 1]

\* What a plain scalar resolves to: the version decides for the YAML 1.1
\* booleans, the scalar "yes" stands for all of them.
compose_scalar(content, version) ==
    CASE content = "" -> Null
      [] content = "yes" /\ version = "1.1" -> "true"
      [] OTHER -> content

\* A plain = is no scalar under YAML 1.1, and a tag may refuse the content.
Refused(content, version) == content \in BadScalars \/ (content = "=" /\ version = "1.1")

ComposerInit ==
    /\ caller \in Callers
    /\ anchors = [n \in Names |-> NoValue]
    /\ tracker = NewTracker
    /\ alias_expansion_stack = <<>>
    /\ current_depth = 0
    /\ yaml_version = "1.2"
    /\ frames = <<>>
    /\ pc = "idle"
    /\ result = NoValue
    /\ merging = NoMerge
    /\ docs = <<>>
    /\ outcome = "running"
    /\ calls = 0
    /\ failed = FALSE
    /\ materialized = 0

Init == parser \in NewParsers /\ ComposerInit

-----------------------------------------------------------------------------
\* Control.

Top == frames[Len(frames)]
Pop == SubSeq(frames, 1, Len(frames) - 1)
WithTop(frame) == [frames EXCEPT ![Len(frames)] = frame]

Goto(label) == pc' = label /\ UNCHANGED <<frames, result, merging>>

\* compose_node returns this Option<Value>.
Return(value) == pc' = "return" /\ result' = value /\ UNCHANGED merging

\* An error reaches the client.
Fail ==
    /\ pc' = "idle"
    /\ frames' = <<>>
    /\ result' = NoValue
    /\ merging' = NoMerge
    /\ failed' = TRUE
    /\ outcome' = IF caller = "direct" THEN "running" ELSE "error"
    /\ UNCHANGED <<docs, calls>>

Proceed == UNCHANGED <<client, failed>>

Consume == parser' \in Followers(parser)

InMapping == frames # <<>> /\ Top.label = MAP
AtValue == InMapping /\ Top.key # NoValue

\* compose_sequence looks before every element, compose_mapping before every key.
AtLoopHead == frames # <<>> /\ ~AtValue

Boundaries == {"DocumentEnd", "DocumentStart", "StreamEnd"}
EndOf(label) == IF label = SEQ THEN "SequenceEnd" ELSE "MappingEnd"

LoopEnds == AtLoopHead /\ (\/ ~check_event(parser)
                           \/ Peeks(parser, Boundaries \cup {EndOf(Top.label)}))

\* compose_node is at its get_event: called by a loop that goes on or for a
\* value, or by itself after an event that makes no node.
Enters == (pc = "node" /\ ~LoopEnds) \/ pc = "again"

Takes(types) == Enters /\ parser.next.type \in types

-----------------------------------------------------------------------------
(***************************************************************************)
(* The client's calls.  load_all asks check_document before each call,     *)
(* load calls once, a direct client calls whenever it likes.               *)
(***************************************************************************)
check_document(p) == p.cached /\ p.next.type # "StreamEnd"

\* compose_document begins: an error of eager parsing comes first.
BeginDocument ==
    /\ pc = "idle" /\ outcome = "running"
    /\ CASE caller = "load_all" -> check_document(parser) /\ calls' = calls
         [] caller = "load" -> calls' = calls
         [] OTHER -> calls < MaxCalls /\ calls' = calls + 1
    /\ ~parser.scanning_error
    /\ Goto("header")
    /\ UNCHANGED <<parser, composer, docs, outcome, failed, materialized>>

ReportScanningError ==
    /\ pc = "idle" /\ outcome = "running"
    /\ caller = "load_all" => check_document(parser)
    /\ caller = "direct" => calls < MaxCalls
    /\ parser.scanning_error
    /\ parser' = TakeScanningError(parser)
    /\ Fail
    /\ UNCHANGED <<composer, materialized>>

\* The loop of parse_yaml_documents is over; no document at all gives Null.
FinishLoadAll ==
    /\ pc = "idle" /\ outcome = "running" /\ caller = "load_all"
    /\ ~check_document(parser)
    /\ outcome' = "ok"
    /\ docs' = IF docs = <<>> THEN <<Leaf(Null)>> ELSE docs
    /\ UNCHANGED <<parser, composer, control, calls, failed, materialized>>

\* Mutant: reset leaves the names of unfinished expansions.
ResetKeepingStack ==
    /\ pc = "idle" /\ caller = "direct" /\ calls < MaxCalls
    /\ calls' = calls + 1
    /\ anchors' = [n \in Names |-> NoValue]
    /\ tracker' = NewTracker
    /\ current_depth' = 0
    /\ failed' = FALSE
    /\ materialized' = 0
    /\ UNCHANGED <<parser, alias_expansion_stack, yaml_version, control, docs, outcome>>

\* BasicComposer::reset.  The parser and yaml_version are not part of it.
Reset ==
    /\ pc = "idle" /\ caller = "direct" /\ calls < MaxCalls
    /\ calls' = calls + 1
    /\ anchors' = [n \in Names |-> NoValue]
    /\ tracker' = NewTracker
    /\ alias_expansion_stack' = <<>>
    /\ current_depth' = 0
    /\ failed' = FALSE
    /\ materialized' = 0
    /\ UNCHANGED <<parser, yaml_version, control, docs, outcome>>

-----------------------------------------------------------------------------
(***************************************************************************)
(* The loops of compose_document around the node.                          *)
(***************************************************************************)

\* Mutant: the loop peeks and never gets.
HeaderPeeksOnly ==
    /\ pc = "header"
    /\ Peeks(parser, {"DocumentStart"})
    /\ yaml_version' = parser.next.value
    /\ Proceed
    /\ UNCHANGED <<parser, anchors, tracker, alias_expansion_stack, current_depth, control, materialized>>

\* The peek loop before the node: a visible DocumentStart is consumed and its
\* version taken.
HeaderDocumentStart ==
    /\ pc = "header"
    /\ Peeks(parser, {"DocumentStart"})
    /\ yaml_version' = parser.next.value
    /\ Consume
    /\ Proceed
    /\ UNCHANGED <<anchors, tracker, alias_expansion_stack, current_depth, control, materialized>>

HeaderDone ==
    /\ pc = "header"
    /\ ~Peeks(parser, {"DocumentStart"})
    /\ Goto("node")
    /\ Proceed
    /\ UNCHANGED <<parser, composer, materialized>>

\* Mutant: there is no loop after the node.
FooterBlind == FALSE

\* The peek loop after the node.
FooterSees == Peeks(parser, {"DocumentEnd"})

FooterDocumentEnd ==
    /\ pc = "footer"
    /\ FooterSees
    /\ Consume
    /\ Proceed
    /\ UNCHANGED <<composer, control, materialized>>

\* SafeConstructor: validate_value looks at the size of every collection,
\* apply_safety_rules at the length of every string.
Validates(v) ==
    \A p \in DOMAIN v :
        /\ v[p] \in {SEQ, MAP} => Items(v, p) <= MaxCollectionSize
        /\ v[p] \notin Oversized

\* compose_document returns `result`; what the client makes of it.
ReturnDocument ==
    /\ pc = "footer"
    /\ ~FooterSees
    /\ caller # "direct" /\ result # NoValue => Validates(result)
    /\ pc' = "idle"
    /\ result' = NoValue
    /\ IF result # NoValue
       THEN docs' = Append(docs, result) /\ outcome' = IF caller = "load" THEN "ok" ELSE outcome
       ELSE /\ docs' = IF caller # "direct" /\ docs = <<>> THEN <<Leaf(Null)>> ELSE docs
            /\ outcome' = IF caller = "direct" THEN outcome ELSE "ok"
    /\ UNCHANGED <<parser, composer, frames, merging, calls, failed, materialized>>

RefuseDocument ==
    /\ pc = "footer"
    /\ ~FooterSees
    /\ caller # "direct" /\ result # NoValue
    /\ ~Validates(result)
    /\ Fail
    /\ UNCHANGED <<parser, composer, materialized>>

-----------------------------------------------------------------------------
(***************************************************************************)
(* compose_node, one action per kind of event.                             *)
(***************************************************************************)

\* Nothing is left to compose from.
NoMoreEvents ==
    /\ Enters
    /\ ~check_event(parser)
    /\ Return(NoValue)
    /\ Proceed
    /\ UNCHANGED <<parser, composer, frames, materialized>>

\* get_event returns an error, which passes through compose_node.
ParserError ==
    /\ Enters
    /\ CanFault(parser)
    /\ parser' \in AfterFault(parser)
    /\ Fail
    /\ UNCHANGED <<composer, materialized>>

\* Mutant: compose_node calls itself without having taken the event.
RepeatStreamBoundary ==
    /\ Takes({"StreamStart", "StreamEnd"})
    /\ Goto("again")
    /\ Proceed
    /\ UNCHANGED <<parser, composer, materialized>>

SkipStreamBoundary ==
    /\ Takes({"StreamStart", "StreamEnd"})
    /\ Consume
    /\ Goto("again")
    /\ Proceed
    /\ UNCHANGED <<composer, materialized>>

SkipDocumentStart ==
    /\ Takes({"DocumentStart"})
    /\ yaml_version' = parser.next.value
    /\ Consume
    /\ Goto("again")
    /\ Proceed
    /\ UNCHANGED <<anchors, tracker, alias_expansion_stack, current_depth, materialized>>

\* An end event where a node was expected: None.
NoNode ==
    /\ Takes({"DocumentEnd", "SequenceEnd", "MappingEnd"})
    /\ Consume
    /\ Return(NoValue)
    /\ Proceed
    /\ UNCHANGED <<composer, frames, materialized>>

\* A composed node is returned; if it carries an anchor, its value is
\* recorded first.  `rest` are the frames below it.
Complete(value, name, rest) ==
    \/ /\ name = NoAnchor
       /\ frames' = rest
       /\ Return(value)
       /\ Proceed
       /\ UNCHANGED <<anchors, tracker>>
    \/ /\ name # NoAnchor
       /\ tracker' = add_anchor(tracker)
       /\ WithinAnchors(tracker')
       /\ anchors' = [anchors EXCEPT ![name] = value]
       /\ frames' = rest
       /\ Return(value)
       /\ Proceed
    \/ /\ name # NoAnchor
       /\ tracker' = add_anchor(tracker)
       /\ ~WithinAnchors(tracker')
       /\ Fail
       /\ UNCHANGED anchors

ScalarNode ==
    /\ Takes({"Scalar"})
    /\ ~Refused(parser.next.value, yaml_version)
    /\ Consume
    /\ Complete(Leaf(compose_scalar(parser.next.value, yaml_version)), parser.next.anchor, frames)
    /\ UNCHANGED <<alias_expansion_stack, current_depth, yaml_version, materialized>>

\* compose_scalar or compose_tagged_scalar returns an error.
RefuseScalar ==
    /\ Takes({"Scalar"})
    /\ Refused(parser.next.value, yaml_version)
    /\ Consume
    /\ Fail
    /\ UNCHANGED <<composer, materialized>>

\* compose_sequence and compose_mapping up to their loops.
OpenCollection ==
    /\ Takes({"SequenceStart", "MappingStart"})
    /\ Consume
    /\ current_depth' = current_depth + 1
    /\ tracker' = check_depth(tracker, current_depth')
    /\ \/ /\ WithinDepth(tracker')
          /\ frames' = Append(frames,
                 [label |-> IF parser.next.type = "SequenceStart" THEN SEQ ELSE MAP,
                  anchor |-> parser.next.anchor, kids |-> <<>>, key |-> NoValue])
          /\ pc' = "node"
          /\ Proceed
          /\ UNCHANGED <<result, merging>>
       \/ /\ ~WithinDepth(tracker')
          /\ Fail
    /\ UNCHANGED <<anchors, alias_expansion_stack, yaml_version, materialized>>

\* Mutant: the depth is not given back.
CloseTopDeeper ==
    /\ current_depth' = current_depth
    /\ Complete(Build(Top.label, Top.kids), Top.anchor, Pop)
    /\ UNCHANGED <<alias_expansion_stack, yaml_version, materialized>>

\* ... and after them.
CloseTop ==
    /\ current_depth' = current_depth - 1
    /\ Complete(Build(Top.label, Top.kids), Top.anchor, Pop)
    /\ UNCHANGED <<alias_expansion_stack, yaml_version, materialized>>

\* The loop sees its end event and consumes it, or a boundary of the document
\* and leaves it, or the stream is over.
EndCollection ==
    /\ pc = "node"
    /\ LoopEnds
    /\ IF Peeks(parser, {EndOf(Top.label)}) THEN Consume ELSE UNCHANGED parser
    /\ CloseTop

-----------------------------------------------------------------------------
(***************************************************************************)
(* The alias arm of compose_node.  On the way to the clone the name is on  *)
(* alias_expansion_stack; it is popped by the success and by the unknown   *)
(* anchor, and not by the three limit errors in between.                   *)
(***************************************************************************)
RefuseAlias ==
    /\ Takes({"Alias"})
    /\ \/ parser.next.anchor \in Elements(alias_expansion_stack)
       \/ Len(alias_expansion_stack) >= MaxAliasDepth
       \/ ~CanEnterAlias(tracker)
    /\ Consume
    /\ Fail
    /\ UNCHANGED <<composer, materialized>>

EntersAlias ==
    /\ Takes({"Alias"})
    /\ parser.next.anchor \notin Elements(alias_expansion_stack)
    /\ Len(alias_expansion_stack) < MaxAliasDepth
    /\ CanEnterAlias(tracker)
    /\ Consume

UnknownAlias ==
    /\ EntersAlias
    /\ anchors[parser.next.anchor] = NoValue
    /\ tracker' = exit_alias(enter_alias(tracker))
    /\ Fail
    /\ UNCHANGED <<anchors, alias_expansion_stack, current_depth, yaml_version, materialized>>

ShallowEnough(value) == calculate_structure_depth(value) <= MaxAliasDepth

\* The tracker once the value has been charged, as far as the charges go.
ChargeAlias(t, value) ==
    LET score == calculate_value_complexity(value)
        expanded == add_alias_materialization(t, score)
    IN  IF ~ShallowEnough(value) THEN t
        ELSE IF WithinAliasNodes(expanded) THEN add_complexity(expanded, score) ELSE expanded

\* Mutant: the cumulative budget is charged and not compared.
AliasAcceptedUncapped(t, value) ==
    /\ ShallowEnough(value)
    /\ WithinComplexity(t)

AliasAccepted(t, value) ==
    /\ ShallowEnough(value)
    /\ WithinAliasNodes(t)
    /\ WithinComplexity(t)

OverLimitAlias ==
    /\ EntersAlias
    /\ LET value == anchors[parser.next.anchor]
       IN  /\ value # NoValue
           /\ tracker' = ChargeAlias(enter_alias(tracker), value)
           /\ ~AliasAccepted(tracker', value)
    /\ alias_expansion_stack' = Append(alias_expansion_stack, parser.next.anchor)
    /\ Fail
    /\ UNCHANGED <<anchors, current_depth, yaml_version, materialized>>

ExpandAlias ==
    /\ EntersAlias
    /\ LET value == anchors[parser.next.anchor]
           charged == ChargeAlias(enter_alias(tracker), value)
       IN  /\ value # NoValue
           /\ AliasAccepted(charged, value)
           /\ tracker' = exit_alias(charged)
           /\ materialized' = materialized + NodeCount(value)
           /\ Return(value)
    /\ Proceed
    /\ UNCHANGED <<anchors, alias_expansion_stack, current_depth, yaml_version, frames>>

-----------------------------------------------------------------------------
(***************************************************************************)
(* compose_node has returned to its caller.                                *)
(***************************************************************************)
ReturnToDocument ==
    /\ pc = "return" /\ frames = <<>>
    /\ Goto("footer")
    /\ Proceed
    /\ UNCHANGED <<parser, composer, materialized>>

\* None where an element or a key was expected: the loop breaks.
ReturnNone ==
    /\ pc = "return" /\ AtLoopHead
    /\ result = NoValue
    /\ CloseTop
    /\ UNCHANGED parser

\* Mutant: an item counts as an item, its nodes are free.
ChargeItemOnly(t, score) == add_collection_item(t)

\* The tracker once an item has been charged, as far as the charges go.
ChargeItem(t, score) ==
    LET item == add_collection_item(t)
    IN  IF WithinItems(item) THEN add_complexity(item, score) ELSE item

\* An item goes into the innermost collection, whose entries become `kids`.
AddItem(score, kids) ==
    /\ tracker' = ChargeItem(tracker, score)
    /\ \/ /\ WithinItems(tracker') /\ WithinComplexity(tracker')
          /\ frames' = WithTop([Top EXCEPT !.kids = kids, !.key = NoValue])
          /\ pc' = "node" /\ result' = NoValue /\ UNCHANGED merging
          /\ Proceed
       \/ /\ ~(WithinItems(tracker') /\ WithinComplexity(tracker'))
          /\ Fail
    /\ UNCHANGED <<parser, anchors, alias_expansion_stack, current_depth, yaml_version, materialized>>

ReturnElement ==
    /\ pc = "return" /\ frames # <<>> /\ Top.label = SEQ
    /\ result # NoValue
    /\ AddItem(1, Append(Top.kids, result))

ReturnKey ==
    /\ pc = "return" /\ InMapping /\ ~AtValue
    /\ result # NoValue
    /\ frames' = WithTop([Top EXCEPT !.key = result])
    /\ pc' = "node" /\ result' = NoValue
    /\ Proceed
    /\ UNCHANGED <<parser, composer, merging, materialized>>

\* Mutant: a missing value is not replaced by Null.
ValueAsReturned == result

ValueOrNull == IF result = NoValue THEN Leaf(Null) ELSE result

ReturnValue ==
    /\ pc = "return" /\ AtValue
    /\ Top.key # Leaf(MergeKey)
    /\ AddItem(2, Insert(Top.kids, Top.key, ValueOrNull))

-----------------------------------------------------------------------------
(***************************************************************************)
(* process_merge_key, one entry at a time.  `merging` is at an entry of a  *)
(* source: the merged value itself, or an element of a merged sequence.  A *)
(* merged entry is not charged to the tracker.                             *)
(***************************************************************************)
BeginMerge ==
    /\ pc = "return" /\ AtValue
    /\ Top.key = Leaf(MergeKey)
    /\ pc' = "merge"
    /\ merging' = [value |-> ValueOrNull, element |-> 1, entry |-> 1]
    /\ result' = NoValue
    /\ Proceed
    /\ UNCHANGED <<parser, composer, frames, materialized>>

\* Whether a source is left: each element of a sequence, or the value alone.
SourceLeft ==
    IF Label(merging.value) = SEQ
    THEN <<merging.element>> \in DOMAIN merging.value
    ELSE merging.element = 1

Source == IF Label(merging.value) = SEQ THEN Child(merging.value, merging.element) ELSE merging.value

EntryLeft == {<<2 * merging.entry - 1>>, <<2 * merging.entry>>} \subseteq DOMAIN Source

\* Only a mapping can be merged, alone or in a sequence.
RefuseMerge ==
    /\ pc = "merge" /\ SourceLeft
    /\ Label(Source) # MAP
    /\ Fail
    /\ UNCHANGED <<parser, composer, materialized>>

MergeEntry ==
    /\ pc = "merge" /\ SourceLeft
    /\ Label(Source) = MAP /\ EntryLeft
    /\ LET k == Child(Source, 2 * merging.entry - 1)
           v == Child(Source, 2 * merging.entry)
       IN  frames' = WithTop([Top EXCEPT !.kids = OrInsert(@, k, v)])
    /\ merging' = [merging EXCEPT !.entry = @ + 1]
    /\ Proceed
    /\ UNCHANGED <<parser, composer, pc, result, materialized>>

NextSource ==
    /\ pc = "merge" /\ SourceLeft
    /\ Label(Source) = MAP /\ ~EntryLeft
    /\ merging' = [merging EXCEPT !.element = @ + 1, !.entry = 1]
    /\ Proceed
    /\ UNCHANGED <<parser, composer, frames, pc, result, materialized>>

EndMerge ==
    /\ pc = "merge" /\ ~SourceLeft
    /\ frames' = WithTop([Top EXCEPT !.key = NoValue])
    /\ pc' = "node"
    /\ merging' = NoMerge
    /\ Proceed
    /\ UNCHANGED <<parser, composer, result, materialized>>

-----------------------------------------------------------------------------
Call == BeginDocument \/ ReportScanningError \/ FinishLoadAll \/ Reset
Frame == HeaderDocumentStart \/ HeaderDone \/ FooterDocumentEnd \/ ReturnDocument \/ RefuseDocument
Node == \/ NoMoreEvents \/ ParserError \/ SkipStreamBoundary \/ SkipDocumentStart \/ NoNode
        \/ ScalarNode \/ RefuseScalar \/ OpenCollection \/ EndCollection
        \/ RefuseAlias \/ UnknownAlias \/ OverLimitAlias \/ ExpandAlias
Returning == \/ ReturnToDocument \/ ReturnNone \/ ReturnElement \/ ReturnKey \/ ReturnValue
             \/ BeginMerge \/ RefuseMerge \/ MergeEntry \/ NextSource \/ EndMerge

Finished == pc = "idle" /\ (outcome # "running" \/ (caller = "direct" /\ calls >= MaxCalls))

\* The program has nothing left to do.
Terminated == Finished /\ UNCHANGED vars

Step == Call \/ Frame \/ Node \/ Returning \/ Terminated

Next == Step /\ UNCHANGED caller

\* A call that has begun runs until it returns: nothing in it waits.
Spec == Init /\ [][Next]_vars /\ WF_vars(Next)

-----------------------------------------------------------------------------
(***************************************************************************)
(* Properties.                                                             *)
(***************************************************************************)

FrameOK(f) ==
    /\ DOMAIN f = {"label", "anchor", "kids", "key"}
    /\ f.label \in {SEQ, MAP}
    /\ f.anchor \in OptNames
    /\ TreeSeq(f.kids)
    /\ OptTree(f.key)

FramesOK(fs) == fs \in Seq(Elements(fs)) /\ \A f \in Elements(fs) : FrameOK(f)

MergingOK ==
    /\ DOMAIN merging = {"value", "element", "entry"}
    /\ IF pc = "merge" THEN IsTree(merging.value) ELSE merging = NoMerge
    /\ merging.element \in Nat /\ merging.entry \in Nat

ComposerOK ==
    /\ DOMAIN anchors = Names /\ \A n \in Names : OptTree(anchors[n])
    /\ tracker \in Trackers
    /\ alias_expansion_stack \in Seq(Names)
    /\ current_depth \in Nat
    /\ materialized \in Nat

ControlOK ==
    /\ FramesOK(frames)
    /\ pc \in {"idle", "header", "node", "again", "return", "merge", "footer"}
    /\ pc \in {"idle", "header", "footer"} => frames = <<>>
    /\ pc = "merge" => InMapping
    /\ OptTree(result)
    /\ MergingOK

ClientOK ==
    /\ TreeSeq(docs)
    /\ outcome \in {"running", "ok", "error"}
    /\ calls \in Nat
    /\ failed \in BOOLEAN

\* The type invariant: every value the composer holds is a tree, whatever
\* the events were.
TypeOK == parser \in Parsers /\ ComposerOK /\ ControlOK /\ ClientOK

\* Alias expansion never clones more nodes than max_total_alias_nodes, in all
\* the calls between two resets, whether or not some of them failed
\* (src/limits.rs add_alias_materialization, called before every clone).
AliasBudget == materialized <= MaxTotalAliasNodes

\* As long as no call has failed, current_depth is the number of collections
\* under construction, on every way out of their loops.  A decrement that
\* one way out forgets would add up over the documents of a stream.
DepthAccounting == ~failed => current_depth = Len(frames) /\ current_depth <= MaxDepth

\* As long as no call has failed, no alias is left on the expansion stack: a
\* name left there makes every later alias to it a "cyclic" one.
TrackingClean == ~failed => alias_expansion_stack = <<>> /\ tracker.alias_depth = 0

\* A load_all that succeeds has read its stream to the end and returns one value
\* for each document that begins in it, or one Null for none: no None of
\* compose_document hides the documents behind it, and none comes twice
\* (src/yaml.rs parse_yaml_documents).  Of a text the scanner refuses there are no
\* events: check_document sees none, the error is never taken and load_all returns
\* one Null; such texts, whose parser is broken from the start, are not meant.
EveryDocumentOnce ==
    outcome = "ok" /\ caller = "load_all" /\ parser.eager /\ ~parser.broken =>
        LET begun == MaxDocuments - parser.documents
        IN  /\ parser.next.type \in {"StreamEnd", "None"}
            /\ Len(docs) = IF begun = 0 THEN 1 ELSE begun

AddNodes(n, value) == n + NodeCount(value)
TotalNodes(values) == FoldLeft(AddNodes, 0, values)

\* What load and load_all return has been paid for: every node that is not a
\* root was charged to complexity_score, cloned and merged nodes included
\* (process_merge_key charges nothing, its source was charged when it was
\* composed or expanded).
DocumentsCharged ==
    caller # "direct" => TotalNodes(docs) <= tracker.complexity_score + Len(docs)
=============================================================================
