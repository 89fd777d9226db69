--------------------------- MODULE ComposerProofs ---------------------------
(***************************************************************************)
(* The safety properties of Composer, for every limit, every client, every *)
(* set of names and scalars and streams of any length.                     *)
(***************************************************************************)
EXTENDS Composer, ValuesProofs, EventStreamProofs

-----------------------------------------------------------------------------
\* The inductive invariant.  current_depth covers the stack whether or not a
\* call has failed: without that the depth a loop gives back could be below
\* zero.  The budget of the tracker covers what was cloned: the score charged
\* for a value is never below its number of nodes.
DepthCovers == current_depth >= Len(frames)
Charged == materialized <= tracker.total_alias_nodes

IInv == /\ TypeOK /\ DepthCovers
        /\ Charged /\ AliasBudget
        /\ DepthAccounting /\ TrackingClean

-----------------------------------------------------------------------------
\* The stack of collections under construction.

\* A sequence of frames is in order when its members are.
LEMMA FramesIntro ==
    ASSUME NEW S, NEW fs \in Seq(S), \A f \in S : FrameOK(f)
    PROVE  FramesOK(fs)
<1>1. Elements(fs) = Range(fs)
  BY DEF Elements, Range
<1>2. fs \in Seq(Elements(fs)) /\ Elements(fs) \subseteq S
  BY <1>1, SeqOfRange, RangeOfSeq
<1> QED
  BY <1>2 DEF FramesOK

\* No frames are in order.
LEMMA FramesEmpty == FramesOK(<<>>)
<1>1. Elements(<<>>) = {}
  BY DEF Elements
<1> QED
  BY <1>1, EmptySeq DEF FramesOK

\* The top frame of frames in order is in order.
LEMMA FramesTop ==
    ASSUME FramesOK(frames), frames # <<>>
    PROVE  /\ Len(frames) \in Nat \ {0}
           /\ Len(frames) \in DOMAIN frames
           /\ FrameOK(Top)
<1>1. frames \in Seq(Elements(frames))
  BY DEF FramesOK
<1>2. Len(frames) \in Nat \ {0} /\ DOMAIN frames = 1 .. Len(frames)
  BY <1>1, EmptySeq, LenProperties
<1>3. Top \in Elements(frames)
  BY <1>2 DEF Top, Elements
<1> QED
  BY <1>2, <1>3 DEF FramesOK

\* A frame in order may be pushed.
LEMMA FramesPush ==
    ASSUME FramesOK(frames), NEW f, FrameOK(f)
    PROVE  FramesOK(Append(frames, f)) /\ Len(Append(frames, f)) = Len(frames) + 1
<1> DEFINE S == Elements(frames) \cup {f}
<1>1. frames \in Seq(S)
  BY SeqMonotonic DEF FramesOK
<1>2. Append(frames, f) \in Seq(S) /\ Len(Append(frames, f)) = Len(frames) + 1
  BY <1>1, AppendProperties
<1>3. \A g \in S : FrameOK(g)
  BY DEF FramesOK
<1> QED
  BY <1>2, <1>3, FramesIntro

\* A frame pushed is one frame more.
LEMMA AppendLen ==
    ASSUME FramesOK(frames), NEW f
    PROVE  Len(Append(frames, f)) = Len(frames) + 1
  BY AppendProperties, SeqMonotonic DEF FramesOK

\* Popping a frame leaves the others in order, one fewer.
LEMMA FramesPop ==
    ASSUME FramesOK(frames), frames # <<>>
    PROVE  FramesOK(Pop) /\ Len(Pop) = Len(frames) - 1
<1>1. Len(frames) \in Nat \ {0} /\ frames \in Seq(Elements(frames))
  BY FramesTop DEF FramesOK
<1>2. \A i \in 1 .. Len(frames) - 1 : frames[i] \in Elements(frames)
  BY <1>1, LenProperties DEF Elements
<1> DEFINE n == Len(frames) - 1
<1>3. n \in Nat /\ \A i \in 1 .. n : frames[i] \in Elements(frames)
  BY <1>1, <1>2
<1> HIDE DEF n
<1>4. SubSeq(frames, 1, n) \in Seq(Elements(frames)) /\ Len(SubSeq(frames, 1, n)) = n
  BY <1>3, SubSeqProperties
<1> QED
  BY <1>4, FramesIntro DEF FramesOK, Pop, n

\* Replacing the top frame leaves their number, and the new one on top.
LEMMA WithTopLen ==
    ASSUME FramesOK(frames), frames # <<>>, NEW f
    PROVE  Len(WithTop(f)) = Len(frames) /\ WithTop(f) # <<>> /\ WithTop(f)[Len(WithTop(f))] = f
<1> DEFINE S == Elements(frames) \cup {f}
<1>1. frames \in Seq(S) /\ Len(frames) \in 1 .. Len(frames) /\ Len(frames) \in Nat \ {0}
  BY FramesTop, SeqMonotonic DEF FramesOK
<1>2. /\ WithTop(f) \in Seq(S) /\ Len(WithTop(f)) = Len(frames)
      /\ WithTop(f)[Len(frames)] = f
  BY <1>1, ExceptSeq DEF WithTop
<1> QED
  BY <1>1, <1>2, EmptySeq

\* The top frame may be replaced by one in order.
LEMMA FramesWithTop ==
    ASSUME FramesOK(frames), frames # <<>>, NEW f, FrameOK(f)
    PROVE  /\ FramesOK(WithTop(f))
           /\ Len(WithTop(f)) = Len(frames)
           /\ WithTop(f) # <<>>
           /\ WithTop(f)[Len(WithTop(f))] = f
<1> DEFINE S == Elements(frames) \cup {f}
<1>1. frames \in Seq(S) /\ Len(frames) \in 1 .. Len(frames) /\ Len(frames) \in Nat \ {0}
  BY FramesTop, SeqMonotonic DEF FramesOK
<1>2. /\ WithTop(f) \in Seq(S)
      /\ Len(WithTop(f)) = Len(frames)
      /\ WithTop(f)[Len(frames)] = f
  BY <1>1, ExceptSeq DEF WithTop
<1>3. \A g \in S : FrameOK(g)
  BY DEF FramesOK
<1>4. WithTop(f) # <<>>
  BY <1>1, <1>2, EmptySeq
<1> QED
  BY <1>2, <1>3, <1>4, FramesIntro

-----------------------------------------------------------------------------
\* The charging methods of the tracker.

\* The tracker's operations (src/limits.rs) give trackers.
LEMMA TrackerOps ==
    ASSUME NEW t \in Trackers, NEW n \in Nat
    PROVE  /\ check_depth(t, n) \in Trackers
           /\ add_anchor(t) \in Trackers
           /\ enter_alias(t) \in Trackers
           /\ exit_alias(t) \in Trackers
           /\ add_collection_item(t) \in Trackers
           /\ add_complexity(t, n) \in Trackers
           /\ add_alias_materialization(t, n) \in Trackers
<1>1. check_depth(t, n) \in Trackers
  BY DEF Trackers, check_depth
<1>2. exit_alias(t) \in Trackers
  BY DEF Trackers, exit_alias
<1> QED
  BY <1>1, <1>2 DEF Trackers, add_anchor, enter_alias, add_collection_item, add_complexity,
                    add_alias_materialization

\* Charging an item gives a tracker.
LEMMA ChargeItemTyped ==
    ASSUME NEW t \in Trackers, NEW score \in Nat
    PROVE  ChargeItem(t, score) \in Trackers
  BY TrackerOps DEF ChargeItem

\* Charging the copy of an anchored value gives a tracker.
LEMMA ChargeAliasTyped ==
    ASSUME NEW t \in Trackers, NEW v, IsTree(v)
    PROVE  ChargeAlias(t, v) \in Trackers
<1>1. calculate_value_complexity(v) \in Nat
  BY ComplexityCoversNodes
<1> QED
  BY <1>1, TrackerOps DEF ChargeAlias

-----------------------------------------------------------------------------
\* The ways an action leaves compose_node.

\* The empty merge has the fields of one.
LEMMA NothingMerged == NoMerge.element \in Nat /\ NoMerge.entry \in Nat
                       /\ DOMAIN NoMerge = {"value", "element", "entry"}
  BY DEF NoMerge

\* An error leaves the composer idle and the client with what it had.
LEMMA FailTyped ==
    ASSUME ControlOK, ClientOK, Fail
    PROVE  ControlOK' /\ ClientOK'
<1>1. FramesOK(frames')
  BY FramesEmpty DEF Fail
<1>2. ControlOK'
  BY <1>1, NothingMerged DEF Fail, ControlOK, OptTree, MergingOK
<1>3. ClientOK'
  BY DEF Fail, ClientOK
<1> QED
  BY <1>2, <1>3

\* Going on with the call keeps the client typed.
LEMMA ProceedTyped == ASSUME ClientOK, Proceed PROVE ClientOK'
  BY DEF ClientOK, Proceed, client

\* Going on at a label keeps the control typed.
LEMMA GotoTyped ==
    ASSUME ControlOK, NEW label, Goto(label), pc # "merge",
           label \in {"node", "again"} \/ (label \in {"header", "footer"} /\ frames = <<>>)
    PROVE  ControlOK'
  BY DEF ControlOK, Goto, MergingOK

\* A value or None is returned over well-formed frames.
LEMMA ReturnTyped ==
    ASSUME ControlOK, NEW value, OptTree(value), Return(value), pc # "merge", FramesOK(frames')
    PROVE  ControlOK'
  BY DEF ControlOK, Return, MergingOK

\* Handing a finished value to what waits for it keeps the types.
LEMMA CompleteTyped ==
    ASSUME ComposerOK, ControlOK, ClientOK, pc # "merge",
           NEW value, IsTree(value), NEW name \in OptNames, NEW rest, FramesOK(rest),
           Complete(value, name, rest)
    PROVE  /\ DOMAIN anchors' = Names
           /\ \A n \in Names : OptTree(anchors'[n])
           /\ tracker' \in Trackers
           /\ ControlOK'
           /\ ClientOK'
<1>1. OptTree(value)
  BY DEF OptTree
<1>2. CASE frames' = rest /\ Return(value) /\ Proceed
  <2>1. ControlOK' /\ ClientOK'
    BY <1>1, <1>2, ReturnTyped, ProceedTyped
  <2>2. CASE name = NoAnchor
    BY <1>2, <2>1, <2>2 DEF Complete, ComposerOK, Fail, Return
  <2>3. CASE name # NoAnchor
    <3>1. tracker' \in Trackers
      BY <2>3, TrackerOps DEF Complete, ComposerOK
    <3>2. name \in Names
      BY <2>3 DEF OptNames
    <3>3. anchors' = [anchors EXCEPT ![name] = value]
      BY <1>2, <2>3 DEF Complete, Fail, Return
    <3> QED
      BY <1>1, <2>1, <3>1, <3>2, <3>3 DEF ComposerOK
  <2> QED
    BY <2>2, <2>3
<1>3. CASE Fail /\ UNCHANGED anchors /\ tracker' = add_anchor(tracker)
  BY <1>3, FailTyped, TrackerOps DEF ComposerOK
<1> QED
  BY <1>2, <1>3 DEF Complete

-----------------------------------------------------------------------------
\* A collection is closed: its value is returned to the collection around it.
LEMMA CloseTopTyped ==
    ASSUME ComposerOK, ControlOK, ClientOK, DepthCovers, pc # "merge", frames # <<>>, CloseTop
    PROVE  ComposerOK' /\ ControlOK' /\ ClientOK'
<1>1. FramesOK(frames)
  BY DEF ControlOK
<1>2. FrameOK(Top) /\ Len(frames) \in Nat \ {0} /\ FramesOK(Pop)
  BY <1>1, FramesTop, FramesPop
<1>3. IsTree(Build(Top.label, Top.kids)) /\ Top.anchor \in OptNames
  BY <1>2, BuildIsTree DEF FrameOK
<1>4. Complete(Build(Top.label, Top.kids), Top.anchor, Pop)
  BY DEF CloseTop
<1>5. current_depth' \in Nat
  BY <1>2 DEF CloseTop, DepthCovers, ComposerOK
<1>6. alias_expansion_stack' \in Seq(Names) /\ materialized' \in Nat
  BY DEF CloseTop, ComposerOK
<1> QED
  BY <1>2, <1>3, <1>4, <1>5, <1>6, CompleteTyped DEF ComposerOK

\* An item is added: the entries of the innermost collection stay trees.
LEMMA AddItemTyped ==
    ASSUME ComposerOK, ControlOK, ClientOK, pc # "merge", frames # <<>>,
           NEW score \in Nat, NEW kids, TreeSeq(kids), AddItem(score, kids)
    PROVE  ComposerOK' /\ ControlOK' /\ ClientOK'
<1>1. tracker' \in Trackers
  BY ChargeItemTyped DEF AddItem, ComposerOK
<1>2. ComposerOK'
  BY <1>1 DEF AddItem, ComposerOK
<1>3. CASE Fail
  BY <1>2, <1>3, FailTyped
<1>4. CASE ~Fail
  <2> DEFINE f == [Top EXCEPT !.kids = kids, !.key = NoValue]
  <2>1. /\ frames' = WithTop(f)
        /\ pc' = "node" /\ result' = NoValue /\ merging' = merging
        /\ Proceed
    BY <1>4 DEF AddItem
  <2>2. FramesOK(frames) /\ FrameOK(Top)
    BY FramesTop DEF ControlOK
  <2>3. FrameOK(f)
    BY <2>2 DEF FrameOK, OptTree
  <2>4. FramesOK(frames')
    BY <2>1, <2>2, <2>3, FramesWithTop
  <2>5. ControlOK'
    BY <2>1, <2>4 DEF ControlOK, OptTree, MergingOK
  <2>6. ClientOK'
    BY <2>1, ProceedTyped
  <2> QED
    BY <1>2, <2>5, <2>6
<1> QED
  BY <1>3, <1>4

\* Taking an event leaves a parser.
LEMMA ConsumeTyped ==
    ASSUME parser \in Parsers, Consume
    PROVE  parser' \in Parsers
  BY FollowersTyped DEF Consume

-----------------------------------------------------------------------------
\* Type correctness, action by action.

\* The client's calls keep the types.
LEMMA CallTyped ==
    ASSUME IInv, Call
    PROVE  TypeOK'
<1> USE DEF IInv, TypeOK
<1>1. CASE BeginDocument
  <2>1. ControlOK'
    BY <1>1, GotoTyped DEF BeginDocument, ControlOK
  <2>2. ClientOK'
    BY <1>1, ComposerAssumption DEF BeginDocument, ClientOK
  <2> QED
    BY <1>1, <2>1, <2>2 DEF BeginDocument, composer, ComposerOK
<1>2. CASE ReportScanningError
  <2>1. parser' \in Parsers
    BY <1>2 DEF ReportScanningError, TakeScanningError, Parsers
  <2> QED
    BY <1>2, <2>1, FailTyped DEF ReportScanningError, composer, ComposerOK
<1>3. CASE FinishLoadAll
  <2>1. TreeSeq(<<Leaf(Null)>>)
    BY LeafIsTree, TreeSeqSingle
  <2>2. ClientOK'
    BY <1>3, <2>1 DEF FinishLoadAll, ClientOK
  <2> QED
    BY <1>3, <2>2 DEF FinishLoadAll, composer, control, ComposerOK, ControlOK, MergingOK, InMapping, Top
<1>4. CASE Reset
  <2>1. ComposerOK'
    BY <1>4, EmptySeq DEF Reset, ComposerOK, OptTree, NewTracker, Trackers
  <2>2. ClientOK'
    <3>1. calls' \in Nat
      BY <1>4 DEF Reset, ClientOK
    <3>2. failed' \in BOOLEAN
      BY <1>4 DEF Reset
    <3> QED
      BY <1>4, <3>1, <3>2 DEF Reset, ClientOK
  <2> QED
    BY <1>4, <2>1, <2>2 DEF Reset, control, ControlOK, MergingOK, InMapping, Top
<1> QED
  BY <1>1, <1>2, <1>3, <1>4 DEF Call

\* The steps of an open collection keep the types.
LEMMA FrameTyped ==
    ASSUME IInv, Frame
    PROVE  TypeOK'
<1> USE DEF IInv, TypeOK
<1>1. CASE HeaderDocumentStart
  <2>1. parser' \in Parsers /\ ClientOK'
    BY <1>1, ConsumeTyped, ProceedTyped DEF HeaderDocumentStart
  <2> QED
    BY <1>1, <2>1 DEF HeaderDocumentStart, control, ComposerOK, ControlOK, MergingOK, InMapping, Top
<1>2. CASE HeaderDone
  <2>1. ControlOK' /\ ClientOK'
    BY <1>2, GotoTyped, ProceedTyped DEF HeaderDone
  <2> QED
    BY <1>2, <2>1 DEF HeaderDone, composer, ComposerOK
<1>3. CASE FooterDocumentEnd
  <2>1. parser' \in Parsers /\ ClientOK'
    BY <1>3, ConsumeTyped, ProceedTyped DEF FooterDocumentEnd
  <2> QED
    BY <1>3, <2>1 DEF FooterDocumentEnd, composer, control, ComposerOK, ControlOK, MergingOK,
                      InMapping, Top
<1>4. CASE ReturnDocument
  <2>1. TreeSeq(<<Leaf(Null)>>)
    BY LeafIsTree, TreeSeqSingle
  <2>2. result # NoValue => TreeSeq(Append(docs, result))
    BY TreeSeqAppend DEF ControlOK, ClientOK, OptTree
  <2>3. ClientOK'
    <3>1. TreeSeq(docs')
      BY <1>4, <2>1, <2>2 DEF ReturnDocument, ClientOK
    <3>2. outcome' \in {"running", "ok", "error"}
      BY <1>4 DEF ReturnDocument, ClientOK
    <3> QED
      BY <1>4, <3>1, <3>2 DEF ReturnDocument, ClientOK
  <2>4. ControlOK'
    BY <1>4 DEF ReturnDocument, ControlOK, MergingOK, OptTree
  <2> QED
    BY <1>4, <2>3, <2>4 DEF ReturnDocument, composer, ComposerOK
<1>5. CASE RefuseDocument
  BY <1>5, FailTyped DEF RefuseDocument, composer, ComposerOK
<1> QED
  BY <1>1, <1>2, <1>3, <1>4, <1>5 DEF Frame

\* pc is "node" or "again" in every action of compose_node.
LEMMA EntersPc == Enters => pc \in {"node", "again"}
  BY DEF Enters

\* The steps that start a node keep the types.
LEMMA NodeTyped ==
    ASSUME IInv, Node
    PROVE  TypeOK'
<1> USE EntersPc DEF IInv, TypeOK, Takes
<1> HIDE DEF DepthCovers, Charged, AliasBudget, DepthAccounting, TrackingClean
<1>1. CASE NoMoreEvents
  <2>1. OptTree(NoValue)
    BY DEF OptTree
  <2>2. FramesOK(frames')
    BY <1>1 DEF NoMoreEvents, ControlOK
  <2>3. ControlOK' /\ ClientOK'
    BY <1>1, <2>1, <2>2, ReturnTyped, ProceedTyped DEF NoMoreEvents
  <2> QED
    BY <1>1, <2>3 DEF NoMoreEvents, composer, ComposerOK
<1>2. CASE ParserError
  <2>1. parser' \in Parsers
    BY <1>2, AfterFaultTyped DEF ParserError, CanFault
  <2> QED
    BY <1>2, <2>1, FailTyped DEF ParserError, composer, ComposerOK
<1>3. CASE SkipStreamBoundary
  <2>1. parser' \in Parsers /\ ControlOK' /\ ClientOK'
    BY <1>3, ConsumeTyped, GotoTyped, ProceedTyped DEF SkipStreamBoundary
  <2> QED
    BY <1>3, <2>1 DEF SkipStreamBoundary, composer, ComposerOK
<1>4. CASE SkipDocumentStart
  <2>1. parser' \in Parsers /\ ControlOK' /\ ClientOK'
    BY <1>4, ConsumeTyped, GotoTyped, ProceedTyped DEF SkipDocumentStart
  <2> QED
    BY <1>4, <2>1 DEF SkipDocumentStart, ComposerOK
<1>5. CASE NoNode
  <2>1. OptTree(NoValue)
    BY DEF OptTree
  <2>2. FramesOK(frames')
    BY <1>5 DEF NoNode, ControlOK
  <2>3. parser' \in Parsers /\ ControlOK' /\ ClientOK'
    BY <1>5, <2>1, <2>2, ConsumeTyped, ReturnTyped, ProceedTyped DEF NoNode
  <2> QED
    BY <1>5, <2>3 DEF NoNode, composer, ComposerOK
<1>6. CASE ScalarNode
  <2> DEFINE value == Leaf(compose_scalar(parser.next.value, yaml_version))
             name == parser.next.anchor
  <2>1. parser' \in Parsers
    BY <1>6, ConsumeTyped DEF ScalarNode
  <2>2. IsTree(value)
    BY LeafIsTree
  <2>3. name \in OptNames
    BY EventAnchors DEF Parsers
  <2>4. Complete(value, name, frames) /\ pc # "merge" /\ FramesOK(frames)
    BY <1>6 DEF ScalarNode, ControlOK
  <2> HIDE DEF value, name
  <2>5. /\ DOMAIN anchors' = Names /\ (\A n \in Names : OptTree(anchors'[n]))
        /\ tracker' \in Trackers
        /\ ControlOK' /\ ClientOK'
    BY <2>2, <2>3, <2>4, CompleteTyped
  <2> QED
    BY <1>6, <2>1, <2>5 DEF ScalarNode, ComposerOK
<1>7. CASE RefuseScalar
  BY <1>7, ConsumeTyped, FailTyped DEF RefuseScalar, composer, ComposerOK
<1>8. CASE OpenCollection
  <2> DEFINE f == [label |-> IF parser.next.type = "SequenceStart" THEN SEQ ELSE MAP,
                   anchor |-> parser.next.anchor, kids |-> <<>>, key |-> NoValue]
  <2>1. parser' \in Parsers
    BY <1>8, ConsumeTyped DEF OpenCollection
  <2>2. current_depth' \in Nat
    BY <1>8 DEF OpenCollection, ComposerOK
  <2>3. tracker' \in Trackers
    BY <1>8, <2>2, TrackerOps DEF OpenCollection, ComposerOK
  <2>4. ComposerOK'
    BY <1>8, <2>2, <2>3 DEF OpenCollection, ComposerOK
  <2>5. CASE Fail
    BY <2>1, <2>4, <2>5, FailTyped
  <2>6. CASE ~Fail
    <3>1. frames' = Append(frames, f) /\ pc' = "node" /\ Proceed /\ UNCHANGED <<result, merging>>
      BY <1>8, <2>6 DEF OpenCollection
    <3>2. parser.next.anchor \in OptNames
      BY EventAnchors DEF Parsers
    <3>3. FrameOK(f)
      BY <3>2, TreeSeqEmpty DEF FrameOK, OptTree
    <3>4. FramesOK(frames')
      BY <3>1, <3>3, FramesPush DEF ControlOK
    <3>5. ControlOK'
      BY <1>8, <3>1, <3>4 DEF OpenCollection, ControlOK, MergingOK
    <3> QED
      BY <2>1, <2>4, <3>1, <3>5, ProceedTyped
  <2> QED
    BY <2>5, <2>6
<1>9. CASE EndCollection
  <2>1. parser' \in Parsers
    BY <1>9, ConsumeTyped DEF EndCollection
  <2>2. pc = "node" /\ frames # <<>> /\ CloseTop
    BY <1>9 DEF EndCollection, LoopEnds, AtLoopHead
  <2> QED
    BY <2>1, <2>2, CloseTopTyped
<1>10. CASE RefuseAlias
  BY <1>10, ConsumeTyped, FailTyped DEF RefuseAlias, composer, ComposerOK
<1>11. CASE UnknownAlias
  <2>1. tracker' \in Trackers
    BY <1>11, TrackerOps DEF UnknownAlias, ComposerOK
  <2> QED
    BY <1>11, <2>1, ConsumeTyped, FailTyped DEF UnknownAlias, EntersAlias, ComposerOK
<1>12. ASSUME EntersAlias, anchors[parser.next.anchor] # NoValue
       PROVE  /\ parser' \in Parsers
              /\ parser.next.anchor \in Names
              /\ IsTree(anchors[parser.next.anchor])
              /\ pc \in {"node", "again"}
              /\ ChargeAlias(enter_alias(tracker), anchors[parser.next.anchor]) \in Trackers
  <2>1. parser' \in Parsers /\ pc \in {"node", "again"} /\ parser.next.type = "Alias"
    BY <1>12, ConsumeTyped DEF EntersAlias
  <2>2. parser.next.anchor \in Names
    BY <2>1, EventAnchors DEF Parsers
  <2>3. IsTree(anchors[parser.next.anchor])
    BY <1>12, <2>2 DEF ComposerOK, OptTree
  <2>4. enter_alias(tracker) \in Trackers
    BY TrackerOps DEF ComposerOK
  <2> QED
    BY <2>1, <2>2, <2>3, <2>4, ChargeAliasTyped
<1>13. CASE OverLimitAlias
  <2>1. EntersAlias /\ anchors[parser.next.anchor] # NoValue
    BY <1>13 DEF OverLimitAlias
  <2>2. alias_expansion_stack' \in Seq(Names)
    BY <1>12, <1>13, <2>1, AppendProperties DEF OverLimitAlias, ComposerOK
  <2> QED
    BY <1>12, <1>13, <2>1, <2>2, FailTyped DEF OverLimitAlias, ComposerOK
<1>14. CASE ExpandAlias
  <2> DEFINE value == anchors[parser.next.anchor]
             charged == ChargeAlias(enter_alias(tracker), value)
  <2>1. EntersAlias /\ value # NoValue
    BY <1>14 DEF ExpandAlias
  <2>2. IsTree(value) /\ charged \in Trackers /\ pc # "merge" /\ parser' \in Parsers
    BY <1>12, <2>1
  <2>3. tracker' = exit_alias(charged) /\ materialized' = materialized + NodeCount(value)
        /\ Return(value) /\ Proceed /\ UNCHANGED frames
    BY <1>14 DEF ExpandAlias
  <2> HIDE DEF value, charged
  <2>4. tracker' \in Trackers /\ materialized' \in Nat
    BY <2>2, <2>3, TrackerOps, ComplexityCoversNodes DEF ComposerOK
  <2>5. ControlOK' /\ ClientOK'
    BY <2>2, <2>3, ReturnTyped, ProceedTyped DEF ControlOK, OptTree
  <2> QED
    BY <1>14, <2>2, <2>4, <2>5 DEF ExpandAlias, ComposerOK
<1> QED
  BY <1>1, <1>2, <1>3, <1>4, <1>5, <1>6, <1>7, <1>8, <1>9, <1>10, <1>11, <1>13, <1>14 DEF Node

\* The source of a merge and its entries are trees: what EntryLeft and
\* SourceLeft look at is there when it is taken.
LEMMA SourceIsTree ==
    ASSUME MergingOK, pc = "merge", SourceLeft
    PROVE  IsTree(Source)
  BY ChildIsTree DEF MergingOK, SourceLeft, Source

\* The steps that return a value keep the types.
LEMMA ReturningTyped ==
    ASSUME IInv, Returning
    PROVE  TypeOK'
<1> USE DEF IInv, TypeOK
<1> HIDE DEF DepthCovers, Charged, AliasBudget, DepthAccounting, TrackingClean
<1>1. CASE ReturnToDocument
  <2>1. ControlOK' /\ ClientOK'
    BY <1>1, GotoTyped, ProceedTyped DEF ReturnToDocument
  <2> QED
    BY <1>1, <2>1 DEF ReturnToDocument, composer, ComposerOK
<1>2. CASE ReturnNone
  <2>1. pc # "merge" /\ frames # <<>> /\ CloseTop /\ parser' = parser
    BY <1>2 DEF ReturnNone, AtLoopHead
  <2> QED
    BY <2>1, CloseTopTyped
<1>3. CASE ReturnElement
  <2>1. pc # "merge" /\ frames # <<>> /\ AddItem(1, Append(Top.kids, result))
    BY <1>3 DEF ReturnElement
  <2>2. TreeSeq(Append(Top.kids, result))
    BY <1>3, <2>1, FramesTop, TreeSeqAppend DEF ReturnElement, ControlOK, OptTree, FrameOK
  <2> QED
    BY <2>1, <2>2, AddItemTyped DEF AddItem
<1>4. CASE ReturnKey
  <2> DEFINE f == [Top EXCEPT !.key = result]
  <2>1. frames # <<>> /\ FramesOK(frames)
    BY <1>4 DEF ReturnKey, InMapping, ControlOK
  <2>2. FrameOK(f)
    BY <2>1, FramesTop DEF FrameOK, ControlOK
  <2>3. FramesOK(frames')
    BY <1>4, <2>1, <2>2, FramesWithTop DEF ReturnKey
  <2>4. ControlOK'
    BY <1>4, <2>3 DEF ReturnKey, ControlOK, OptTree, MergingOK
  <2> QED
    BY <1>4, <2>4, ProceedTyped DEF ReturnKey, composer, ComposerOK
<1>5. IsTree(ValueOrNull)
  BY LeafIsTree DEF ValueOrNull, ControlOK, OptTree
<1>6. CASE ReturnValue
  <2> DEFINE kids == Insert(Top.kids, Top.key, ValueOrNull)
  <2>1. pc # "merge" /\ frames # <<>> /\ AddItem(2, kids) /\ Top.key # NoValue
    BY <1>6 DEF ReturnValue, AtValue, InMapping
  <2>2. TreeSeq(Top.kids) /\ IsTree(Top.key)
    BY <2>1, FramesTop DEF ControlOK, FrameOK, OptTree
  <2>3. TreeSeq(kids)
    BY <1>5, <2>2, TreeSeqInsert
  <2> HIDE DEF kids
  <2> QED
    BY <2>1, <2>3, AddItemTyped DEF AddItem
<1>7. CASE BeginMerge
  <2>1. MergingOK'
    BY <1>5, <1>7 DEF BeginMerge, MergingOK
  <2>2. InMapping'
    BY <1>7 DEF BeginMerge, AtValue, InMapping, Top
  <2>3. ControlOK'
    BY <1>7, <2>1, <2>2 DEF BeginMerge, ControlOK, OptTree
  <2> QED
    BY <1>7, <2>3, ProceedTyped DEF BeginMerge, composer, ComposerOK
<1>8. CASE RefuseMerge
  BY <1>8, FailTyped DEF RefuseMerge, composer, ComposerOK
<1>9. CASE MergeEntry
  <2> DEFINE k == Child(Source, 2 * merging.entry - 1)
             v == Child(Source, 2 * merging.entry)
             f == [Top EXCEPT !.kids = OrInsert(@, k, v)]
  <2>1. IsTree(Source)
    BY <1>9, SourceIsTree DEF MergeEntry, ControlOK
  <2>2. IsTree(k) /\ IsTree(v)
    BY <1>9, <2>1, ChildIsTree DEF MergeEntry, EntryLeft
  <2> HIDE DEF k, v
  <2>3. FramesOK(frames) /\ frames # <<>> /\ Top.label = MAP /\ frames' = WithTop(f)
    BY <1>9 DEF MergeEntry, ControlOK, InMapping, k, v
  <2>4. FrameOK(Top)
    BY <2>3, FramesTop
  <2>5. TreeSeq(OrInsert(Top.kids, k, v))
    BY <2>2, <2>4, TreeSeqOrInsert DEF FrameOK
  <2>6. FrameOK(f) /\ f.label = MAP
    BY <2>3, <2>4, <2>5 DEF FrameOK
  <2>7. FramesOK(frames') /\ InMapping'
    BY <2>3, <2>6, FramesWithTop DEF InMapping, Top
  <2>8. MergingOK'
    BY <1>9 DEF MergeEntry, ControlOK, MergingOK
  <2>9. ControlOK'
    BY <1>9, <2>7, <2>8 DEF MergeEntry, ControlOK
  <2> QED
    BY <1>9, <2>9, ProceedTyped DEF MergeEntry, composer, ComposerOK
<1>10. CASE NextSource
  <2>1. MergingOK'
    BY <1>10 DEF NextSource, ControlOK, MergingOK
  <2>2. InMapping'
    BY <1>10 DEF NextSource, ControlOK, InMapping, Top
  <2>3. ControlOK'
    BY <1>10, <2>1, <2>2 DEF NextSource, ControlOK
  <2> QED
    BY <1>10, <2>3, ProceedTyped DEF NextSource, composer, ComposerOK
<1>11. CASE EndMerge
  <2> DEFINE f == [Top EXCEPT !.key = NoValue]
  <2>1. frames # <<>> /\ FramesOK(frames) /\ frames' = WithTop(f)
    BY <1>11 DEF EndMerge, ControlOK, InMapping
  <2>2. FrameOK(f)
    BY <2>1, FramesTop DEF FrameOK, OptTree
  <2>3. FramesOK(frames')
    BY <2>1, <2>2, FramesWithTop
  <2>4. ControlOK'
    BY <1>11, <2>3, NothingMerged DEF EndMerge, ControlOK, MergingOK
  <2> QED
    BY <1>11, <2>4, ProceedTyped DEF EndMerge, composer, ComposerOK
<1> QED
  BY <1>1, <1>2, <1>3, <1>4, <1>6, <1>7, <1>8, <1>9, <1>10, <1>11 DEF Returning

-----------------------------------------------------------------------------
\* The alias budget.

\* The methods that leave total_alias_nodes alone.
LEMMA TotalKept ==
    ASSUME NEW t \in Trackers, NEW n \in Nat
    PROVE  /\ check_depth(t, n).total_alias_nodes = t.total_alias_nodes
           /\ add_anchor(t).total_alias_nodes = t.total_alias_nodes
           /\ enter_alias(t).total_alias_nodes = t.total_alias_nodes
           /\ exit_alias(t).total_alias_nodes = t.total_alias_nodes
           /\ ChargeItem(t, n).total_alias_nodes = t.total_alias_nodes
<1>1. check_depth(t, n).total_alias_nodes = t.total_alias_nodes
  BY DEF Trackers, check_depth
<1>2. exit_alias(t).total_alias_nodes = t.total_alias_nodes
  BY DEF Trackers, exit_alias
<1>3. ChargeItem(t, n).total_alias_nodes = t.total_alias_nodes
  BY DEF Trackers, ChargeItem, add_collection_item, add_complexity
<1> QED
  BY <1>1, <1>2, <1>3 DEF Trackers, add_anchor, enter_alias

\* An alias is charged at least what it clones, if it is accepted.
LEMMA ChargeAliasTotal ==
    ASSUME NEW t \in Trackers, NEW v, IsTree(v)
    PROVE  /\ ChargeAlias(t, v).total_alias_nodes >= t.total_alias_nodes
           /\ AliasAccepted(ChargeAlias(t, v), v) =>
                 /\ ChargeAlias(t, v).total_alias_nodes >= t.total_alias_nodes + NodeCount(v)
                 /\ ChargeAlias(t, v).total_alias_nodes <= MaxTotalAliasNodes
<1> DEFINE score == calculate_value_complexity(v)
           expanded == add_alias_materialization(t, score)
<1>1. score \in Nat /\ NodeCount(v) \in Nat /\ NodeCount(v) <= score
  BY ComplexityCoversNodes
<1> HIDE DEF score
<1>2. expanded \in Trackers /\ expanded.total_alias_nodes = t.total_alias_nodes + score
  BY <1>1, TrackerOps DEF add_alias_materialization, Trackers
<1>3. add_complexity(expanded, score).total_alias_nodes = expanded.total_alias_nodes
  BY <1>2 DEF add_complexity, Trackers
<1>4. t.total_alias_nodes \in Nat
  BY DEF Trackers
<1>5. CASE ~ShallowEnough(v)
  <2>1. ChargeAlias(t, v) = t
    BY <1>5 DEF ChargeAlias
  <2> QED
    BY <1>4, <1>5, <2>1 DEF AliasAccepted
<1>6. CASE ShallowEnough(v)
  <2>1. ChargeAlias(t, v) = IF WithinAliasNodes(expanded)
                            THEN add_complexity(expanded, score) ELSE expanded
    BY <1>6 DEF ChargeAlias, score
  <2>2. ChargeAlias(t, v).total_alias_nodes = t.total_alias_nodes + score
    BY <1>2, <1>3, <2>1
  <2> QED
    BY <1>1, <1>4, <2>2 DEF AliasAccepted, WithinAliasNodes
<1> QED
  BY <1>5, <1>6

\* The methods that leave alias_depth alone, and the two that cancel out.
LEMMA AliasDepthKept ==
    ASSUME NEW t \in Trackers, NEW n \in Nat, NEW v, IsTree(v)
    PROVE  /\ check_depth(t, n).alias_depth = t.alias_depth
           /\ add_anchor(t).alias_depth = t.alias_depth
           /\ ChargeItem(t, n).alias_depth = t.alias_depth
           /\ exit_alias(ChargeAlias(enter_alias(t), v)).alias_depth = t.alias_depth
<1>1. check_depth(t, n).alias_depth = t.alias_depth
  BY DEF Trackers, check_depth
<1>2. add_anchor(t).alias_depth = t.alias_depth
  BY DEF Trackers, add_anchor
<1>3. ChargeItem(t, n).alias_depth = t.alias_depth
  BY DEF Trackers, ChargeItem, add_collection_item, add_complexity
<1>4. exit_alias(ChargeAlias(enter_alias(t), v)).alias_depth = t.alias_depth
  <2> DEFINE entered == enter_alias(t)
             score == calculate_value_complexity(v)
             charged == ChargeAlias(entered, v)
  <2>1. t.alias_depth \in Nat /\ entered \in Trackers /\ entered.alias_depth = t.alias_depth + 1
    BY TrackerOps DEF Trackers, enter_alias
  <2>2. score \in Nat
    BY ComplexityCoversNodes
  <2> HIDE DEF entered, score
  <2>3. \A u \in Trackers :
           /\ add_alias_materialization(u, score).alias_depth = u.alias_depth
           /\ add_complexity(u, score).alias_depth = u.alias_depth
    BY DEF Trackers, add_alias_materialization, add_complexity
  <2>4. charged \in Trackers /\ charged.alias_depth = entered.alias_depth
    BY <2>1, <2>2, <2>3, TrackerOps, ChargeAliasTyped DEF ChargeAlias, score
  <2> HIDE DEF charged
  <2>5. exit_alias(charged).alias_depth = charged.alias_depth - 1
    BY <2>1, <2>4 DEF exit_alias, Trackers
  <2> QED
    BY <2>1, <2>4, <2>5 DEF charged, entered
<1> QED
  BY <1>1, <1>2, <1>3, <1>4

-----------------------------------------------------------------------------
\* What a step does to the budget, to the expansion stack and to the depth.

KeepsBudget ==
    /\ materialized' = materialized
    /\ tracker'.total_alias_nodes >= tracker.total_alias_nodes

KeepsTracking ==
    /\ alias_expansion_stack' = alias_expansion_stack
    /\ tracker'.alias_depth = tracker.alias_depth
    /\ failed' = failed

Level == current_depth' = current_depth /\ Len(frames') = Len(frames)
Opens == /\ current_depth' = current_depth + 1 /\ Len(frames') = Len(frames) + 1
         /\ current_depth' <= MaxDepth
Closes == current_depth' = current_depth - 1 /\ Len(frames') = Len(frames) - 1

\* Everything but an expansion keeps the budget, and a step that is no error
\* keeps the tracking and moves the depth with the stack.
Effects == /\ KeepsBudget \/ ExpandAlias
           /\ Fail \/ (KeepsTracking /\ (Level \/ Opens \/ Closes))

\* A step that leaves tracker and frames, or fails, has the effects allowed.
LEMMA UntouchedEffects ==
    ASSUME TypeOK, tracker' = tracker, materialized' = materialized,
           Fail \/ (/\ UNCHANGED <<alias_expansion_stack, current_depth, failed>>
                    /\ Len(frames') = Len(frames))
    PROVE  Effects
<1>1. tracker.total_alias_nodes \in Nat
  BY DEF TypeOK, ComposerOK, Trackers
<1> QED
  BY <1>1 DEF Effects, KeepsBudget, KeepsTracking, Level

\* A value that is completed: `rest` is the stack below it.
LEMMA CompleteEffects ==
    ASSUME TypeOK, NEW value, NEW name, NEW rest, Complete(value, name, rest),
           UNCHANGED <<alias_expansion_stack, materialized>>,
           \/ current_depth' = current_depth /\ Len(rest) = Len(frames)
           \/ current_depth' = current_depth - 1 /\ Len(rest) = Len(frames) - 1
    PROVE  Effects
<1>1. tracker \in Trackers /\ tracker.total_alias_nodes \in Nat
  BY DEF TypeOK, ComposerOK, Trackers
<1>2. tracker' \in {tracker, add_anchor(tracker)}
  BY DEF Complete
<1>3. /\ tracker'.total_alias_nodes = tracker.total_alias_nodes
      /\ tracker'.alias_depth = tracker.alias_depth
  BY <1>1, <1>2 DEF add_anchor, Trackers
<1>4. KeepsBudget
  BY <1>1, <1>3 DEF KeepsBudget
<1>5. Fail \/ (frames' = rest /\ failed' = failed)
  BY DEF Complete, Proceed
<1>6. Fail \/ (KeepsTracking /\ (Level \/ Closes))
  BY <1>3, <1>5 DEF KeepsTracking, Level, Closes
<1> QED
  BY <1>4, <1>6 DEF Effects

\* Closing a collection has the effects allowed.
LEMMA CloseTopEffects ==
    ASSUME TypeOK, frames # <<>>, CloseTop
    PROVE  Effects
<1>1. Len(Pop) = Len(frames) - 1
  BY FramesPop DEF TypeOK, ControlOK
<1>2. Complete(Build(Top.label, Top.kids), Top.anchor, Pop) /\ current_depth' = current_depth - 1
      /\ UNCHANGED <<alias_expansion_stack, materialized>>
  BY DEF CloseTop
<1> QED
  BY <1>1, <1>2, CompleteEffects

\* Adding an item to a collection has the effects allowed.
LEMMA AddItemEffects ==
    ASSUME TypeOK, frames # <<>>, NEW score \in Nat, NEW kids, AddItem(score, kids)
    PROVE  Effects
<1>1. tracker \in Trackers /\ tracker.total_alias_nodes \in Nat
  BY DEF TypeOK, ComposerOK, Trackers
<1>2. /\ tracker'.total_alias_nodes = tracker.total_alias_nodes
      /\ tracker'.alias_depth = tracker.alias_depth
  BY <1>1, TotalKept, AliasDepthKept, LeafIsTree DEF AddItem
<1>3. KeepsBudget
  BY <1>1, <1>2 DEF KeepsBudget, AddItem
<1>4. \A f : Len(WithTop(f)) = Len(frames)
  BY WithTopLen DEF TypeOK, ControlOK
<1>5. Fail \/ (KeepsTracking /\ Level)
  BY <1>2, <1>4 DEF AddItem, Proceed, KeepsTracking, Level
<1> QED
  BY <1>3, <1>5 DEF Effects

\* Every step but a reset has the effects allowed.
LEMMA StepEffects ==
    ASSUME TypeOK, Next, ~Reset, vars' # vars
    PROVE  Effects
<1> USE DEF composer, control
<1>1. tracker \in Trackers /\ tracker.total_alias_nodes \in Nat
  BY DEF TypeOK, ComposerOK, Trackers
<1>2. CASE BeginDocument \/ ReportScanningError \/ FinishLoadAll
  BY <1>2, UntouchedEffects DEF BeginDocument, Goto, ReportScanningError, FinishLoadAll
<1>3. CASE Frame
  BY <1>3, UntouchedEffects DEF Frame, HeaderDocumentStart, HeaderDone, Goto, FooterDocumentEnd,
                                ReturnDocument, RefuseDocument, Proceed
<1>4. CASE NoMoreEvents \/ ParserError \/ SkipStreamBoundary \/ SkipDocumentStart \/ NoNode
           \/ RefuseScalar \/ RefuseAlias
  BY <1>4, UntouchedEffects DEF NoMoreEvents, ParserError, SkipStreamBoundary, SkipDocumentStart,
                                NoNode, RefuseScalar, RefuseAlias, Goto, Proceed
<1>5. CASE ScalarNode
  BY <1>5, CompleteEffects DEF ScalarNode
<1>6. CASE OpenCollection
  <2>1. current_depth' = current_depth + 1 /\ current_depth' \in Nat
        /\ tracker' = check_depth(tracker, current_depth')
    BY <1>6 DEF OpenCollection, TypeOK, ComposerOK
  <2>2. /\ tracker'.total_alias_nodes = tracker.total_alias_nodes
        /\ tracker'.alias_depth = tracker.alias_depth
        /\ tracker'.current_depth = current_depth'
    BY <1>1, <2>1, TotalKept, AliasDepthKept, LeafIsTree DEF check_depth, Trackers
  <2>3. KeepsBudget
    BY <1>1, <1>6, <2>2 DEF KeepsBudget, OpenCollection
  <2>4. CASE ~Fail
    <3>1. PICK f : frames' = Append(frames, f)
      BY <1>6, <2>4 DEF OpenCollection
    <3>2. WithinDepth(tracker') /\ failed' = failed
      BY <1>6, <2>4 DEF OpenCollection, Proceed
    <3>3. Len(frames') = Len(frames) + 1
      BY <3>1, AppendLen DEF TypeOK, ControlOK
    <3>4. Opens /\ KeepsTracking
      BY <1>6, <2>1, <2>2, <3>2, <3>3 DEF Opens, KeepsTracking, WithinDepth, OpenCollection
    <3> QED
      BY <2>3, <3>4 DEF Effects
  <2> QED
    BY <2>3, <2>4 DEF Effects
<1>7. CASE EndCollection \/ ReturnNone
  BY <1>7, CloseTopEffects DEF EndCollection, LoopEnds, ReturnNone, AtLoopHead
<1>8. CASE UnknownAlias
  <2>1. tracker' = exit_alias(enter_alias(tracker)) /\ materialized' = materialized /\ Fail
    BY <1>8 DEF UnknownAlias
  <2>2. tracker'.total_alias_nodes = tracker.total_alias_nodes
    BY <1>1, <2>1, TotalKept, TrackerOps
  <2> QED
    BY <1>1, <2>1, <2>2 DEF Effects, KeepsBudget
<1>9. ASSUME EntersAlias, anchors[parser.next.anchor] # NoValue
      PROVE  IsTree(anchors[parser.next.anchor])
  <2>1. parser.next \in Events /\ parser.next.type = "Alias"
    BY <1>9 DEF EntersAlias, Takes, TypeOK, Parsers
  <2> QED
    BY <1>9, <2>1, EventAnchors DEF TypeOK, ComposerOK, OptTree
<1>10. CASE OverLimitAlias
  <2> DEFINE value == anchors[parser.next.anchor]
  <2>1. IsTree(value) /\ tracker' = ChargeAlias(enter_alias(tracker), value)
        /\ materialized' = materialized /\ Fail
    BY <1>9, <1>10 DEF OverLimitAlias
  <2> HIDE DEF value
  <2>2. enter_alias(tracker) \in Trackers
        /\ enter_alias(tracker).total_alias_nodes = tracker.total_alias_nodes
    BY <1>1, TrackerOps, TotalKept
  <2>3. tracker'.total_alias_nodes >= tracker.total_alias_nodes
    BY <2>1, <2>2, ChargeAliasTotal
  <2> QED
    BY <2>1, <2>3 DEF Effects, KeepsBudget
<1>11. CASE ExpandAlias
  <2> DEFINE value == anchors[parser.next.anchor]
  <2>1. IsTree(value) /\ tracker' = exit_alias(ChargeAlias(enter_alias(tracker), value))
    BY <1>9, <1>11 DEF ExpandAlias
  <2> HIDE DEF value
  <2>2. tracker'.alias_depth = tracker.alias_depth
    BY <1>1, <2>1, AliasDepthKept
  <2> QED
    BY <1>11, <2>2 DEF ExpandAlias, Proceed, Effects, KeepsTracking, Level
<1>12. CASE ReturnToDocument \/ BeginMerge \/ RefuseMerge \/ NextSource
  BY <1>12, UntouchedEffects DEF ReturnToDocument, BeginMerge, RefuseMerge, NextSource, Goto, Proceed
<1>13. CASE ReturnElement \/ ReturnValue
  BY <1>13, AddItemEffects DEF ReturnElement, ReturnValue, AtValue, InMapping
<1>14. CASE ReturnKey \/ MergeEntry \/ EndMerge
  <2>1. frames # <<>> /\ \E f : frames' = WithTop(f)
    BY <1>14 DEF ReturnKey, MergeEntry, EndMerge, InMapping, TypeOK, ControlOK
  <2>2. Len(frames') = Len(frames)
    BY <2>1, WithTopLen DEF TypeOK, ControlOK
  <2> QED
    BY <1>14, <2>2, UntouchedEffects DEF ReturnKey, MergeEntry, EndMerge, Proceed
<1> QED
  BY <1>2, <1>3, <1>4, <1>5, <1>6, <1>7, <1>8, <1>10, <1>11, <1>12, <1>13, <1>14
     DEF Next, Step, Call, Node, Returning, Terminated

\* An expansion stays within the budget: what it clones was charged first.
LEMMA ExpandKeepsBudget ==
    ASSUME TypeOK, Charged, ExpandAlias
    PROVE  Charged' /\ AliasBudget'
<1> DEFINE value == anchors[parser.next.anchor]
           charged == ChargeAlias(enter_alias(tracker), value)
<1>1. parser.next \in Events /\ parser.next.type = "Alias"
  BY DEF ExpandAlias, EntersAlias, Takes, TypeOK, Parsers
<1>2. /\ value # NoValue /\ AliasAccepted(charged, value)
      /\ tracker' = exit_alias(charged)
      /\ materialized' = materialized + NodeCount(value)
  BY DEF ExpandAlias
<1>3. IsTree(value)
  BY <1>1, <1>2, EventAnchors DEF TypeOK, ComposerOK, OptTree
<1> HIDE DEF value
<1>4. /\ enter_alias(tracker) \in Trackers
      /\ enter_alias(tracker).total_alias_nodes = tracker.total_alias_nodes
      /\ tracker.total_alias_nodes \in Nat /\ materialized \in Nat
  BY TrackerOps, TotalKept DEF TypeOK, ComposerOK, Trackers
<1>5. charged \in Trackers /\ NodeCount(value) \in Nat
  BY <1>3, <1>4, ChargeAliasTyped, ComplexityCoversNodes
<1>6. /\ charged.total_alias_nodes >= tracker.total_alias_nodes + NodeCount(value)
      /\ charged.total_alias_nodes <= MaxTotalAliasNodes
  BY <1>2, <1>3, <1>4, ChargeAliasTotal
<1> HIDE DEF charged
<1>7. tracker'.total_alias_nodes = charged.total_alias_nodes /\ charged.total_alias_nodes \in Nat
  BY <1>2, <1>5, TotalKept DEF Trackers
<1> QED
  BY <1>2, <1>4, <1>5, <1>6, <1>7, LimitsAssumption DEF Charged, AliasBudget

-----------------------------------------------------------------------------
\* The invariant is inductive.

\* The invariant holds initially.
LEMMA InitInvariant == Init => IInv
<1> SUFFICES ASSUME Init PROVE IInv
  OBVIOUS
<1> USE DEF Init, ComposerInit
<1>1. ComposerOK /\ Charged /\ AliasBudget /\ TrackingClean
  BY LimitsAssumption, EmptySeq
     DEF ComposerOK, OptTree, NewTracker, Trackers, Charged, AliasBudget, TrackingClean
<1>2. ControlOK
  BY FramesEmpty, NothingMerged DEF ControlOK, OptTree, MergingOK
<1>3. ClientOK
  BY TreeSeqEmpty DEF ClientOK
<1>4. DepthCovers /\ DepthAccounting
  BY LimitsAssumption, EmptySeq DEF DepthCovers, DepthAccounting
<1>5. parser \in Parsers
  BY NewParsersTyped
<1> QED
  BY <1>1, <1>2, <1>3, <1>4, <1>5 DEF IInv, TypeOK

\* A reset of the composer keeps the invariant.
LEMMA ResetInvariant ==
    ASSUME IInv, TypeOK', Reset
    PROVE  IInv'
<1>1. /\ frames' = frames /\ frames = <<>>
      /\ current_depth' = 0 /\ materialized' = 0 /\ tracker' = NewTracker
      /\ alias_expansion_stack' = <<>>
  BY DEF Reset, control, IInv, TypeOK, ControlOK
<1>2. Len(frames') = 0
  BY <1>1
<1> QED
  BY <1>1, <1>2, LimitsAssumption
     DEF IInv, DepthCovers, Charged, AliasBudget, DepthAccounting, TrackingClean, NewTracker

\* Every step keeps the invariant.
LEMMA StepInvariant ==
    ASSUME IInv, [Next]_vars
    PROVE  IInv'
<1>1. CASE vars' = vars
  BY <1>1 DEF vars, composer, control, client, IInv, TypeOK, ComposerOK, ControlOK, ClientOK,
              MergingOK, InMapping, Top, DepthCovers, Charged, AliasBudget, DepthAccounting,
              TrackingClean
<1>2. CASE Next /\ vars' # vars
  <2>1. TypeOK'
    BY <1>2, CallTyped, FrameTyped, NodeTyped, ReturningTyped DEF Next, Step, Terminated
  <2>2. CASE Reset
    BY <2>1, <2>2, ResetInvariant
  <2>3. CASE ~Reset
    <3>1. Effects
      BY <1>2, <2>3, StepEffects DEF IInv
    <3>2. Charged' /\ AliasBudget'
      <4>1. CASE KeepsBudget
        <5>1. /\ tracker.total_alias_nodes \in Nat /\ tracker'.total_alias_nodes \in Nat
              /\ materialized \in Nat
          BY <2>1 DEF IInv, TypeOK, ComposerOK, Trackers
        <5> QED
          BY <4>1, <5>1 DEF KeepsBudget, IInv, Charged, AliasBudget
      <4>2. CASE ExpandAlias
        BY <4>2, ExpandKeepsBudget DEF IInv
      <4> QED
        BY <3>1, <4>1, <4>2 DEF Effects
    <3>3. /\ current_depth \in Nat /\ current_depth' \in Nat
          /\ Len(frames) \in Nat
      BY <2>1, LenProperties DEF IInv, TypeOK, ComposerOK, ControlOK, FramesOK
    <3>4. DepthCovers' /\ DepthAccounting' /\ TrackingClean'
      <4>1. CASE Fail
        <5>1. failed' = TRUE /\ Len(frames') = 0
          BY <4>1 DEF Fail
        <5> QED
          BY <3>3, <5>1 DEF DepthCovers, DepthAccounting, TrackingClean
      <4>2. CASE KeepsTracking /\ (Level \/ Opens \/ Closes)
        <5>1. TrackingClean'
          BY <4>2 DEF KeepsTracking, IInv, TrackingClean
        <5>2. DepthCovers'
          BY <3>3, <4>2 DEF Level, Opens, Closes, IInv, DepthCovers
        <5>3. ASSUME ~failed' PROVE current_depth' = Len(frames') /\ current_depth' <= MaxDepth
          <6>1. current_depth = Len(frames) /\ current_depth <= MaxDepth
            BY <4>2, <5>3 DEF KeepsTracking, IInv, DepthAccounting
          <6> QED
            BY <3>3, <4>2, <6>1, LimitsAssumption DEF Level, Opens, Closes
        <5> QED
          BY <5>1, <5>2, <5>3 DEF DepthAccounting
      <4> QED
        BY <3>1, <4>1, <4>2 DEF Effects
    <3> QED
      BY <2>1, <3>2, <3>4 DEF IInv
  <2> QED
    BY <2>2, <2>3
<1> QED
  BY <1>1, <1>2

-----------------------------------------------------------------------------
\* IInv holds in every state of every behavior.
THEOREM Invariance == Spec => []IInv
<1>1. Init => IInv
  BY InitInvariant
<1>2. IInv /\ [Next]_vars => IInv'
  BY StepInvariant
<1> QED
  BY <1>1, <1>2, PTL DEF Spec

\* Type correctness: whatever the parser delivers, errors and arbitrary events
\* after them included, the composer holds only trees, a merge is only under
\* way inside a mapping and nothing is left on the stack between two calls
\* (src/composer.rs compose_node, compose_sequence, compose_mapping).
THEOREM TypeCorrect == Spec => []TypeOK
  BY Invariance, PTL DEF IInv

\* Alias expansion clones at most max_total_alias_nodes nodes between two
\* resets, however the calls in between ended (src/limits.rs
\* add_alias_materialization as called by the alias arm of compose_node).
THEOREM AliasBudgetHolds == Spec => []AliasBudget
  BY Invariance, PTL DEF IInv

\* Until a call fails, current_depth is the number of collections under
\* construction and never above max_depth (src/composer.rs compose_sequence,
\* compose_mapping).
THEOREM DepthAccounted == Spec => []DepthAccounting
  BY Invariance, PTL DEF IInv

\* Until a call fails, no alias stays on the expansion stack (src/composer.rs,
\* "Clean up tracking").
THEOREM TrackingStaysClean == Spec => []TrackingClean
  BY Invariance, PTL DEF IInv

-----------------------------------------------------------------------------
(***************************************************************************)
(* What load_all has read.  As long as the stream has no errors the stack  *)
(* of collections under construction mirrors the constructs the parser has *)
(* open, up to the node that is on its way from one to the other.          *)
(***************************************************************************)

\* The construct a collection under construction has open.
Construct(f) == IF f.label = SEQ THEN "sequence" ELSE IF f.key = NoValue THEN "key" ELSE "value"

\* The constructs open around the next node of the collections fs.
Mirror(fs) ==
    [i \in 1 .. Len(fs) + 1 |-> IF i = 1 THEN "document" ELSE Construct(fs[i - 1])]

\* What the parser has open when compose_node has taken the node's events, and when it
\* has not.
Aligned ==
    LET between == parser.open = <<>> /\ frames = <<>>
        over == between /\ parser.next = NoEvent
        taken == parser.open = AfterNode(Mirror(frames))
    IN  /\ pc = "idle" => between
        /\ pc \in {"header", "again"} => frames = <<>>
        /\ pc \in {"header", "node", "again"} => between \/ parser.open = Mirror(frames)
        /\ pc = "return" => IF result = NoValue THEN over ELSE taken
        /\ pc = "merge" => taken /\ AtValue
        /\ pc = "footer" => IF result = NoValue THEN over ELSE between \/ taken

\* A document that has begun and is not with the client yet.
Unfinished == IF parser.open # <<>> \/ (pc = "footer" /\ result # NoValue) THEN 1 ELSE 0

Reading ==
    /\ Intact(parser)
    /\ Aligned
    /\ Len(docs) + parser.documents + Unfinished = MaxDocuments

\* An error of eager parsing waits for the first call.
Unreported ==
    /\ parser.scanning_error
    /\ pc = "idle" /\ outcome = "running"
    /\ check_document(parser)

LoadInv ==
    /\ outcome # "running" => pc = "idle"
    /\ caller = "load_all" /\ parser.eager /\ ~parser.broken =>
           CASE outcome = "running" -> Unreported \/ Reading
             [] outcome = "ok" -> EveryDocumentOnce
             [] OTHER -> TRUE

-----------------------------------------------------------------------------
\* The mirror has one construct more than there are collections.
LEMMA MirrorShape ==
    ASSUME NEW fs, FramesOK(fs)
    PROVE  /\ Mirror(fs) \in Seq(Constructs) /\ Mirror(fs) # <<>>
           /\ Len(Mirror(fs)) = Len(fs) + 1
           /\ Mirror(fs)[Len(fs) + 1] = IF fs = <<>> THEN "document" ELSE Construct(fs[Len(fs)])
<1>1. Len(fs) \in Nat
  BY LenProperties DEF FramesOK
<1> DEFINE n == Len(fs) + 1
<1>2. n \in Nat /\ n # 0 /\ n \in 1 .. n
  BY <1>1
<1>3. Mirror(fs) = [i \in 1 .. n |-> IF i = 1 THEN "document" ELSE Construct(fs[i - 1])]
  BY DEF Mirror
<1>4. \A f : Construct(f) \in Constructs
  BY DEF Construct, Constructs
<1>5. "document" \in Constructs
  BY DEF Constructs
<1>6. Mirror(fs) \in Seq(Constructs) /\ Len(Mirror(fs)) = n
  <2> HIDE DEF n
  <2>1. Mirror(fs) \in [1 .. n -> Constructs]
    BY <1>3, <1>4, <1>5
  <2> QED BY <1>2, <2>1
<1>7. Mirror(fs) # <<>>
  BY <1>2, <1>6, EmptySeq
<1>8. Mirror(fs)[n] = IF n = 1 THEN "document" ELSE Construct(fs[n - 1])
  <2> HIDE DEF n
  <2> QED BY <1>2, <1>3
<1>9. (n = 1) = (fs = <<>>)
  <2>1. fs \in Seq(Elements(fs))
    BY DEF FramesOK
  <2> QED BY <1>1, <2>1, EmptySeq
<1>10. n - 1 = Len(fs)
  BY <1>1
<1> QED BY <1>6, <1>7, <1>8, <1>9, <1>10

\* Without collections only the document is open.
LEMMA MirrorEmpty == Mirror(<<>>) = <<"document">>
<1>1. Len(<<>>) = 0
  OBVIOUS
<1>2. Mirror(<<>>) = [i \in 1 .. 1 |-> IF i = 1 THEN "document" ELSE Construct(<<>>[i - 1])]
  BY <1>1 DEF Mirror
<1>3. Mirror(<<>>) = [i \in 1 .. 1 |-> "document"]
  BY <1>2
<1> QED BY <1>3

\* A collection that begins is mirrored by the construct it opens.
LEMMA MirrorPush ==
    ASSUME FramesOK(frames), NEW f
    PROVE  Mirror(Append(frames, f)) = Append(Mirror(frames), Construct(f))
<1> DEFINE n == Len(frames)
           S == Elements(frames) \cup {f}
           a == Mirror(Append(frames, f))
           b == Append(Mirror(frames), Construct(f))
<1>1. n \in Nat /\ frames \in Seq(S)
  BY LenProperties, SeqMonotonic DEF FramesOK
<1>2. Len(Append(frames, f)) = n + 1 /\ (\A i \in 1 .. n : Append(frames, f)[i] = frames[i])
      /\ Append(frames, f)[n + 1] = f
  BY <1>1
<1>3. a = [i \in 1 .. (n + 1) + 1 |-> IF i = 1 THEN "document" ELSE Construct(Append(frames, f)[i - 1])]
  BY <1>2 DEF Mirror
<1>4. Mirror(frames) = [i \in 1 .. n + 1 |-> IF i = 1 THEN "document" ELSE Construct(frames[i - 1])]
  BY DEF Mirror
<1>5. Mirror(frames) \in Seq(Constructs) /\ Len(Mirror(frames)) = n + 1
  BY MirrorShape
<1>6. Construct(f) \in Constructs
  BY DEF Construct, Constructs
<1> HIDE DEF n
<1>7. /\ b \in Seq(Constructs) /\ Len(b) = (n + 1) + 1
      /\ \A i \in 1 .. n + 1 : b[i] = Mirror(frames)[i]
      /\ b[(n + 1) + 1] = Construct(f)
  BY <1>1, <1>5, <1>6
<1> HIDE DEF a, b
<1>8. ASSUME NEW i \in 1 .. (n + 1) + 1 PROVE a[i] = b[i]
  <2>1. CASE i = 1
    <3>1. 1 \in 1 .. n + 1 /\ 1 \in 1 .. (n + 1) + 1
      BY <1>1
    <3>2. a[1] = "document"
      BY <1>3, <3>1
    <3>3. b[1] = "document"
      BY <1>4, <1>7, <3>1
    <3> QED BY <2>1, <3>2, <3>3
  <2>2. CASE i # 1 /\ i \in 1 .. n + 1
    <3>1. i - 1 \in 1 .. n
      BY <1>1, <2>2
    <3>2. a[i] = Construct(frames[i - 1])
      BY <1>2, <1>3, <2>2, <3>1
    <3>3. b[i] = Construct(frames[i - 1])
      BY <1>4, <1>7, <2>2
    <3> QED BY <3>2, <3>3
  <2>3. CASE i = (n + 1) + 1
    <3>1. i # 1 /\ i - 1 = n + 1
      BY <1>1, <2>3
    <3>2. a[i] = Construct(f)
      BY <1>2, <1>3, <3>1
    <3> QED BY <1>7, <2>3, <3>2
  <2> QED BY <1>1, <2>1, <2>2, <2>3
<1>9. a = [i \in 1 .. (n + 1) + 1 |-> a[i]] /\ b = [i \in 1 .. (n + 1) + 1 |-> b[i]]
  <2>1. a = [i \in 1 .. (n + 1) + 1 |-> a[i]]
    BY <1>3
  <2>2. b = [i \in 1 .. Len(b) |-> b[i]]
    BY <1>7
  <2> QED BY <1>7, <2>1, <2>2
<1>10. a = b
  BY <1>8, <1>9
<1> QED BY <1>10 DEF a, b

\* Without the innermost collection, the mirror is without the innermost construct.
LEMMA MirrorPop ==
    ASSUME FramesOK(frames), frames # <<>>
    PROVE  SubSeq(Mirror(frames), 1, Len(Mirror(frames)) - 1) = Mirror(Pop)
<1> DEFINE n == Len(frames)
           m == Len(frames) - 1
           a == SubSeq(Mirror(frames), 1, Len(Mirror(frames)) - 1)
           b == Mirror(Pop)
<1>1. n \in Nat \ {0} /\ frames \in Seq(Elements(frames)) /\ Len(Pop) = m
  BY FramesTop, FramesPop DEF FramesOK
<1>2. Mirror(frames) \in Seq(Constructs) /\ Len(Mirror(frames)) = n + 1
  BY MirrorShape
<1>3. Pop = SubSeq(frames, 1, m)
  BY DEF Pop
<1>4. b = [i \in 1 .. m + 1 |-> IF i = 1 THEN "document" ELSE Construct(Pop[i - 1])]
  BY <1>1 DEF Mirror
<1>5. Mirror(frames) = [i \in 1 .. n + 1 |-> IF i = 1 THEN "document" ELSE Construct(frames[i - 1])]
  BY DEF Mirror
<1>6. m \in Nat /\ m + 1 = n /\ (n + 1) - 1 = n
  BY <1>1
<1> HIDE DEF n, m
<1>7. \A i \in 1 .. m : Pop[i] = frames[i]
  BY <1>1, <1>3, <1>6 DEF n
<1>8. a = SubSeq(Mirror(frames), 1, n)
  BY <1>2, <1>6
<1>9. a = [i \in 1 .. n |-> Mirror(frames)[i]]
  BY <1>1, <1>2, <1>8
<1> HIDE DEF a, b
<1>10. ASSUME NEW i \in 1 .. n PROVE a[i] = b[i]
  <2>1. CASE i = 1
    BY <1>1, <1>4, <1>5, <1>6, <1>9, <2>1
  <2>2. CASE i # 1
    <3>1. i - 1 \in 1 .. m /\ i \in 1 .. n + 1 /\ i \in 1 .. m + 1
      BY <1>1, <1>6, <2>2
    <3>2. a[i] = Construct(frames[i - 1])
      BY <1>5, <1>9, <2>2, <3>1
    <3>3. b[i] = Construct(Pop[i - 1])
      BY <1>4, <2>2, <3>1
    <3> QED BY <1>7, <3>1, <3>2, <3>3
  <2> QED BY <2>1, <2>2
<1>11. a = [i \in 1 .. n |-> a[i]] /\ b = [i \in 1 .. n |-> b[i]]
  BY <1>4, <1>6, <1>9
<1>12. a = b
  BY <1>10, <1>11
<1> QED BY <1>12 DEF a, b

\* A node completed in the innermost construct is mirrored by what the collection becomes.
LEMMA MirrorServe ==
    ASSUME FramesOK(frames), frames # <<>>, NEW f, f.label = Top.label,
           Construct(f) = CASE Construct(Top) = "key" -> "value"
                            [] Construct(Top) = "value" -> "key"
                            [] OTHER -> Construct(Top)
    PROVE  Mirror(WithTop(f)) = AfterNode(Mirror(frames))
<1> DEFINE n == Len(frames)
           S == Elements(frames) \cup {f}
           a == Mirror(WithTop(f))
           b == AfterNode(Mirror(frames))
<1>1. n \in Nat \ {0} /\ frames \in Seq(S) /\ Len(WithTop(f)) = n
  BY FramesTop, WithTopLen, SeqMonotonic DEF FramesOK
<1>2. WithTop(f) = [frames EXCEPT ![n] = f]
  BY DEF WithTop
<1>3. WithTop(f)[n] = f /\ \A i \in 1 .. n : i # n => WithTop(f)[i] = frames[i]
  BY <1>1, <1>2, ExceptSeq
<1>4. a = [i \in 1 .. n + 1 |-> IF i = 1 THEN "document" ELSE Construct(WithTop(f)[i - 1])]
  BY <1>1 DEF Mirror
<1>5. Mirror(frames) = [i \in 1 .. n + 1 |-> IF i = 1 THEN "document" ELSE Construct(frames[i - 1])]
  BY DEF Mirror
<1>6. Len(Mirror(frames)) = n + 1 /\ Mirror(frames)[n + 1] = Construct(Top)
  BY MirrorShape DEF Top
<1>7. b = [Mirror(frames) EXCEPT ![n + 1] = Construct(f)]
  <2>1. Construct(Top) # "document"
    BY DEF Construct
  <2>2. (CASE Construct(Top) = "document" -> "footer"
           [] Construct(Top) = "key" -> "value"
           [] Construct(Top) = "value" -> "key"
           [] OTHER -> Construct(Top)) = Construct(f)
    BY <2>1
  <2>3. b = [Mirror(frames) EXCEPT ![n + 1] =
               CASE Mirror(frames)[n + 1] = "document" -> "footer"
                 [] Mirror(frames)[n + 1] = "key" -> "value"
                 [] Mirror(frames)[n + 1] = "value" -> "key"
                 [] OTHER -> Mirror(frames)[n + 1]]
    BY <1>6 DEF AfterNode
  <2> QED BY <1>6, <2>2, <2>3
<1> HIDE DEF n, a, b
<1>8. ASSUME NEW i \in 1 .. n + 1 PROVE a[i] = b[i]
  <2>1. CASE i = n + 1
    <3>1. i # 1 /\ i - 1 = n
      BY <1>1, <2>1
    <3>2. a[i] = Construct(f)
      BY <1>3, <1>4, <3>1
    <3> QED BY <1>5, <1>7, <2>1, <3>2
  <2>2. CASE i # n + 1
    <3>1. b[i] = Mirror(frames)[i]
      BY <1>5, <1>7, <2>2
    <3>2. CASE i = 1
      BY <1>4, <1>5, <3>1, <3>2
    <3>3. CASE i # 1
      <4>1. i - 1 \in 1 .. n /\ i - 1 # n
        BY <1>1, <2>2, <3>3
      <4> QED BY <1>3, <1>4, <1>5, <3>1, <3>3, <4>1
    <3> QED BY <3>2, <3>3
  <2> QED BY <2>1, <2>2
<1>9. a = [i \in 1 .. n + 1 |-> a[i]] /\ b = [i \in 1 .. n + 1 |-> b[i]]
  BY <1>4, <1>5, <1>7
<1>10. a = b
  BY <1>8, <1>9
<1> QED BY <1>10 DEF a, b

\* A collection that only gets entries has the same mirror.
LEMMA MirrorKeeps ==
    ASSUME FramesOK(frames), frames # <<>>, NEW f, Construct(f) = Construct(Top)
    PROVE  Mirror(WithTop(f)) = Mirror(frames)
<1> DEFINE n == Len(frames)
           S == Elements(frames) \cup {f}
           a == Mirror(WithTop(f))
           b == Mirror(frames)
<1>1. n \in Nat \ {0} /\ frames \in Seq(S) /\ Len(WithTop(f)) = n /\ Top = frames[n]
  BY FramesTop, WithTopLen, SeqMonotonic DEF FramesOK, Top
<1>2. WithTop(f) = [frames EXCEPT ![n] = f]
  BY DEF WithTop
<1>3. WithTop(f)[n] = f /\ \A i \in 1 .. n : i # n => WithTop(f)[i] = frames[i]
  BY <1>1, <1>2, ExceptSeq
<1>4. a = [i \in 1 .. n + 1 |-> IF i = 1 THEN "document" ELSE Construct(WithTop(f)[i - 1])]
  BY <1>1 DEF Mirror
<1>5. b = [i \in 1 .. n + 1 |-> IF i = 1 THEN "document" ELSE Construct(frames[i - 1])]
  BY DEF Mirror
<1> HIDE DEF n, a, b
<1>6. \A i \in 1 .. n : Construct(WithTop(f)[i]) = Construct(frames[i])
  BY <1>1, <1>3
<1>7. ASSUME NEW i \in 1 .. n + 1 PROVE a[i] = b[i]
  <2>1. i # 1 => i - 1 \in 1 .. n
    BY <1>1
  <2> QED BY <1>4, <1>5, <1>6, <2>1
<1>8. a = [i \in 1 .. n + 1 |-> a[i]] /\ b = [i \in 1 .. n + 1 |-> b[i]]
  BY <1>4, <1>5
<1>9. a = b
  BY <1>7, <1>8
<1> QED BY <1>9 DEF a, b

-----------------------------------------------------------------------------
(***************************************************************************)
(* Every step of a load_all that reads a stream without errors.            *)
(***************************************************************************)

\* The event at the cursor, between two documents and around a node.
LEMMA NextFits ==
    ASSUME IInv, Reading
    PROVE  /\ parser.open = <<>> =>
                  parser.next.type \in {"StreamStart", "StreamEnd", "DocumentStart", "None"}
           /\ parser.open = Mirror(frames) =>
                  /\ parser.open # <<>> /\ check_event(parser) /\ parser.cached
                  /\ \/ parser.next.type \in {"Scalar", "SequenceStart", "MappingStart", "Alias"}
                     \/ AtLoopHead /\ parser.next.type = EndOf(Top.label)
<1>1. parser.next.type \in Expected(parser.open)
  BY DEF Reading, Intact
<1>2. ASSUME parser.open = <<>>
      PROVE  parser.next.type \in {"StreamStart", "StreamEnd", "DocumentStart", "None"}
  BY <1>1, <1>2 DEF Expected
<1>3. ASSUME parser.open = Mirror(frames)
      PROVE  /\ parser.open # <<>> /\ check_event(parser) /\ parser.cached
             /\ \/ parser.next.type \in {"Scalar", "SequenceStart", "MappingStart", "Alias"}
                \/ AtLoopHead /\ parser.next.type = EndOf(Top.label)
  <2> DEFINE nodes == {"Scalar", "SequenceStart", "MappingStart", "Alias"}
             type == parser.next.type
             last == parser.open[Len(parser.open)]
  <2>1. FramesOK(frames)
    BY DEF IInv, TypeOK, ControlOK
  <2>2. /\ parser.open # <<>>
        /\ last = IF frames = <<>> THEN "document" ELSE Construct(Top)
    BY <1>3, <2>1, MirrorShape DEF Top
  <2>3. /\ last = "sequence" => type \in {"SequenceEnd"} \cup nodes
        /\ last = "key" => type \in {"MappingEnd"} \cup nodes
        /\ last \notin {"footer", "sequence", "key"} => type \in nodes
    BY <1>1, <2>2 DEF Expected
  <2> HIDE DEF last
  <2>4. type \in nodes \/ (AtLoopHead /\ type = EndOf(Top.label))
    <3>1. CASE frames = <<>>
      BY <2>2, <2>3, <3>1
    <3>2. CASE frames # <<>> /\ Top.label = SEQ
      <4>1. last = "sequence" /\ AtLoopHead /\ EndOf(Top.label) = "SequenceEnd"
        BY <2>2, <3>2 DEF Construct, AtLoopHead, AtValue, InMapping, EndOf, SEQ, MAP
      <4> QED BY <2>3, <4>1
    <3>3. CASE frames # <<>> /\ Top.label # SEQ /\ Top.key = NoValue
      <4>1. last = "key" /\ AtLoopHead /\ EndOf(Top.label) = "MappingEnd"
        BY <2>2, <3>3 DEF Construct, AtLoopHead, AtValue, EndOf
      <4> QED BY <2>3, <4>1
    <3>4. CASE frames # <<>> /\ Top.label # SEQ /\ Top.key # NoValue
      <4>1. last = "value"
        BY <2>2, <3>4 DEF Construct
      <4> QED BY <2>3, <4>1
    <3> QED BY <3>1, <3>2, <3>3, <3>4
  <2>5. type # "None"
    BY <2>4 DEF EndOf
  <2>6. parser.next # NoEvent
    BY <2>5, MarkTypes DEF NoEvent
  <2> QED BY <2>2, <2>4, <2>6 DEF Reading, Intact, check_event
<1> QED BY <1>2, <1>3

\* What taking an event does to what load_all has read.
LEMMA ConsumeReads ==
    ASSUME IInv, Reading, Consume
    PROVE  /\ Intact(parser)' /\ parser'.open = OpenAfter(parser.open, parser.next)
           /\ parser'.documents = IF parser.next.type = "DocumentStart"
                                  THEN parser.documents - 1 ELSE parser.documents
  BY IntactFollowers DEF Consume, IInv, TypeOK, Reading

\* The steps before a document's node.
LEMMA HeaderReads ==
    ASSUME IInv, Reading, caller = "load_all", outcome = "running",
           BeginDocument \/ HeaderDocumentStart \/ HeaderDone
    PROVE  Reading'
<1> DEFINE between == parser.open = <<>> /\ frames = <<>>
<1>1. pc \in {"idle", "header"} /\ frames = <<>> /\ frames' = <<>> /\ docs' = docs
  BY DEF BeginDocument, HeaderDocumentStart, HeaderDone, Goto, Proceed, client, control,
         IInv, TypeOK, ControlOK
<1>2. CASE BeginDocument
  <2>1. pc = "idle" /\ pc' = "header" /\ parser' = parser
    BY <1>2 DEF BeginDocument, Goto
  <2>2. between /\ between'
    BY <1>1, <2>1 DEF Reading, Aligned
  <2>3. Aligned'
    BY <1>1, <2>1, <2>2 DEF Aligned
  <2>4. Unfinished = 0 /\ Unfinished' = 0
    BY <2>1, <2>2 DEF Unfinished
  <2> QED BY <1>1, <2>1, <2>3, <2>4 DEF Reading, Intact
<1>3. CASE HeaderDone
  <2>1. pc = "header" /\ pc' = "node" /\ parser' = parser
    BY <1>3 DEF HeaderDone, Goto
  <2>2. between \/ parser.open = Mirror(frames)
    BY <2>1 DEF Reading, Aligned
  <2>3. Aligned'
    BY <1>1, <2>1, <2>2 DEF Aligned
  <2>4. Unfinished' = Unfinished
    BY <2>1 DEF Unfinished
  <2> QED BY <1>1, <2>1, <2>3, <2>4 DEF Reading, Intact
<1>4. CASE HeaderDocumentStart
  <2>1. /\ pc = "header" /\ pc' = "header" /\ parser.next.type = "DocumentStart" /\ Consume
    BY <1>4 DEF HeaderDocumentStart, control, Peeks
  <2>2. parser.open = <<>>
    BY <2>1, NextFits DEF Reading, Aligned, EndOf
  <2>3. Intact(parser)' /\ parser'.open = <<"document">> /\ parser'.documents = parser.documents - 1
    BY <2>1, ConsumeReads, OpenAfterCases
  <2>4. parser'.open = Mirror(frames') /\ parser'.open # <<>>
    BY <1>1, <2>3, MirrorEmpty
  <2>5. Aligned'
    BY <1>1, <2>1, <2>4 DEF Aligned
  <2>6. Unfinished = 0 /\ Unfinished' = 1
    BY <2>1, <2>2, <2>4 DEF Unfinished
  <2>7. Len(docs) \in Nat /\ parser.documents \in Nat /\ MaxDocuments \in Nat
    BY StreamAssumption, LenProperties DEF IInv, TypeOK, ClientOK, TreeSeq, Parsers
  <2>8. Len(docs') + parser'.documents + Unfinished' = MaxDocuments
    BY <1>1, <2>3, <2>6, <2>7 DEF Reading
  <2> QED BY <2>3, <2>5, <2>8 DEF Reading
<1> QED BY <1>2, <1>3, <1>4

\* The events around the documents, and the end of them.
LEMMA SkippingReads ==
    ASSUME IInv, Reading, caller = "load_all", outcome = "running",
           SkipStreamBoundary \/ SkipDocumentStart \/ NoMoreEvents
    PROVE  Reading'
<1>1. pc \in {"node", "again"} /\ frames' = frames /\ docs' = docs
  BY EntersPc DEF SkipStreamBoundary, SkipDocumentStart, NoMoreEvents, Takes, Goto, Proceed, client
<1>2. (parser.open = <<>> /\ frames = <<>>) \/ parser.open = Mirror(frames)
  BY <1>1 DEF Reading, Aligned
<1>3. Len(docs) \in Nat /\ parser.documents \in Nat /\ MaxDocuments \in Nat
  BY StreamAssumption, LenProperties DEF IInv, TypeOK, ClientOK, TreeSeq, Parsers
<1>4. CASE SkipStreamBoundary
  <2>1. pc' = "again" /\ parser.next.type \in {"StreamStart", "StreamEnd"} /\ Consume
    BY <1>4 DEF SkipStreamBoundary, Takes, Goto
  <2>2. parser.open = <<>> /\ frames = <<>>
    BY <1>2, <2>1, NextFits DEF EndOf
  <2>3. Intact(parser)' /\ parser'.open = <<>> /\ parser'.documents = parser.documents
    BY <2>1, ConsumeReads, OpenAfterCases
  <2>4. Aligned'
    BY <1>1, <2>1, <2>2, <2>3 DEF Aligned
  <2>5. Unfinished = 0 /\ Unfinished' = 0
    BY <1>1, <2>1, <2>2, <2>3 DEF Unfinished
  <2> QED BY <1>1, <2>3, <2>4, <2>5 DEF Reading
<1>5. CASE SkipDocumentStart
  <2>1. pc' = "again" /\ parser.next.type = "DocumentStart" /\ Consume
    BY <1>5 DEF SkipDocumentStart, Takes, Goto
  <2>2. parser.open = <<>> /\ frames = <<>>
    BY <1>2, <2>1, NextFits DEF EndOf
  <2>3. /\ Intact(parser)' /\ parser'.open = <<"document">>
        /\ parser'.documents = parser.documents - 1
    BY <2>1, ConsumeReads, OpenAfterCases
  <2>4. parser'.open = Mirror(frames') /\ parser'.open # <<>>
    BY <1>1, <2>2, <2>3, MirrorEmpty
  <2>5. Aligned'
    BY <1>1, <2>1, <2>2, <2>4 DEF Aligned
  <2>6. Unfinished = 0 /\ Unfinished' = 1
    BY <1>1, <2>1, <2>2, <2>4 DEF Unfinished
  <2>7. Len(docs') + parser'.documents + Unfinished' = MaxDocuments
    BY <1>1, <1>3, <2>3, <2>6 DEF Reading
  <2> QED BY <2>3, <2>5, <2>7 DEF Reading
<1>6. CASE NoMoreEvents
  <2>1. pc' = "return" /\ result' = NoValue /\ parser' = parser /\ ~check_event(parser)
    BY <1>6 DEF NoMoreEvents, Return
  <2>2. parser.open = <<>> /\ frames = <<>> /\ parser.next = NoEvent
    BY <1>2, <2>1, NextFits DEF check_event
  <2>3. Aligned'
    BY <1>1, <2>1, <2>2 DEF Aligned
  <2>4. Unfinished = 0 /\ Unfinished' = 0
    BY <1>1, <2>1, <2>2 DEF Unfinished
  <2> QED BY <1>1, <2>1, <2>3, <2>4 DEF Reading, Intact
<1> QED BY <1>4, <1>5, <1>6

\* A node without others in it goes from the parser into the collection being composed.
LEMMA LeafReads ==
    ASSUME IInv, Reading, caller = "load_all", outcome = "running", ~Fail,
           ScalarNode \/ ExpandAlias
    PROVE  Reading'
<1>1. /\ pc \in {"node", "again"} /\ pc' = "return" /\ frames' = frames /\ docs' = docs
      /\ result' # NoValue
      /\ parser.next.type \in {"Scalar", "Alias"} /\ Consume
  <2>1. CASE ScalarNode
    <3> DEFINE value == Leaf(compose_scalar(parser.next.value, yaml_version))
    <3>1. value # NoValue
      BY LeafIsTree, EmptySeq DEF IsTree, NoValue
    <3> HIDE DEF value
    <3>2. Takes({"Scalar"}) /\ Consume /\ Complete(value, parser.next.anchor, frames)
      BY <2>1 DEF ScalarNode, value
    <3>3. pc' = "return" /\ frames' = frames /\ docs' = docs /\ result' = value
      BY <3>2 DEF Complete, Return, Proceed, client
    <3> QED BY <3>1, <3>2, <3>3, EntersPc DEF Takes
  <2>2. CASE ExpandAlias
    <3>1. /\ Takes({"Alias"}) /\ Consume /\ frames' = frames /\ Proceed
          /\ \E value : value # NoValue /\ Return(value)
      BY <2>2 DEF ExpandAlias, EntersAlias
    <3> QED BY <3>1, EntersPc DEF Return, Proceed, client, Takes
  <2> QED BY <2>1, <2>2
<1>2. parser.open = Mirror(frames) /\ parser.open # <<>>
  BY <1>1, NextFits DEF Reading, Aligned
<1>3. Mirror(frames) \in Seq(Constructs)
  BY MirrorShape DEF IInv, TypeOK, ControlOK
<1>4. /\ Intact(parser)' /\ parser'.open = AfterNode(Mirror(frames))
      /\ parser'.documents = parser.documents
  BY <1>1, <1>2, ConsumeReads, OpenAfterCases
<1>5. parser'.open # <<>>
  BY <1>2, <1>3, <1>4, AfterNodeOpen
<1>6. Aligned'
  BY <1>1, <1>4 DEF Aligned
<1>7. Unfinished = 1 /\ Unfinished' = 1
  BY <1>2, <1>5 DEF Unfinished
<1> QED BY <1>1, <1>4, <1>6, <1>7 DEF Reading

\* The beginning of a collection.
LEMMA OpeningReads ==
    ASSUME IInv, Reading, caller = "load_all", outcome = "running", ~Fail, OpenCollection
    PROVE  Reading'
<1> DEFINE f == [label |-> IF parser.next.type = "SequenceStart" THEN SEQ ELSE MAP,
                 anchor |-> parser.next.anchor, kids |-> <<>>, key |-> NoValue]
<1>1. /\ pc \in {"node", "again"} /\ pc' = "node" /\ docs' = docs
      /\ frames' = Append(frames, f)
      /\ parser.next.type \in {"SequenceStart", "MappingStart"} /\ Consume
  BY EntersPc DEF OpenCollection, Takes, Proceed, client
<1>2. parser.open = Mirror(frames) /\ parser.open # <<>>
  BY <1>1, NextFits DEF Reading, Aligned
<1>3. Construct(f) = IF parser.next.type = "SequenceStart" THEN "sequence" ELSE "key"
  BY DEF Construct, SEQ, MAP
<1> HIDE DEF f
<1>4. /\ Intact(parser)' /\ parser'.open = Append(parser.open, Construct(f))
      /\ parser'.documents = parser.documents
  BY <1>1, <1>3, ConsumeReads, OpenAfterCases
<1>5. parser'.open = Mirror(frames')
  BY <1>1, <1>2, <1>4, MirrorPush DEF IInv, TypeOK, ControlOK
<1>6. Mirror(frames) \in Seq(Constructs) /\ Construct(f) \in Constructs
  BY MirrorShape DEF IInv, TypeOK, ControlOK, Construct, Constructs
<1>7. Aligned'
  BY <1>1, <1>5 DEF Aligned
<1>8. parser'.open # <<>>
  BY <1>2, <1>4, <1>6, AppendProperties
<1>9. Unfinished = 1 /\ Unfinished' = 1
  BY <1>2, <1>8 DEF Unfinished
<1> QED BY <1>1, <1>4, <1>7, <1>9 DEF Reading

\* The end of a collection.
LEMMA ClosingReads ==
    ASSUME IInv, Reading, caller = "load_all", outcome = "running", ~Fail, EndCollection
    PROVE  Reading'
<1> DEFINE value == Build(Top.label, Top.kids)
<1>1. pc = "node" /\ LoopEnds /\ frames # <<>> /\ FramesOK(frames)
  BY DEF EndCollection, LoopEnds, AtLoopHead, IInv, TypeOK, ControlOK
<1>2. value # NoValue
  <2>1. TreeSeq(Top.kids)
    BY <1>1, FramesTop DEF FrameOK
  <2>2. IsTree(value)
    BY <2>1, BuildIsTree
  <2> QED BY <2>2, EmptySeq DEF IsTree, NoValue
<1> HIDE DEF value
<1>3. pc' = "return" /\ frames' = Pop /\ result' = value /\ docs' = docs
  <2>1. Complete(value, Top.anchor, Pop)
    BY DEF EndCollection, CloseTop, value
  <2> QED BY <2>1 DEF Complete, Return, Proceed, client
<1>4. parser.open = Mirror(frames) /\ parser.open # <<>>
  BY <1>1, NextFits DEF Reading, Aligned
<1>5. parser.next.type = EndOf(Top.label) /\ Consume
  <2>1. parser.next.type = EndOf(Top.label)
    BY <1>1, <1>4, NextFits DEF LoopEnds, Peeks, Boundaries, EndOf
  <2>2. Peeks(parser, {EndOf(Top.label)})
    BY <1>4, <2>1, NextFits DEF Peeks
  <2> QED BY <2>1, <2>2 DEF EndCollection
<1>6. /\ Intact(parser)' /\ parser'.documents = parser.documents
      /\ parser'.open = AfterNode(SubSeq(parser.open, 1, Len(parser.open) - 1))
  <2>1. parser.next.type \in {"SequenceEnd", "MappingEnd"}
    BY <1>5 DEF EndOf
  <2> QED BY <1>5, <2>1, ConsumeReads, OpenAfterCases
<1>7. parser'.open = AfterNode(Mirror(Pop))
  BY <1>1, <1>4, <1>6, MirrorPop
<1>8. parser'.open # <<>>
  <2>1. Mirror(Pop) \in Seq(Constructs) /\ Mirror(Pop) # <<>>
    BY <1>1, FramesPop, MirrorShape
  <2> QED BY <1>7, <2>1, AfterNodeOpen
<1>9. Aligned'
  BY <1>2, <1>3, <1>7 DEF Aligned
<1>10. Unfinished = 1 /\ Unfinished' = 1
  BY <1>4, <1>8 DEF Unfinished
<1> QED BY <1>3, <1>6, <1>9, <1>10 DEF Reading

\* A node inside the innermost collection is over: the collection takes it.
LEMMA ServeReads ==
    ASSUME IInv, Reading, frames # <<>>, parser.open = AfterNode(Mirror(frames)),
           parser' = parser, docs' = docs, pc' = "node",
           NEW f, frames' = WithTop(f), f.label = Top.label,
           Construct(f) = CASE Construct(Top) = "key" -> "value"
                            [] Construct(Top) = "value" -> "key"
                            [] OTHER -> Construct(Top)
    PROVE  Reading'
<1>1. FramesOK(frames)
  BY DEF IInv, TypeOK, ControlOK
<1>2. parser'.open = Mirror(frames')
  BY <1>1, MirrorServe
<1>3. Aligned'
  BY <1>2 DEF Aligned
<1>4. Mirror(frames) \in Seq(Constructs) /\ Mirror(frames) # <<>>
  BY <1>1, MirrorShape
<1>5. parser.open # <<>>
  BY <1>4, AfterNodeOpen
<1>6. Unfinished' = Unfinished
  BY <1>5 DEF Unfinished
<1> QED BY <1>3, <1>6 DEF Reading, Intact

\* compose_node has returned to a loop.
LEMMA ReturnReads ==
    ASSUME IInv, Reading, caller = "load_all", outcome = "running", ~Fail,
           ReturnElement \/ ReturnKey \/ ReturnValue
    PROVE  Reading'
<1>1. pc = "return" /\ frames # <<>>
  BY DEF ReturnElement, ReturnKey, ReturnValue, AtValue, InMapping
<1>2. result # NoValue /\ parser.open = AfterNode(Mirror(frames))
  BY <1>1 DEF Reading, Aligned
<1>3. FrameOK(Top)
  BY <1>1, FramesTop DEF IInv, TypeOK, ControlOK
<1>4. ASSUME NEW n, NEW kids, AddItem(n, kids), Construct(Top) # "key"
      PROVE  Reading'
  <2> DEFINE f == [Top EXCEPT !.kids = kids, !.key = NoValue]
  <2>1. /\ frames' = WithTop(f) /\ pc' = "node" /\ parser' = parser /\ docs' = docs
    BY <1>4 DEF AddItem, Proceed, client
  <2>2. f.label = Top.label /\ f.key = NoValue
    BY <1>3 DEF FrameOK
  <2>3. Construct(f) = CASE Construct(Top) = "key" -> "value"
                         [] Construct(Top) = "value" -> "key"
                         [] OTHER -> Construct(Top)
    BY <1>4, <2>2 DEF Construct
  <2> HIDE DEF f
  <2> QED BY <1>1, <1>2, <2>1, <2>2, <2>3, ServeReads
<1>5. CASE ReturnElement
  <2>1. Construct(Top) = "sequence" /\ AddItem(1, Append(Top.kids, result))
    BY <1>5 DEF ReturnElement, Construct
  <2> QED BY <1>4, <2>1
<1>6. CASE ReturnValue
  <2>1. Construct(Top) = "value" /\ AddItem(2, Insert(Top.kids, Top.key, ValueOrNull))
    BY <1>6 DEF ReturnValue, Construct, AtValue, InMapping, SEQ, MAP
  <2> QED BY <1>4, <2>1
<1>7. CASE ReturnKey
  <2> DEFINE f == [Top EXCEPT !.key = result]
  <2>1. /\ frames' = WithTop(f) /\ pc' = "node" /\ parser' = parser /\ docs' = docs
        /\ Top.label = MAP /\ Top.key = NoValue
    BY <1>7 DEF ReturnKey, Proceed, client, InMapping, AtValue
  <2>2. f.label = Top.label /\ f.key = result
    BY <1>3 DEF FrameOK
  <2>3. Construct(Top) = "key" /\ Construct(f) = "value"
    BY <1>2, <2>1, <2>2 DEF Construct, SEQ, MAP
  <2> HIDE DEF f
  <2> QED BY <1>1, <1>2, <2>1, <2>2, <2>3, ServeReads
<1> QED BY <1>5, <1>6, <1>7

\* A merge reads nothing.
LEMMA MergeReads ==
    ASSUME IInv, Reading, caller = "load_all", outcome = "running", ~Fail,
           BeginMerge \/ MergeEntry \/ NextSource \/ EndMerge
    PROVE  Reading'
<1>1. /\ pc \in {"return", "merge"} /\ parser' = parser /\ docs' = docs /\ AtValue
      /\ frames # <<>>
  BY DEF BeginMerge, MergeEntry, NextSource, EndMerge, Proceed, client, Reading, Aligned,
         AtValue, InMapping
<1>2. parser.open = AfterNode(Mirror(frames))
  BY <1>1 DEF Reading, Aligned
<1>3. FramesOK(frames) /\ FrameOK(Top)
  BY <1>1, FramesTop DEF IInv, TypeOK, ControlOK
<1>4. parser.open # <<>>
  BY <1>2, <1>3, MirrorShape, AfterNodeOpen
<1>5. Unfinished' = Unfinished
  BY <1>1, <1>4 DEF Unfinished
<1>6. CASE BeginMerge \/ NextSource
  <2>1. pc' = "merge" /\ frames' = frames
    BY <1>6 DEF BeginMerge, NextSource
  <2>2. AtValue'
    BY <1>1, <2>1 DEF AtValue, InMapping, Top
  <2>3. Aligned'
    BY <1>1, <1>2, <2>1, <2>2 DEF Aligned
  <2> QED BY <1>1, <1>5, <2>3 DEF Reading, Intact
<1>7. CASE MergeEntry
  <2> DEFINE k == Child(Source, 2 * merging.entry - 1)
             v == Child(Source, 2 * merging.entry)
             f == [Top EXCEPT !.kids = OrInsert(@, k, v)]
  <2>1. pc' = "merge" /\ frames' = WithTop(f)
    BY <1>7 DEF MergeEntry
  <2>2. f.label = Top.label /\ f.key = Top.key
    BY <1>3 DEF FrameOK
  <2> HIDE DEF f
  <2>3. Construct(f) = Construct(Top)
    BY <2>2 DEF Construct
  <2>4. Mirror(frames') = Mirror(frames)
    BY <1>1, <1>3, <2>1, <2>3, MirrorKeeps
  <2>5. AtValue'
    <3>1. WithTop(f) # <<>> /\ WithTop(f)[Len(WithTop(f))] = f
      BY <1>1, <1>3, WithTopLen
    <3> QED BY <1>1, <2>1, <2>2, <3>1 DEF AtValue, InMapping, Top
  <2>6. Aligned'
    BY <1>1, <1>2, <2>1, <2>4, <2>5 DEF Aligned
  <2> QED BY <1>1, <1>5, <2>6 DEF Reading, Intact
<1>8. CASE EndMerge
  <2> DEFINE f == [Top EXCEPT !.key = NoValue]
  <2>1. /\ frames' = WithTop(f) /\ pc' = "node" /\ Top.label = MAP /\ Top.key # NoValue
    BY <1>1, <1>8 DEF EndMerge, InMapping, AtValue
  <2>2. f.label = Top.label /\ f.key = NoValue
    BY <1>3 DEF FrameOK
  <2>3. Construct(Top) = "value" /\ Construct(f) = "key"
    BY <2>1, <2>2 DEF Construct, SEQ, MAP
  <2> HIDE DEF f
  <2> QED BY <1>1, <1>2, <2>1, <2>2, <2>3, ServeReads
<1> QED BY <1>6, <1>7, <1>8

\* The steps after a document's node.
LEMMA FooterReads ==
    ASSUME IInv, Reading, caller = "load_all", outcome = "running",
           ReturnToDocument \/ FooterDocumentEnd
    PROVE  Reading'
<1>1. frames = <<>> /\ frames' = <<>> /\ docs' = docs /\ pc' = "footer" /\ result' = result
  BY DEF ReturnToDocument, FooterDocumentEnd, Goto, Proceed, client, control, IInv, TypeOK, ControlOK
<1>2. Mirror(frames) \in Seq(Constructs) /\ Mirror(frames) # <<>>
  BY MirrorShape DEF IInv, TypeOK, ControlOK
<1>3. CASE ReturnToDocument
  <2>1. pc = "return" /\ parser' = parser
    BY <1>3 DEF ReturnToDocument
  <2>2. CASE result = NoValue
    <3>1. parser.open = <<>> /\ parser.next = NoEvent
      BY <2>1, <2>2 DEF Reading, Aligned
    <3>2. Aligned'
      BY <1>1, <2>1, <2>2, <3>1 DEF Aligned
    <3>3. Unfinished = 0 /\ Unfinished' = 0
      BY <1>1, <2>1, <2>2, <3>1 DEF Unfinished
    <3> QED BY <1>1, <2>1, <3>2, <3>3 DEF Reading, Intact
  <2>3. CASE result # NoValue
    <3>1. parser.open = AfterNode(Mirror(frames))
      BY <2>1, <2>3 DEF Reading, Aligned
    <3>2. parser.open # <<>>
      BY <1>2, <3>1, AfterNodeOpen
    <3>3. Aligned'
      BY <1>1, <2>1, <2>3, <3>1 DEF Aligned
    <3>4. Unfinished = 1 /\ Unfinished' = 1
      BY <2>1, <3>2 DEF Unfinished
    <3> QED BY <1>1, <2>1, <3>3, <3>4 DEF Reading, Intact
  <2> QED BY <2>2, <2>3
<1>4. CASE FooterDocumentEnd
  <2>1. pc = "footer" /\ parser.next.type = "DocumentEnd" /\ Consume
    BY <1>4 DEF FooterDocumentEnd, FooterSees, Peeks
  <2>2. parser.open # <<>>
    BY <2>1, NextFits
  <2>3. result # NoValue
    BY <2>1, <2>2 DEF Reading, Aligned
  <2>4. Intact(parser)' /\ parser'.open = <<>> /\ parser'.documents = parser.documents
    BY <2>1, ConsumeReads, OpenAfterCases
  <2>5. Aligned'
    BY <1>1, <2>3, <2>4 DEF Aligned
  <2>6. Unfinished = 1 /\ Unfinished' = 1
    BY <1>1, <2>1, <2>3 DEF Unfinished
  <2> QED BY <1>1, <2>4, <2>5, <2>6 DEF Reading
<1> QED BY <1>3, <1>4

\* At the end of the stream the client has every document.
LEMMA AllDelivered ==
    ASSUME IInv, Reading, Unfinished = 0, parser.next.type \in {"StreamEnd", "None"},
           parser' = parser, docs' = IF docs = <<>> THEN <<Leaf(Null)>> ELSE docs
    PROVE  EveryDocumentOnce'
<1>1. /\ Len(docs) \in Nat /\ docs \in Seq(Elements(docs))
      /\ parser.documents \in Nat /\ MaxDocuments \in Nat
  BY StreamAssumption, LenProperties DEF IInv, TypeOK, ClientOK, TreeSeq, Parsers
<1>2. Len(docs) = MaxDocuments - parser'.documents
  BY <1>1 DEF Reading
<1>3. CASE docs = <<>>
  <2>1. Len(docs) = 0 /\ Len(docs') = 1
    BY <1>3
  <2> QED BY <1>2, <2>1 DEF EveryDocumentOnce
<1>4. CASE docs # <<>>
  <2>1. Len(docs) # 0 /\ docs' = docs
    BY <1>1, <1>4, EmptySeq
  <2> QED BY <1>2, <2>1 DEF EveryDocumentOnce
<1> QED BY <1>3, <1>4

\* A document that is returned is one more for the client, and when none is
\* returned the client has them all.
LEMMA DocumentReads ==
    ASSUME IInv, Reading, caller = "load_all", outcome = "running", ReturnDocument
    PROVE  IF outcome' = "running" THEN Reading' ELSE outcome' = "ok" /\ EveryDocumentOnce'
<1>1. /\ pc = "footer" /\ ~FooterSees /\ pc' = "idle" /\ parser' = parser
      /\ frames = <<>> /\ frames' = <<>> /\ result' = NoValue
  BY DEF ReturnDocument, IInv, TypeOK, ControlOK
<1>2. Len(docs) \in Nat /\ docs \in Seq(Elements(docs)) /\ parser.documents \in Nat /\ MaxDocuments \in Nat
  BY StreamAssumption, LenProperties DEF IInv, TypeOK, ClientOK, TreeSeq, Parsers
<1>3. CASE result # NoValue
  <2>1. docs' = Append(docs, result) /\ outcome' = "running"
    BY <1>3 DEF ReturnDocument
  <2>2. Len(docs') = Len(docs) + 1
    <3> DEFINE S == Elements(docs) \cup {result}
    <3>1. docs \in Seq(S)
      BY <1>2, SeqMonotonic
    <3> QED BY <2>1, <3>1, AppendProperties
  <2>3. parser.open = <<>>
    <3>1. ASSUME parser.open = AfterNode(Mirror(frames)) PROVE FALSE
      <4>1. parser.open = AfterNode(<<"document">>)
        BY <1>1, <3>1, MirrorEmpty
      <4>2. parser.open # <<>> /\ parser.open[Len(parser.open)] = "footer"
        BY <4>1 DEF AfterNode
      <4>3. parser.next.type = "DocumentEnd"
        BY <4>2 DEF Reading, Intact, Expected
      <4>4. parser.cached
        BY <4>3, MarkTypes DEF Reading, Intact, NoEvent
      <4> QED BY <1>1, <4>3, <4>4 DEF FooterSees, Peeks
    <3> QED BY <1>1, <1>3, <3>1 DEF Reading, Aligned
  <2>4. Aligned'
    BY <1>1, <2>3 DEF Aligned
  <2>5. Unfinished = 1 /\ Unfinished' = 0
    BY <1>1, <1>3, <2>3 DEF Unfinished
  <2>6. Len(docs') + parser'.documents + Unfinished' = MaxDocuments
    BY <1>1, <1>2, <2>2, <2>5 DEF Reading
  <2> QED BY <1>1, <2>1, <2>4, <2>6 DEF Reading, Intact
<1>4. CASE result = NoValue
  <2>1. outcome' = "ok" /\ docs' = IF docs = <<>> THEN <<Leaf(Null)>> ELSE docs
    BY <1>4 DEF ReturnDocument
  <2>2. parser.open = <<>> /\ parser.next = NoEvent
    BY <1>1, <1>4 DEF Reading, Aligned
  <2>3. parser.next.type = "None"
    BY <2>2, MarkTypes DEF NoEvent
  <2>4. Unfinished = 0
    BY <1>1, <1>4, <2>2 DEF Unfinished
  <2> QED BY <1>1, <1>2, <2>1, <2>3, <2>4, AllDelivered DEF Reading
<1> QED BY <1>3, <1>4

\* Where the events fit, no loop and no node is left without one.
LEMMA NothingMissing ==
    ASSUME IInv, Reading
    PROVE  ~NoNode /\ ~ReturnNone
<1>1. ASSUME NoNode PROVE FALSE
  <2>1. /\ pc \in {"node", "again"} /\ (pc = "node" => ~LoopEnds)
        /\ parser.next.type \in {"DocumentEnd", "SequenceEnd", "MappingEnd"}
    BY <1>1, EntersPc DEF NoNode, Takes, Enters
  <2>2. parser.open = Mirror(frames)
    BY <2>1, NextFits DEF Reading, Aligned
  <2>3. AtLoopHead /\ parser.next.type = EndOf(Top.label) /\ parser.cached
    BY <2>1, <2>2, NextFits
  <2>4. pc = "node"
    BY <2>1, <2>3 DEF Reading, Aligned, AtLoopHead
  <2>5. LoopEnds
    BY <2>3 DEF LoopEnds, Peeks
  <2> QED BY <2>1, <2>4, <2>5
<1>2. ASSUME ReturnNone PROVE FALSE
  BY <1>2 DEF ReturnNone, AtLoopHead, Reading, Aligned
<1> QED BY <1>1, <1>2

\* A step of a load_all that reads a stream without errors fails, goes on or succeeds.
LEMMA ReadingStep ==
    ASSUME IInv, Reading, caller = "load_all", outcome = "running", Step, ~Fail
    PROVE  IF outcome' = "running" THEN Reading' ELSE outcome' = "ok" /\ EveryDocumentOnce'
<1>1. CASE Call
  <2>1. CASE BeginDocument
    <3>1. outcome' = outcome
      BY <2>1 DEF BeginDocument
    <3> QED BY <2>1, <3>1, HeaderReads
  <2>2. CASE FinishLoadAll
    <3>1. /\ outcome' = "ok" /\ parser' = parser
          /\ docs' = IF docs = <<>> THEN <<Leaf(Null)>> ELSE docs
          /\ pc = "idle" /\ ~check_document(parser)
      BY <2>2 DEF FinishLoadAll
    <3>2. parser.next.type \in {"StreamEnd", "None"}
      BY <3>1, MarkTypes DEF check_document, Reading, Intact, NoEvent
    <3>3. Unfinished = 0
      BY <3>1 DEF Unfinished, Reading, Aligned
    <3> QED BY <3>1, <3>2, <3>3, AllDelivered
  <2> QED BY <1>1, <2>1, <2>2 DEF Call, ReportScanningError, Reset
<1>2. CASE Frame
  <2>1. CASE HeaderDocumentStart \/ HeaderDone
    <3>1. outcome' = outcome
      BY <2>1 DEF HeaderDocumentStart, HeaderDone, Proceed, client
    <3> QED BY <2>1, <3>1, HeaderReads
  <2>2. CASE FooterDocumentEnd
    <3>1. outcome' = outcome
      BY <2>2 DEF FooterDocumentEnd, Proceed, client
    <3> QED BY <2>2, <3>1, FooterReads
  <2>3. CASE ReturnDocument
    BY <2>3, DocumentReads
  <2> QED BY <1>2, <2>1, <2>2, <2>3 DEF Frame, RefuseDocument
<1>3. CASE Node
  <2>1. CASE NoMoreEvents \/ SkipStreamBoundary \/ SkipDocumentStart
    <3>1. outcome' = outcome
      BY <2>1 DEF NoMoreEvents, SkipStreamBoundary, SkipDocumentStart, Proceed, client
    <3> QED BY <2>1, <3>1, SkippingReads
  <2>2. CASE ScalarNode \/ ExpandAlias
    <3>1. outcome' = outcome
      BY <2>2 DEF ScalarNode, ExpandAlias, Complete, Proceed, client
    <3> QED BY <2>2, <3>1, LeafReads
  <2>3. CASE OpenCollection
    <3>1. outcome' = outcome
      BY <2>3 DEF OpenCollection, Proceed, client
    <3> QED BY <2>3, <3>1, OpeningReads
  <2>4. CASE EndCollection
    <3>1. outcome' = outcome
      BY <2>4 DEF EndCollection, CloseTop, Complete, Proceed, client
    <3> QED BY <2>4, <3>1, ClosingReads
  <2> QED BY <1>3, <2>1, <2>2, <2>3, <2>4, NothingMissing
          DEF Node, ParserError, RefuseScalar, RefuseAlias, UnknownAlias, OverLimitAlias
<1>4. CASE Returning
  <2>1. CASE ReturnToDocument
    <3>1. outcome' = outcome
      BY <2>1 DEF ReturnToDocument, Proceed, client
    <3> QED BY <2>1, <3>1, FooterReads
  <2>2. CASE ReturnElement \/ ReturnKey \/ ReturnValue
    <3>1. outcome' = outcome
      BY <2>2 DEF ReturnElement, ReturnKey, ReturnValue, AddItem, Proceed, client
    <3> QED BY <2>2, <3>1, ReturnReads
  <2>3. CASE BeginMerge \/ MergeEntry \/ NextSource \/ EndMerge
    <3>1. outcome' = outcome
      BY <2>3 DEF BeginMerge, MergeEntry, NextSource, EndMerge, Proceed, client
    <3> QED BY <2>3, <3>1, MergeReads
  <2> QED BY <1>4, <2>1, <2>2, <2>3, NothingMissing DEF Returning, RefuseMerge
<1> QED BY <1>1, <1>2, <1>3, <1>4 DEF Step, Terminated, Finished

\* A call ends with nothing under way, and nothing begins after the end.
LEMMA EndsIdle ==
    ASSUME Step, outcome # "running" => pc = "idle"
    PROVE  /\ outcome' # "running" => pc' = "idle"
           /\ outcome # "running" /\ caller # "direct" => UNCHANGED vars
<1>1. CASE Call
  BY <1>1 DEF Call, BeginDocument, ReportScanningError, FinishLoadAll, Reset, Goto, Fail, control
<1>2. CASE Frame
  BY <1>2 DEF Frame, HeaderDocumentStart, HeaderDone, FooterDocumentEnd, ReturnDocument,
              RefuseDocument, Goto, Fail, Proceed, client, control
<1>3. CASE Node
  <2>1. pc \in {"node", "again"}
    BY <1>3, EntersPc DEF Node, NoMoreEvents, ParserError, SkipStreamBoundary, SkipDocumentStart,
       NoNode, ScalarNode, RefuseScalar, OpenCollection, EndCollection, RefuseAlias, UnknownAlias,
       OverLimitAlias, ExpandAlias, EntersAlias, Takes
  <2>2. Proceed \/ Fail
    BY <1>3 DEF Node, NoMoreEvents, ParserError, SkipStreamBoundary, SkipDocumentStart,
       NoNode, ScalarNode, RefuseScalar, OpenCollection, EndCollection, RefuseAlias, UnknownAlias,
       OverLimitAlias, ExpandAlias, CloseTop, Complete
  <2> QED BY <2>1, <2>2 DEF Proceed, client, Fail
<1>4. CASE Returning
  <2>1. pc \in {"return", "merge"}
    BY <1>4 DEF Returning, ReturnToDocument, ReturnNone, ReturnElement, ReturnKey, ReturnValue,
       BeginMerge, RefuseMerge, MergeEntry, NextSource, EndMerge
  <2>2. Proceed \/ Fail
    BY <1>4 DEF Returning, ReturnToDocument, ReturnNone, ReturnElement, ReturnKey, ReturnValue,
       BeginMerge, RefuseMerge, MergeEntry, NextSource, EndMerge, AddItem, CloseTop, Complete
  <2> QED BY <2>1, <2>2 DEF Proceed, client, Fail
<1>5. CASE Terminated
  BY <1>5 DEF Terminated, vars, control, client
<1> QED BY <1>1, <1>2, <1>3, <1>4, <1>5 DEF Step

\* What a step makes of the parser.
LEMMA ParserSteps ==
    ASSUME Step
    PROVE  parser' \in {parser} \cup Followers(parser) \cup AfterFault(parser)
                       \cup {TakeScanningError(parser)}
<1>1. CASE Call
  BY <1>1 DEF Call, BeginDocument, ReportScanningError, FinishLoadAll, Reset
<1>2. CASE Frame
  BY <1>2 DEF Frame, HeaderDocumentStart, HeaderDone, FooterDocumentEnd, ReturnDocument,
              RefuseDocument, Consume
<1>3. CASE Node
  BY <1>3 DEF Node, NoMoreEvents, ParserError, SkipStreamBoundary, SkipDocumentStart,
       NoNode, ScalarNode, RefuseScalar, OpenCollection, EndCollection, RefuseAlias, UnknownAlias,
       OverLimitAlias, ExpandAlias, EntersAlias, Consume
<1>4. CASE Returning
  BY <1>4 DEF Returning, ReturnToDocument, ReturnNone, ReturnElement, ReturnKey, ReturnValue,
       BeginMerge, RefuseMerge, MergeEntry, NextSource, EndMerge, AddItem
<1>5. CASE Terminated
  BY <1>5 DEF Terminated, vars
<1> QED BY <1>1, <1>2, <1>3, <1>4, <1>5 DEF Step

\* The streams before the first call.
LEMMA LoadBegins == Init => LoadInv
<1> SUFFICES ASSUME Init, caller = "load_all", parser.eager, ~parser.broken
             PROVE  outcome = "running" /\ pc = "idle" /\ (Unreported \/ Reading)
  BY DEF LoadInv, Init, ComposerInit
<1>1. /\ outcome = "running" /\ pc = "idle" /\ frames = <<>> /\ docs = <<>> /\ result = NoValue
  BY DEF Init, ComposerInit
<1>2. /\ parser.next = Mark("StreamStart") /\ parser.cached /\ parser.open = <<>>
      /\ parser.documents = MaxDocuments
      /\ parser.scanning_error \/ Intact(parser)
  BY NewEagerParsers DEF Init
<1>3. CASE parser.scanning_error
  <2>1. parser.next.type = "StreamStart"
    BY <1>2, MarkTypes
  <2> QED BY <1>1, <1>2, <1>3, <2>1 DEF Unreported, check_document
<1>4. CASE Intact(parser)
  <2>1. Aligned
    BY <1>1, <1>2 DEF Aligned
  <2>2. Unfinished = 0 /\ Len(docs) = 0
    BY <1>1, <1>2 DEF Unfinished
  <2>3. Len(docs) + parser.documents + Unfinished = MaxDocuments
    BY <1>2, <2>2, StreamAssumption
  <2> QED BY <1>1, <1>4, <2>1, <2>3 DEF Reading
<1> QED BY <1>1, <1>2, <1>3, <1>4

\* Every step keeps what load_all has read.
LEMMA LoadStep ==
    ASSUME IInv, LoadInv, [Next]_vars
    PROVE  LoadInv'
<1>1. CASE vars' = vars
  <2>1. Intact(parser)' = Intact(parser)
    BY <1>1 DEF vars, Intact
  <2>2. /\ Aligned' = Aligned /\ Unfinished' = Unfinished /\ Unreported' = Unreported
        /\ EveryDocumentOnce' = EveryDocumentOnce
    BY <1>1 DEF vars, control, client, Aligned, AtValue, InMapping, Top, Unfinished, Unreported,
                EveryDocumentOnce
  <2>3. Reading' = Reading
    BY <1>1, <2>1, <2>2 DEF vars, client, Reading
  <2> QED BY <1>1, <2>2, <2>3 DEF vars, control, client, LoadInv
<1>2. CASE Step /\ caller' = caller
  <2>1. /\ outcome' # "running" => pc' = "idle"
        /\ outcome # "running" /\ caller # "direct" => UNCHANGED vars
    BY <1>2, EndsIdle DEF LoadInv
  <2>2. ASSUME caller = "load_all", parser'.eager, ~parser'.broken, vars' # vars
        PROVE  CASE outcome' = "running" -> Unreported' \/ Reading'
                 [] outcome' = "ok" -> EveryDocumentOnce'
                 [] OTHER -> TRUE
    <3>1. parser.eager /\ ~parser.broken
      BY <1>2, <2>2, ParserSteps, StaysBroken DEF IInv, TypeOK
    <3>2. outcome = "running" /\ (Unreported \/ Reading)
      BY <2>1, <2>2, <3>1 DEF LoadInv
    <3>3. CASE Fail
      <4>1. outcome' = "error"
        BY <2>2, <3>3 DEF Fail
      <4> QED BY <4>1
    <3>4. CASE Reading /\ ~Fail
      <4>1. IF outcome' = "running" THEN Reading' ELSE outcome' = "ok" /\ EveryDocumentOnce'
        BY <1>2, <2>2, <3>2, <3>4, ReadingStep
      <4> QED BY <4>1
    <3>5. CASE Unreported /\ ~Fail
      <4>1. pc = "idle" /\ parser.scanning_error /\ check_document(parser)
        BY <3>5 DEF Unreported
      <4>2. ~Call
        BY <2>2, <3>5, <4>1 DEF Call, BeginDocument, ReportScanningError, FinishLoadAll, Reset
      <4>3. ~Frame /\ ~Returning
        BY <4>1 DEF Frame, HeaderDocumentStart, HeaderDone, FooterDocumentEnd, ReturnDocument,
           RefuseDocument, Returning, ReturnToDocument, ReturnNone, ReturnElement, ReturnKey,
           ReturnValue, BeginMerge, RefuseMerge, MergeEntry, NextSource, EndMerge
      <4>4. ~Node
        BY <4>1, EntersPc DEF Node, NoMoreEvents, ParserError, SkipStreamBoundary,
           SkipDocumentStart, NoNode, ScalarNode, RefuseScalar, OpenCollection, EndCollection,
           RefuseAlias, UnknownAlias, OverLimitAlias, ExpandAlias, EntersAlias, Takes
      <4> QED BY <1>2, <2>2, <4>2, <4>3, <4>4 DEF Step, Terminated
    <3> QED BY <3>2, <3>3, <3>4, <3>5
  <2> QED BY <1>1, <1>2, <2>1, <2>2 DEF LoadInv
<1> QED BY <1>1, <1>2 DEF Next

\* A load_all that succeeds on a stream without errors returns one value for each of
\* its documents and has read it to the end, whatever the events, the limits and the
\* values are (src/yaml.rs parse_yaml_documents and src/composer.rs compose_document).
THEOREM EveryDocumentRead == Spec => []EveryDocumentOnce
<1>1. Init => LoadInv
  BY LoadBegins
<1>2. IInv /\ LoadInv /\ [Next]_vars => LoadInv'
  BY LoadStep
<1>3. LoadInv => EveryDocumentOnce
  BY DEF LoadInv, EveryDocumentOnce
<1> QED BY <1>1, <1>2, <1>3, Invariance, PTL DEF Spec

-----------------------------------------------------------------------------
(***************************************************************************)
(* What load and load_all return has been charged.  The nodes the client   *)
(* has are bounded by complexity_score together with those that are still  *)
(* held: in the open collections, in the value just returned, and in the   *)
(* part of a merged value that process_merge_key has not passed yet.       *)
(***************************************************************************)

\* The nodes below the root of a value that was composed or expanded.
Inner(v) == IF v = NoValue THEN 0 ELSE NodeCount(v) - 1

FrameNodes(f) == (NodeCount(Build(f.label, f.kids)) - 1) + Inner(f.key)
AddFrame(n, f) == n + FrameNodes(f)
OpenNodes(fs) == FoldLeft(AddFrame, 0, fs)

\* The paths of a merged value that are still to be passed.
Started(p, n) == p # <<>> /\ Head(p) \notin 1 .. n
Unmerged(m) ==
    {p \in DOMAIN m.value :
        IF Label(m.value) = SEQ
        THEN /\ Started(p, m.element - 1)
             /\ Head(p) = m.element => Started(Tail(p), 2 * m.entry - 2)
        ELSE m.element = 1 /\ Started(p, 2 * m.entry - 2)}

Held(fs, r, m) == OpenNodes(fs) + Inner(r) + Cardinality(Unmerged(m))

EntriesApart(fs) == \A f \in Elements(fs) : f.label = MAP => EntriesOK(f.kids)

MergeCounted(m) == m.element \in Nat \ {0} /\ m.entry \in Nat \ {0}

\* The inductive invariant.  A merge charges nothing: what it inserts is taken
\* from the paths not passed yet, and each of them only once.
ChargeInv ==
    /\ EntriesApart(frames)
    /\ MergeCounted(merging)
    /\ caller # "direct" =>
           TotalNodes(docs) + Held(frames, result, merging) <= tracker.complexity_score + Len(docs)

DocSum == INSTANCE FoldProofs WITH Op <- AddNodes
FrameSum == INSTANCE FoldProofs WITH Op <- AddFrame

\* The nodes of the documents are a fold.
LEMMA DocFold == \A s : DocSum!Fold(0, s) = TotalNodes(s)
BY Zenon DEF DocSum!Fold, DocSum!FoldLeft, TotalNodes, FoldLeft, DocSum!MapThenFoldSet,
             MapThenFoldSet, DocSum!Max, Max

\* The nodes of the open collections are a fold.
LEMMA FrameFold == \A s : FrameSum!Fold(0, s) = OpenNodes(s)
BY Zenon DEF FrameSum!Fold, FrameSum!FoldLeft, OpenNodes, FoldLeft, FrameSum!MapThenFoldSet,
             MapThenFoldSet, FrameSum!Max, Max

\* A value has its root and what is below it.
LEMMA InnerNodes ==
    ASSUME NEW v, OptTree(v)
    PROVE  /\ Inner(v) \in Nat
           /\ IsTree(v) => Inner(v) = NodeCount(v) - 1
           /\ v = NoValue => Inner(v) = 0
           /\ v # NoValue => IsTree(v)
<1>1. CASE v = NoValue
  <2>1. DOMAIN NoValue = {}
    BY DEF NoValue
  <2> QED BY <1>1, <2>1 DEF Inner, IsTree
<1>2. CASE v # NoValue
  <2>1. IsTree(v) BY <1>2 DEF OptTree
  <2>2. NodeCount(v) \in Nat \ {0} BY <2>1, ComplexityCoversNodes
  <2> QED BY <1>2, <2>1, <2>2 DEF Inner
<1> QED BY <1>1, <1>2

\* An open collection holds what is below its root, and its pending key.
LEMMA FrameNodesTyped ==
    ASSUME NEW f, FrameOK(f)
    PROVE  /\ NodeCount(Build(f.label, f.kids)) \in Nat \ {0}
           /\ Inner(f.key) \in Nat
           /\ FrameNodes(f) \in Nat
           /\ FrameNodes(f) = NodeCount(Build(f.label, f.kids)) - 1 + Inner(f.key)
<1>1. IsTree(Build(f.label, f.kids))
  BY BuildIsTree DEF FrameOK
<1>2. NodeCount(Build(f.label, f.kids)) \in Nat \ {0}
  BY <1>1, ComplexityCoversNodes
<1>3. Inner(f.key) \in Nat
  BY InnerNodes DEF FrameOK
<1> QED BY <1>2, <1>3 DEF FrameNodes

\* The open collections hold a number of nodes.
LEMMA OpenNodesTyped ==
    ASSUME NEW fs, FramesOK(fs)
    PROVE  OpenNodes(fs) \in Nat
<1>1. fs \in Seq(Elements(fs)) /\ 0 \in Nat
  BY DEF FramesOK
<1>2. \A n \in Nat, f \in Elements(fs) : AddFrame(n, f) \in Nat
  BY FrameNodesTyped DEF FramesOK, AddFrame
<1>3. FrameSum!Fold(0, fs) \in Nat
  BY <1>1, <1>2, FrameSum!FoldInvariant
<1> QED BY <1>3, FrameFold

\* No collection is open.
LEMMA NothingOpen == OpenNodes(<<>>) = 0
  BY FrameSum!FoldEmpty, FrameFold

\* One collection more.
LEMMA OpenNodesPush ==
    ASSUME NEW fs, FramesOK(fs), NEW f
    PROVE  OpenNodes(Append(fs, f)) = OpenNodes(fs) + FrameNodes(f)
<1> DEFINE S == Elements(fs) \cup {f}
<1>1. fs \in Seq(S) /\ f \in S
  BY SeqMonotonic DEF FramesOK
<1> HIDE DEF S
<1>2. FrameSum!Fold(0, Append(fs, f)) = AddFrame(FrameSum!Fold(0, fs), f)
  BY <1>1, FrameSum!FoldAppend
<1> QED BY <1>2, FrameFold DEF AddFrame

\* The innermost collection and the others.
LEMMA OpenNodesTop ==
    ASSUME FramesOK(frames), frames # <<>>
    PROVE  /\ OpenNodes(frames) = OpenNodes(Pop) + FrameNodes(Top)
           /\ OpenNodes(Pop) \in Nat
           /\ \A f : OpenNodes(WithTop(f)) = OpenNodes(Pop) + FrameNodes(f)
<1>1. FramesOK(Pop) /\ Len(Pop) = Len(frames) - 1 /\ OpenNodes(Pop) \in Nat
  BY FramesPop, OpenNodesTyped
<1>2. Len(frames) \in Nat \ {0} /\ frames \in Seq(Elements(frames))
  BY FramesTop DEF FramesOK
<1>3. frames = Append(Pop, Top)
  BY <1>2 DEF Pop, Top
<1>4. ASSUME NEW f PROVE WithTop(f) = Append(Pop, f)
  <2> DEFINE S == Elements(frames) \cup {f}
  <2>1. frames \in Seq(S) /\ f \in S
    BY <1>2, SeqMonotonic
  <2> HIDE DEF S
  <2> DEFINE n == Len(frames)
             a == WithTop(f)
             b == Append(Pop, f)
  <2>2. n \in Nat \ {0} /\ n - 1 \in Nat /\ \A i \in 1 .. n - 1 : frames[i] \in S
    <3>1. n \in Nat \ {0} BY <1>2
    <3>2. DOMAIN frames = 1 .. n BY <1>2
    <3> QED BY <2>1, <3>1, <3>2
  <2>3. /\ Pop \in Seq(S) /\ Len(Pop) = n - 1
        /\ \A i \in 1 .. n - 1 : Pop[i] = frames[i]
    <3> DEFINE m == n - 1
    <3> HIDE DEF n
    <3>1. m \in Nat /\ \A i \in 1 .. m : frames[i] \in S BY <2>2
    <3> HIDE DEF m
    <3>2. /\ SubSeq(frames, 1, m) \in Seq(S) /\ Len(SubSeq(frames, 1, m)) = m
          /\ \A i \in 1 .. m : SubSeq(frames, 1, m)[i] = frames[i]
      BY <3>1, SubSeqProperties
    <3> QED BY <3>2 DEF Pop, m, n
  <2>4. b = [i \in 1 .. n |-> b[i]] /\ \A i \in 1 .. n : b[i] = IF i = n THEN f ELSE frames[i]
    <3>1. /\ b \in Seq(S) /\ Len(b) = Len(Pop) + 1
          /\ \A i \in 1 .. Len(Pop) : b[i] = Pop[i]
          /\ b[Len(Pop) + 1] = f
      BY <2>1, <2>3, AppendProperties
    <3> HIDE DEF b, n
    <3>2. Len(b) = n /\ b[n] = f
      BY <2>2, <2>3, <3>1
    <3>3. b = [i \in 1 .. n |-> b[i]]
      BY <3>1, <3>2
    <3>4. \A i \in 1 .. n : i = n \/ i \in 1 .. n - 1
      BY <2>2
    <3>5. \A i \in 1 .. n - 1 : b[i] = frames[i]
      BY <2>3, <3>1
    <3> QED BY <3>2, <3>3, <3>4, <3>5, Zenon
  <2>5. a = [i \in 1 .. n |-> a[i]] /\ \A i \in 1 .. n : a[i] = IF i = n THEN f ELSE frames[i]
    BY <1>2 DEF WithTop
  <2> HIDE DEF a, b, n
  <2>6. a = b
    BY <2>4, <2>5, Zenon
  <2> QED BY <2>6 DEF a, b
<1> QED BY <1>1, <1>3, <1>4, OpenNodesPush

\* The documents have a number of nodes, and one more has its own.
LEMMA TotalNodesAppend ==
    ASSUME NEW s, TreeSeq(s), NEW v, IsTree(v)
    PROVE  /\ TotalNodes(s) \in Nat
           /\ TotalNodes(Append(s, v)) = TotalNodes(s) + NodeCount(v)
           /\ TotalNodes(<<v>>) = NodeCount(v)
<1> DEFINE S == Elements(s) \cup {v}
<1>1. s \in Seq(S) /\ <<>> \in Seq(S) /\ v \in S /\ \A w \in S : IsTree(w)
  BY SeqMonotonic DEF TreeSeq
<1> HIDE DEF S
<1>2. \A n \in Nat, w \in S : AddNodes(n, w) \in Nat
  BY <1>1, ComplexityCoversNodes DEF AddNodes
<1>3. DocSum!Fold(0, s) \in Nat
  BY <1>1, <1>2, DocSum!FoldInvariant
<1>4. DocSum!Fold(0, Append(s, v)) = AddNodes(DocSum!Fold(0, s), v)
  BY <1>1, DocSum!FoldAppend
<1>5. DocSum!Fold(0, Append(<<>>, v)) = AddNodes(DocSum!Fold(0, <<>>), v)
  BY <1>1, DocSum!FoldAppend
<1>6. DocSum!Fold(0, <<>>) = 0 /\ Append(<<>>, v) = <<v>>
  BY DocSum!FoldEmpty
<1>7. NodeCount(v) \in Nat
  BY ComplexityCoversNodes
<1> QED BY <1>3, <1>4, <1>5, <1>6, <1>7, DocFold DEF AddNodes

\* No document has no nodes.
LEMMA NoNodes == TotalNodes(<<>>) = 0
  BY DocSum!FoldEmpty, DocFold

-----------------------------------------------------------------------------
\* The paths that a merge has not passed.

\* Three parts of a finite set that have nothing in common.
LEMMA ThreeParts ==
    ASSUME NEW W, IsFiniteSet(W), NEW S \in SUBSET W, NEW T \in SUBSET W, NEW U \in SUBSET W,
           S \cap T = {}, S \cap U = {}, T \cap U = {}
    PROVE  /\ IsFiniteSet(S) /\ IsFiniteSet(T) /\ IsFiniteSet(U)
           /\ Cardinality(S) \in Nat /\ Cardinality(T) \in Nat /\ Cardinality(U) \in Nat
           /\ Cardinality(W) \in Nat
           /\ Cardinality(S) + Cardinality(T) + Cardinality(U) <= Cardinality(W)
<1>1. IsFiniteSet(S) /\ IsFiniteSet(T) /\ IsFiniteSet(U)
  BY FS_Subset
<1>2. /\ IsFiniteSet(S \cup T)
      /\ Cardinality(S \cup T) = Cardinality(S) + Cardinality(T) - Cardinality(S \cap T)
  BY <1>1, FS_Union
<1>3. /\ IsFiniteSet((S \cup T) \cup U)
      /\ Cardinality((S \cup T) \cup U)
             = Cardinality(S \cup T) + Cardinality(U) - Cardinality((S \cup T) \cap U)
  BY <1>1, <1>2, FS_Union
<1>4. (S \cup T) \cap U = {} /\ Cardinality({}) = 0
  BY FS_EmptySet
<1>5. (S \cup T) \cup U \in SUBSET W
  OBVIOUS
<1>6. Cardinality((S \cup T) \cup U) <= Cardinality(W)
  BY <1>5, FS_Subset
<1>7. /\ Cardinality(S) \in Nat /\ Cardinality(T) \in Nat /\ Cardinality(U) \in Nat
      /\ Cardinality(W) \in Nat
  BY <1>1, FS_CardinalityType
<1> QED BY <1>1, <1>2, <1>3, <1>4, <1>6, <1>7

\* A child has at most as many nodes as the paths that begin with its place.
LEMMA ChildCounts ==
    ASSUME NEW v, IsTree(v), NEW i, <<i>> \in DOMAIN v
    PROVE  /\ NodeCount(Child(v, i)) \in Nat
           /\ NodeCount(Child(v, i)) <= Cardinality(Below(v, i))
<1> DEFINE f == [p \in Below(v, i) |-> Tail(p)]
           T == {Tail(p) : p \in Below(v, i)}
<1>1. Below(v, i) \in SUBSET DOMAIN v
  BY DEF Below
<1>2. IsFiniteSet(Below(v, i))
  BY <1>1, FS_Subset DEF IsTree
<1>3. f \in Surjection(Below(v, i), T)
  BY DEF Surjection
<1>4. Cardinality(T) <= Cardinality(Below(v, i))
  BY <1>2, <1>3, FS_Surjection
<1>5. DOMAIN Child(v, i) = T
  BY DEF Child
<1>6. NodeCount(Child(v, i)) \in Nat
  BY ChildIsTree, ComplexityCoversNodes
<1> QED BY <1>4, <1>5, <1>6 DEF NodeCount

\* The paths of a value that go through its i-th child to the j-th child of that.
Below2(v, i, j) == {p \in Below(v, i) : Tail(p) # <<>> /\ Head(Tail(p)) = j}

\* The paths below a child of a child.
LEMMA GrandchildPaths ==
    ASSUME NEW v, IsTree(v), NEW i, NEW j
    PROVE  Cardinality(Below(Child(v, i), j)) <= Cardinality(Below2(v, i, j))
<1> DEFINE f == [p \in Below2(v, i, j) |-> Tail(p)]
           T == {Tail(p) : p \in Below2(v, i, j)}
<1>1. Below2(v, i, j) \in SUBSET DOMAIN v
  BY DEF Below2, Below
<1>2. IsFiniteSet(Below2(v, i, j))
  BY <1>1, FS_Subset DEF IsTree
<1>3. f \in Surjection(Below2(v, i, j), T)
  BY DEF Surjection
<1>4. Cardinality(T) <= Cardinality(Below2(v, i, j))
  BY <1>2, <1>3, FS_Surjection
<1>5. DOMAIN Child(v, i) = {Tail(p) : p \in Below(v, i)}
  BY DEF Child
<1>6. Below(Child(v, i), j) = T
  BY <1>5, Zenon DEF Below2, Below
<1> QED BY <1>4, <1>6

\* The paths that are left are some of the value's.
LEMMA UnmergedTyped ==
    ASSUME NEW m, OptTree(m.value)
    PROVE  IsFiniteSet(Unmerged(m)) /\ Cardinality(Unmerged(m)) \in Nat
<1>1. IsFiniteSet(DOMAIN m.value)
  <2>1. DOMAIN NoValue = {} /\ IsFiniteSet({})
    BY FS_EmptySet DEF NoValue
  <2> QED BY <2>1 DEF OptTree, IsTree
<1>2. Unmerged(m) \in SUBSET DOMAIN m.value
  BY DEF Unmerged
<1>3. IsFiniteSet(Unmerged(m))
  BY <1>1, <1>2, FS_Subset
<1> QED BY <1>3, FS_CardinalityType

\* Nothing is left of no merge.
LEMMA NothingUnmerged == Cardinality(Unmerged(NoMerge)) = 0 /\ MergeCounted(NoMerge)
<1>1. NoMerge.value = NoValue /\ NoMerge.element = 1 /\ NoMerge.entry = 1 /\ DOMAIN NoValue = {}
  BY DEF NoMerge, NoValue
<1>2. Unmerged(NoMerge) = {}
  BY <1>1 DEF Unmerged
<1> QED BY <1>1, <1>2, FS_EmptySet DEF MergeCounted

\* A merge begins with everything below the root.
LEMMA UnmergedAtFirst ==
    ASSUME NEW v, IsTree(v), NEW m, m.value = v, m.element = 1, m.entry = 1
    PROVE  Cardinality(Unmerged(m)) <= NodeCount(v) - 1 /\ Cardinality(Unmerged(m)) \in Nat
<1>1. /\ IsFiniteSet(DOMAIN v) /\ <<>> \in DOMAIN v
  BY DEF IsTree
<1>2. Unmerged(m) \in SUBSET (DOMAIN v \ {<<>>})
  BY DEF Unmerged, Started
<1>3. /\ IsFiniteSet(DOMAIN v \ {<<>>})
      /\ Cardinality(DOMAIN v \ {<<>>}) = Cardinality(DOMAIN v) - 1
  BY <1>1, FS_RemoveElement
<1>4. /\ Cardinality(Unmerged(m)) <= Cardinality(DOMAIN v \ {<<>>})
      /\ IsFiniteSet(Unmerged(m))
  BY <1>2, <1>3, FS_Subset
<1> QED BY <1>3, <1>4, FS_CardinalityType DEF NodeCount

\* What is inserted by a step of the merge is taken from the paths that were left.
LEMMA EntryCounts ==
    ASSUME NEW m, IsTree(m.value), MergeCounted(m),
           NEW m2, m2.value = m.value, m2.element = m.element, m2.entry = m.entry + 1,
           NEW v, IsTree(v),
           v = IF Label(m.value) = SEQ THEN Child(m.value, m.element) ELSE m.value,
           Label(m.value) # SEQ => m.element = 1,
           <<2 * m.entry - 1>> \in DOMAIN v, <<2 * m.entry>> \in DOMAIN v
    PROVE  /\ NodeCount(Child(v, 2 * m.entry - 1)) \in Nat
           /\ NodeCount(Child(v, 2 * m.entry)) \in Nat
           /\ Cardinality(Unmerged(m2)) \in Nat /\ Cardinality(Unmerged(m)) \in Nat
           /\ Cardinality(Unmerged(m2)) + NodeCount(Child(v, 2 * m.entry - 1))
                  + NodeCount(Child(v, 2 * m.entry)) <= Cardinality(Unmerged(m))
<1> DEFINE e == m.element
           n == m.entry
           a == 2 * n - 1
           b == 2 * n
<1>1. /\ e \in Nat \ {0} /\ n \in Nat \ {0} /\ a \in Nat /\ b \in Nat /\ a # b
      /\ 2 * n - 2 \in Nat /\ 2 * (n + 1) - 2 = b
      /\ a \notin 1 .. 2 * n - 2 /\ b \notin 1 .. 2 * n - 2 /\ a \in 1 .. b /\ b \in 1 .. b
      /\ \A i : i \notin 1 .. b => i \notin 1 .. 2 * n - 2
      /\ e \notin 1 .. e - 1
  BY DEF MergeCounted
<1>2. /\ NodeCount(Child(v, a)) \in Nat /\ NodeCount(Child(v, a)) <= Cardinality(Below(v, a))
      /\ NodeCount(Child(v, b)) \in Nat /\ NodeCount(Child(v, b)) <= Cardinality(Below(v, b))
  BY ChildCounts
<1>3. /\ IsFiniteSet(Unmerged(m)) /\ Cardinality(Unmerged(m)) \in Nat
      /\ Cardinality(Unmerged(m2)) \in Nat
  BY UnmergedTyped DEF OptTree
<1>4. Cardinality(Below(v, a)) \in Nat /\ Cardinality(Below(v, b)) \in Nat
  <2>1. Below(v, a) \in SUBSET DOMAIN v /\ Below(v, b) \in SUBSET DOMAIN v
    BY DEF Below
  <2> QED BY <2>1, FS_Subset, FS_CardinalityType DEF IsTree
<1>5. PICK K, V : /\ K \in SUBSET Unmerged(m) /\ V \in SUBSET Unmerged(m)
                  /\ Unmerged(m2) \in SUBSET Unmerged(m)
                  /\ K \cap V = {} /\ K \cap Unmerged(m2) = {} /\ V \cap Unmerged(m2) = {}
                  /\ Cardinality(Below(v, a)) <= Cardinality(K)
                  /\ Cardinality(Below(v, b)) <= Cardinality(V)
  <2> DEFINE w == m.value
  <2>1. CASE Label(w) = SEQ
    <3>1. /\ Unmerged(m) = {p \in DOMAIN w : /\ Started(p, e - 1)
                                             /\ Head(p) = e => Started(Tail(p), 2 * n - 2)}
          /\ Unmerged(m2) = {p \in DOMAIN w : /\ Started(p, e - 1)
                                              /\ Head(p) = e => Started(Tail(p), 2 * (n + 1) - 2)}
      BY <2>1 DEF Unmerged
    <3>2. \A p : p \in Below2(w, e, a) <=> /\ p \in DOMAIN w /\ p # <<>> /\ Head(p) = e
                                            /\ Tail(p) # <<>> /\ Head(Tail(p)) = a
      BY DEF Below2, Below
    <3>3. \A p : p \in Below2(w, e, b) <=> /\ p \in DOMAIN w /\ p # <<>> /\ Head(p) = e
                                            /\ Tail(p) # <<>> /\ Head(Tail(p)) = b
      BY DEF Below2, Below
    <3>4. v = Child(w, e)
      BY <2>1
    <3>5. /\ Cardinality(Below(v, a)) <= Cardinality(Below2(w, e, a))
          /\ Cardinality(Below(v, b)) <= Cardinality(Below2(w, e, b))
      BY <3>4, GrandchildPaths
    <3> HIDE DEF a, b, e, n, w
    <3>6. \A p : p \in Unmerged(m) <=> /\ p \in DOMAIN w /\ p # <<>> /\ Head(p) \notin 1 .. e - 1
                                       /\ Head(p) = e => Tail(p) # <<>> /\ Head(Tail(p)) \notin 1 .. 2 * n - 2
      BY <3>1, Zenon DEF Started
    <3>7. \A p : p \in Unmerged(m2) <=> /\ p \in DOMAIN w /\ p # <<>> /\ Head(p) \notin 1 .. e - 1
                                        /\ Head(p) = e => Tail(p) # <<>> /\ Head(Tail(p)) \notin 1 .. b
      BY <1>1, <3>1, Zenon DEF Started
    <3>8. /\ Below2(w, e, a) \in SUBSET Unmerged(m) /\ Below2(w, e, b) \in SUBSET Unmerged(m)
          /\ Unmerged(m2) \in SUBSET Unmerged(m)
      <4>1. \A p \in Below2(w, e, a) : p \in Unmerged(m)
        BY <1>1, <3>2, <3>6, Zenon
      <4>2. \A p \in Below2(w, e, b) : p \in Unmerged(m)
        BY <1>1, <3>3, <3>6, Zenon
      <4>3. \A p \in Unmerged(m2) : p \in Unmerged(m)
        BY <1>1, <3>6, <3>7, Zenon
      <4> QED BY <4>1, <4>2, <4>3
    <3>9. /\ Below2(w, e, a) \cap Below2(w, e, b) = {}
          /\ Below2(w, e, a) \cap Unmerged(m2) = {} /\ Below2(w, e, b) \cap Unmerged(m2) = {}
      <4>1. \A p \in Below2(w, e, a) : p \notin Below2(w, e, b)
        BY <1>1, <3>2, <3>3, Zenon
      <4>2. \A p \in Below2(w, e, a) : p \notin Unmerged(m2)
        BY <1>1, <3>2, <3>7, Zenon
      <4>3. \A p \in Below2(w, e, b) : p \notin Unmerged(m2)
        BY <1>1, <3>3, <3>7, Zenon
      <4> QED BY <4>1, <4>2, <4>3
    <3> QED BY <3>5, <3>8, <3>9
  <2>2. CASE Label(w) # SEQ
    <3>1. /\ Unmerged(m) = {p \in DOMAIN w : e = 1 /\ Started(p, 2 * n - 2)}
          /\ Unmerged(m2) = {p \in DOMAIN w : e = 1 /\ Started(p, 2 * (n + 1) - 2)}
      BY <2>2 DEF Unmerged
    <3>2. v = w /\ e = 1
      BY <2>2
    <3> HIDE DEF a, b, e, n, w
    <3>3. \A p : p \in Unmerged(m) <=> p \in DOMAIN w /\ p # <<>> /\ Head(p) \notin 1 .. 2 * n - 2
      BY <3>1, <3>2, Zenon DEF Started
    <3>4. \A p : p \in Unmerged(m2) <=> p \in DOMAIN w /\ p # <<>> /\ Head(p) \notin 1 .. b
      BY <1>1, <3>1, <3>2, Zenon DEF Started
    <3>5. \A p : /\ p \in Below(v, a) <=> p \in DOMAIN w /\ p # <<>> /\ Head(p) = a
                 /\ p \in Below(v, b) <=> p \in DOMAIN w /\ p # <<>> /\ Head(p) = b
      BY <3>2 DEF Below
    <3>6. /\ \A p \in Below(v, a) : p \in Unmerged(m)
          /\ \A p \in Below(v, b) : p \in Unmerged(m)
          /\ \A p \in Unmerged(m2) : p \in Unmerged(m)
      BY <1>1, <3>3, <3>4, <3>5, Zenon
    <3>7. /\ \A p \in Below(v, a) : p \notin Below(v, b) /\ p \notin Unmerged(m2)
          /\ \A p \in Below(v, b) : p \notin Unmerged(m2)
      BY <1>1, <3>4, <3>5, Zenon
    <3>8. Cardinality(Below(v, a)) <= Cardinality(Below(v, a)) /\ Cardinality(Below(v, b)) <= Cardinality(Below(v, b))
      BY <1>4
    <3> QED BY <3>6, <3>7, <3>8
  <2> QED BY <2>1, <2>2
<1>6. /\ Cardinality(K) \in Nat /\ Cardinality(V) \in Nat
      /\ Cardinality(K) + Cardinality(V) + Cardinality(Unmerged(m2)) <= Cardinality(Unmerged(m))
  BY <1>3, <1>5, ThreeParts
<1> DEFINE x == NodeCount(Child(v, a))
           y == NodeCount(Child(v, b))
<1>7. /\ x \in Nat /\ y \in Nat
      /\ x <= Cardinality(Below(v, a)) /\ y <= Cardinality(Below(v, b))
  BY <1>2
<1> HIDE DEF x, y, a, b
<1>8. x <= Cardinality(K) /\ y <= Cardinality(V)
  BY <1>4, <1>5, <1>6, <1>7
<1>9. Cardinality(Unmerged(m2)) + x + y <= Cardinality(Unmerged(m))
  BY <1>3, <1>6, <1>7, <1>8
<1> QED BY <1>3, <1>7, <1>9 DEF x, y, a, b

\* Going to the next source leaves no paths that were passed.
LEMMA SourceCounts ==
    ASSUME NEW m, IsTree(m.value), MergeCounted(m),
           NEW m2, m2.value = m.value, m2.element = m.element + 1, m2.entry = 1
    PROVE  /\ Cardinality(Unmerged(m2)) \in Nat /\ Cardinality(Unmerged(m)) \in Nat
           /\ Cardinality(Unmerged(m2)) <= Cardinality(Unmerged(m))
<1> DEFINE e == m.element
           w == m.value
<1>1. /\ e \in Nat \ {0} /\ e \in 1 .. (e + 1) - 1
      /\ \A i : i \notin 1 .. (e + 1) - 1 => i \notin 1 .. e - 1
      /\ e + 1 # 1
  BY DEF MergeCounted
<1>2. /\ IsFiniteSet(Unmerged(m)) /\ Cardinality(Unmerged(m)) \in Nat
      /\ Cardinality(Unmerged(m2)) \in Nat
  BY UnmergedTyped DEF OptTree
<1>3. \A p \in Unmerged(m2) : p \in Unmerged(m)
  <2>1. CASE Label(w) = SEQ
    <3>1. \A p \in Unmerged(m2) : p \in DOMAIN w /\ Started(p, (e + 1) - 1)
      BY <2>1 DEF Unmerged
    <3>2. \A p \in Unmerged(m2) : p \in DOMAIN w /\ Started(p, e - 1) /\ Head(p) # e
      BY <1>1, <3>1, Zenon DEF Started
    <3> QED BY <2>1, <3>2 DEF Unmerged
  <2>2. CASE Label(w) # SEQ
    BY <1>1, <2>2 DEF Unmerged
  <2> QED BY <2>1, <2>2
<1> QED BY <1>2, <1>3, FS_Subset

-----------------------------------------------------------------------------
\* The charges.

\* The methods that leave complexity_score alone, and the one that adds to it.
LEMMA ScoreKept ==
    ASSUME NEW t \in Trackers, NEW n \in Nat
    PROVE  /\ t.complexity_score \in Nat
           /\ check_depth(t, n).complexity_score = t.complexity_score
           /\ add_anchor(t).complexity_score = t.complexity_score
           /\ enter_alias(t).complexity_score = t.complexity_score
           /\ exit_alias(t).complexity_score = t.complexity_score
           /\ add_collection_item(t).complexity_score = t.complexity_score
           /\ add_alias_materialization(t, n).complexity_score = t.complexity_score
           /\ add_complexity(t, n).complexity_score = t.complexity_score + n
<1>1. check_depth(t, n).complexity_score = t.complexity_score
  BY DEF Trackers, check_depth
<1>2. exit_alias(t).complexity_score = t.complexity_score
  BY DEF Trackers, exit_alias
<1> QED
  BY <1>1, <1>2 DEF Trackers, add_anchor, enter_alias, add_collection_item,
                    add_alias_materialization, add_complexity

\* An item within the limits is charged its score.
LEMMA ItemScore ==
    ASSUME NEW t \in Trackers, NEW n \in Nat
    PROVE  /\ ChargeItem(t, n).complexity_score >= t.complexity_score
           /\ WithinItems(ChargeItem(t, n)) =>
                 ChargeItem(t, n).complexity_score = t.complexity_score + n
<1> DEFINE item == add_collection_item(t)
<1>1. item \in Trackers /\ item.complexity_score = t.complexity_score
  BY TrackerOps, ScoreKept
<1>2. add_complexity(item, n).complexity_score = item.complexity_score + n
  BY <1>1, ScoreKept
<1>3. t.complexity_score \in Nat
  BY ScoreKept
<1>4. CASE WithinItems(item)
  BY <1>1, <1>2, <1>3, <1>4 DEF ChargeItem
<1>5. CASE ~WithinItems(item)
  <2>1. ChargeItem(t, n) = item
    BY <1>5 DEF ChargeItem
  <2> QED BY <1>1, <1>3, <1>5, <2>1
<1> QED BY <1>4, <1>5

\* An alias that is accepted is charged at least the nodes of its copy.
LEMMA AliasScore ==
    ASSUME NEW t \in Trackers, NEW v, IsTree(v)
    PROVE  /\ ChargeAlias(t, v).complexity_score >= t.complexity_score
           /\ AliasAccepted(ChargeAlias(t, v), v) =>
                 ChargeAlias(t, v).complexity_score >= t.complexity_score + NodeCount(v)
<1> DEFINE score == calculate_value_complexity(v)
           expanded == add_alias_materialization(t, score)
<1>1. score \in Nat /\ NodeCount(v) \in Nat /\ NodeCount(v) <= score
  BY ComplexityCoversNodes
<1> HIDE DEF score
<1>2. expanded \in Trackers /\ expanded.complexity_score = t.complexity_score
  BY <1>1, TrackerOps, ScoreKept
<1>3. add_complexity(expanded, score).complexity_score = expanded.complexity_score + score
  BY <1>1, <1>2, ScoreKept
<1>4. t.complexity_score \in Nat
  BY ScoreKept
<1>5. CASE ~ShallowEnough(v)
  <2>1. ChargeAlias(t, v) = t
    BY <1>5 DEF ChargeAlias
  <2> QED BY <1>4, <1>5, <2>1 DEF AliasAccepted
<1>6. CASE ShallowEnough(v) /\ ~WithinAliasNodes(expanded)
  <2>1. ChargeAlias(t, v) = expanded
    BY <1>6 DEF ChargeAlias, score
  <2> QED BY <1>2, <1>4, <1>6, <2>1 DEF AliasAccepted
<1>7. CASE ShallowEnough(v) /\ WithinAliasNodes(expanded)
  <2>1. ChargeAlias(t, v) = add_complexity(expanded, score)
    BY <1>7 DEF ChargeAlias, score
  <2> QED BY <1>1, <1>2, <1>3, <1>4, <2>1
<1> QED BY <1>5, <1>6, <1>7

-----------------------------------------------------------------------------
\* The mappings under construction.

\* Frames from a set whose mappings have their entries apart.
LEMMA ApartIntro ==
    ASSUME NEW S, NEW fs \in Seq(S), \A f \in S : f.label = MAP => EntriesOK(f.kids)
    PROVE  EntriesApart(fs)
<1>1. Elements(fs) = Range(fs)
  BY DEF Elements, Range
<1>2. Elements(fs) \subseteq S
  BY <1>1, RangeOfSeq
<1> QED BY <1>2 DEF EntriesApart

\* A frame pushed, popped or replaced.
LEMMA ApartFrames ==
    ASSUME FramesOK(frames), EntriesApart(frames)
    PROVE  /\ EntriesApart(<<>>)
           /\ frames # <<>> => EntriesApart(Pop) /\ (Top.label = MAP => EntriesOK(Top.kids))
           /\ \A f : (f.label = MAP => EntriesOK(f.kids)) =>
                 /\ EntriesApart(Append(frames, f))
                 /\ frames # <<>> => EntriesApart(WithTop(f))
<1>1. EntriesApart(<<>>)
  BY DEF EntriesApart, Elements
<1>2. ASSUME frames # <<>> PROVE EntriesApart(Pop) /\ (Top.label = MAP => EntriesOK(Top.kids))
  <2>1. Len(frames) \in Nat \ {0} /\ frames \in Seq(Elements(frames)) /\ Len(frames) \in DOMAIN frames
    BY <1>2, FramesTop DEF FramesOK
  <2>2. Top \in Elements(frames)
    BY <2>1 DEF Top, Elements
  <2> DEFINE n == Len(frames) - 1
  <2>3. n \in Nat /\ \A i \in 1 .. n : frames[i] \in Elements(frames)
    <3>1. \A i \in 1 .. Len(frames) - 1 : frames[i] \in Elements(frames)
      BY <2>1, LenProperties DEF Elements
    <3> QED BY <2>1, <3>1
  <2> HIDE DEF n
  <2>4. SubSeq(frames, 1, n) \in Seq(Elements(frames))
    BY <2>3, SubSeqProperties
  <2>5. EntriesApart(SubSeq(frames, 1, n))
    BY <2>4, ApartIntro DEF EntriesApart
  <2> QED BY <2>2, <2>5 DEF EntriesApart, Pop, n
<1>3. ASSUME NEW f, f.label = MAP => EntriesOK(f.kids)
      PROVE  /\ EntriesApart(Append(frames, f))
             /\ frames # <<>> => EntriesApart(WithTop(f))
  <2> DEFINE S == Elements(frames) \cup {f}
  <2>1. frames \in Seq(S) /\ f \in S
    BY SeqMonotonic DEF FramesOK
  <2>2. \A g \in S : g.label = MAP => EntriesOK(g.kids)
    BY <1>3 DEF EntriesApart
  <2> HIDE DEF S
  <2>3. Append(frames, f) \in Seq(S)
    BY <2>1, AppendProperties
  <2>4. ASSUME frames # <<>> PROVE WithTop(f) \in Seq(S)
    <3>1. Len(frames) \in 1 .. Len(frames)
      BY <2>4, FramesTop
    <3> QED BY <2>1, <3>1, ExceptSeq DEF WithTop
  <2> QED BY <2>2, <2>3, <2>4, ApartIntro
<1> QED BY <1>1, <1>2, <1>3

-----------------------------------------------------------------------------
\* What the steps hold and charge.

\* What is held is a number, part by part.
LEMMA HeldTyped ==
    ASSUME ControlOK
    PROVE  /\ OpenNodes(frames) \in Nat /\ Inner(result) \in Nat
           /\ Cardinality(Unmerged(merging)) \in Nat
<1>1. OpenNodes(frames) \in Nat /\ Inner(result) \in Nat
  BY OpenNodesTyped, InnerNodes DEF ControlOK
<1>2. OptTree(merging.value)
  BY DEF ControlOK, MergingOK, OptTree, NoMerge
<1> QED BY <1>1, <1>2, UnmergedTyped

\* A step that holds no more than before, but for what it charges.
Pays ==
    /\ EntriesApart(frames')
    /\ MergeCounted(merging')
    /\ tracker'.complexity_score \in Nat
    /\ Held(frames', result', merging') \in Nat
    /\ Held(frames', result', merging') + tracker.complexity_score
           <= Held(frames, result, merging) + tracker'.complexity_score

\* Such a step keeps the invariant.
LEMMA PaysKeeps ==
    ASSUME IInv, ChargeInv, Pays, docs' = docs, caller' = caller
    PROVE  ChargeInv'
<1>1. TotalNodes(docs) \in Nat /\ Len(docs) \in Nat
  <2>1. TreeSeq(docs) BY DEF IInv, TypeOK, ClientOK
  <2>2. IsTree(Leaf(Null)) BY LeafIsTree
  <2>3. docs \in Seq(Elements(docs)) BY <2>1 DEF TreeSeq
  <2> QED BY <2>1, <2>2, <2>3, TotalNodesAppend, LenProperties
<1>2. tracker.complexity_score \in Nat
  BY ScoreKept DEF IInv, TypeOK, ComposerOK
<1>3. Held(frames, result, merging) \in Nat
  BY HeldTyped DEF IInv, TypeOK, Held
<1> DEFINE h == Held(frames, result, merging)
           h2 == Held(frames', result', merging')
           s == tracker.complexity_score
           s2 == tracker'.complexity_score
           d == TotalNodes(docs)
           l == Len(docs)
<1>4. /\ h \in Nat /\ h2 \in Nat /\ s \in Nat /\ s2 \in Nat /\ d \in Nat /\ l \in Nat
      /\ h2 + s <= h + s2
  BY <1>1, <1>2, <1>3 DEF Pays
<1>5. ASSUME caller # "direct" PROVE d + h <= s + l
  BY <1>5 DEF ChargeInv
<1>6. h' = h2 /\ s' = s2 /\ d' = d /\ l' = l
  OBVIOUS
<1> HIDE DEF h, h2, s, s2, d, l
<1>7. ASSUME caller' # "direct" PROVE d' + h' <= s' + l'
  BY <1>4, <1>5, <1>6, <1>7
<1> QED BY <1>7 DEF ChargeInv, Pays, h, s, d, l

\* Such a step by its parts.
LEMMA PaysIntro ==
    ASSUME IInv, tracker' \in Trackers, EntriesApart(frames'), MergeCounted(merging'),
           NEW o \in Nat, OpenNodes(frames') = o, NEW r \in Nat, Inner(result') = r,
           NEW u \in Nat, Cardinality(Unmerged(merging')) = u,
           o + r + u + tracker.complexity_score
               <= OpenNodes(frames) + Inner(result) + Cardinality(Unmerged(merging))
                      + tracker'.complexity_score
    PROVE  Pays
<1>1. tracker.complexity_score \in Nat /\ tracker'.complexity_score \in Nat
  BY ScoreKept DEF IInv, TypeOK, ComposerOK
<1>2. /\ OpenNodes(frames) \in Nat /\ Inner(result) \in Nat
      /\ Cardinality(Unmerged(merging)) \in Nat
  BY HeldTyped DEF IInv, TypeOK
<1> QED BY <1>1, <1>2 DEF Pays, Held

\* An error lets go of everything.
LEMMA FailPays ==
    ASSUME IInv, ChargeInv, Fail, tracker' \in Trackers,
           tracker'.complexity_score >= tracker.complexity_score
    PROVE  Pays
<1>1. /\ OpenNodes(frames) \in Nat /\ Inner(result) \in Nat
      /\ Cardinality(Unmerged(merging)) \in Nat
  BY HeldTyped DEF IInv, TypeOK
<1>2. frames' = <<>> /\ result' = NoValue /\ merging' = NoMerge
  BY DEF Fail
<1>3. EntriesApart(frames') /\ MergeCounted(merging')
  BY <1>2, ApartFrames, NothingUnmerged DEF IInv, TypeOK, ControlOK, ChargeInv
<1>4. /\ OpenNodes(frames') = 0 /\ Inner(result') = 0
      /\ Cardinality(Unmerged(merging')) = 0
  BY <1>2, NothingOpen, NothingUnmerged DEF Inner
<1>5. tracker.complexity_score \in Nat /\ tracker'.complexity_score \in Nat
  BY ScoreKept DEF IInv, TypeOK, ComposerOK
<1>6. 0 + 0 + 0 + tracker.complexity_score
          <= OpenNodes(frames) + Inner(result) + Cardinality(Unmerged(merging))
                 + tracker'.complexity_score
  BY <1>1, <1>5
<1> QED BY <1>3, <1>4, <1>6, PaysIntro

\* Nothing is let go and nothing is charged.
LEMMA IdlePays ==
    ASSUME IInv, ChargeInv, frames' = frames, merging' = merging, tracker' \in Trackers,
           tracker'.complexity_score = tracker.complexity_score,
           result' = result \/ result' = NoValue
    PROVE  Pays
<1> DEFINE o == OpenNodes(frames)
           r == Inner(result')
           u == Cardinality(Unmerged(merging))
<1>1. o \in Nat /\ Inner(result) \in Nat /\ u \in Nat
  BY HeldTyped DEF IInv, TypeOK
<1>2. r \in Nat /\ r <= Inner(result)
  <2>1. Inner(NoValue) = 0 BY DEF Inner
  <2> QED BY <1>1, <2>1
<1>3. EntriesApart(frames') /\ MergeCounted(merging')
  BY DEF ChargeInv
<1>4. OpenNodes(frames') = o /\ Cardinality(Unmerged(merging')) = u
  OBVIOUS
<1>5. tracker.complexity_score \in Nat
  BY ScoreKept DEF IInv, TypeOK, ComposerOK
<1>6. o + r + u + tracker.complexity_score <= o + Inner(result) + u + tracker'.complexity_score
  <2> HIDE DEF o, r, u
  <2> QED BY <1>1, <1>2, <1>5
<1>7. Inner(result') = r
  OBVIOUS
<1> HIDE DEF r
<1> QED BY <1>1, <1>2, <1>3, <1>4, <1>6, <1>7, PaysIntro

\* A finished value holds no more than what it was made of.
LEMMA CompletePays ==
    ASSUME IInv, ChargeInv, NEW value, NEW name, NEW rest, Complete(value, name, rest),
           IsTree(value), FramesOK(rest), EntriesApart(rest), tracker' \in Trackers,
           OpenNodes(rest) + (NodeCount(value) - 1) <= OpenNodes(frames) + Inner(result)
    PROVE  Pays /\ docs' = docs
<1>1. tracker' = tracker \/ tracker' = add_anchor(tracker)
  BY DEF Complete
<1>2. tracker.complexity_score \in Nat /\ tracker'.complexity_score = tracker.complexity_score
  BY <1>1, ScoreKept DEF IInv, TypeOK, ComposerOK
<1>3. CASE Fail
  BY <1>2, <1>3, FailPays DEF Fail
<1>4. CASE frames' = rest /\ Return(value) /\ Proceed
  <2> DEFINE o == OpenNodes(rest)
             r == Inner(value)
             u == Cardinality(Unmerged(merging))
  <2>1. /\ OpenNodes(frames) \in Nat /\ Inner(result) \in Nat /\ u \in Nat
    BY HeldTyped DEF IInv, TypeOK
  <2>2. o \in Nat /\ r \in Nat /\ r = NodeCount(value) - 1
    BY OpenNodesTyped, InnerNodes DEF OptTree
  <2>3. o + r <= OpenNodes(frames) + Inner(result)
    BY <2>2
  <2>4. /\ OpenNodes(frames') = o /\ Inner(result') = r /\ Cardinality(Unmerged(merging')) = u
        /\ EntriesApart(frames') /\ MergeCounted(merging') /\ docs' = docs
    BY <1>4 DEF Return, ChargeInv, Proceed, client
  <2> HIDE DEF o, r, u
  <2>5. o + r + u + tracker.complexity_score
            <= OpenNodes(frames) + Inner(result) + u + tracker'.complexity_score
    BY <1>2, <2>1, <2>2, <2>3
  <2> QED BY <2>1, <2>2, <2>4, <2>5, PaysIntro DEF u
<1> QED BY <1>3, <1>4 DEF Complete

\* A closed collection is the value it returns.
LEMMA CloseTopPays ==
    ASSUME IInv, ChargeInv, CloseTop, frames # <<>>, tracker' \in Trackers
    PROVE  Pays /\ docs' = docs
<1>1. FramesOK(frames) /\ FrameOK(Top) /\ FramesOK(Pop) /\ Inner(result) \in Nat
  BY FramesTop, FramesPop, HeldTyped DEF IInv, TypeOK, ControlOK
<1>2. EntriesApart(Pop)
  BY <1>1, ApartFrames DEF ChargeInv
<1> DEFINE v == Build(Top.label, Top.kids)
<1>3. IsTree(v)
  BY <1>1, BuildIsTree DEF FrameOK
<1>4. /\ FrameNodes(Top) = NodeCount(v) - 1 + Inner(Top.key)
      /\ Inner(Top.key) \in Nat /\ NodeCount(v) \in Nat
  BY <1>1, FrameNodesTyped
<1>5. OpenNodes(frames) = OpenNodes(Pop) + FrameNodes(Top) /\ OpenNodes(Pop) \in Nat
  BY <1>1, OpenNodesTop
<1>6. Complete(v, Top.anchor, Pop)
  BY DEF CloseTop
<1> HIDE DEF v
<1>7. OpenNodes(Pop) + (NodeCount(v) - 1) <= OpenNodes(frames) + Inner(result)
  BY <1>1, <1>4, <1>5
<1> QED BY <1>1, <1>2, <1>3, <1>6, <1>7, CompletePays

\* An item that goes into a collection is charged for its nodes' roots.
LEMMA AddItemPays ==
    ASSUME IInv, ChargeInv, frames # <<>>, tracker' \in Trackers,
           NEW score \in Nat, NEW kids, TreeSeq(kids), AddItem(score, kids),
           Top.label = MAP => EntriesOK(kids),
           NodeCount(Build(Top.label, kids)) <=
               NodeCount(Build(Top.label, Top.kids)) + Inner(Top.key) + Inner(result) + score
    PROVE  Pays /\ docs' = docs
<1>1. /\ FramesOK(frames) /\ FrameOK(Top) /\ Inner(result) \in Nat /\ OpenNodes(frames) \in Nat
      /\ Cardinality(Unmerged(merging)) \in Nat
  BY FramesTop, HeldTyped DEF IInv, TypeOK, ControlOK
<1>2. /\ tracker \in Trackers /\ tracker' = ChargeItem(tracker, score)
      /\ tracker.complexity_score \in Nat
      /\ tracker'.complexity_score >= tracker.complexity_score
      /\ WithinItems(tracker') => tracker'.complexity_score = tracker.complexity_score + score
  BY ItemScore, ScoreKept DEF AddItem, IInv, TypeOK, ComposerOK
<1>3. CASE Fail
  BY <1>2, <1>3, FailPays DEF Fail
<1>4. CASE ~Fail
  <2> DEFINE f == [Top EXCEPT !.kids = kids, !.key = NoValue]
             o == OpenNodes(Pop) + FrameNodes(f)
             u == Cardinality(Unmerged(merging))
  <2>1. /\ WithinItems(tracker') /\ frames' = WithTop(f) /\ result' = NoValue
        /\ merging' = merging /\ docs' = docs
    BY <1>4 DEF AddItem, Proceed, client
  <2>2. FrameOK(f) /\ f.label = Top.label /\ f.kids = kids /\ f.key = NoValue
    BY <1>1 DEF FrameOK, OptTree
  <2> HIDE DEF f
  <2>3. /\ NodeCount(Build(Top.label, kids)) \in Nat \ {0} /\ FrameNodes(f) \in Nat
        /\ FrameNodes(f) = NodeCount(Build(Top.label, kids)) - 1
    <3>1. Inner(NoValue) = 0 BY DEF Inner
    <3> QED BY <2>2, <3>1, FrameNodesTyped
  <2>4. /\ NodeCount(Build(Top.label, Top.kids)) \in Nat /\ Inner(Top.key) \in Nat
        /\ FrameNodes(Top) = NodeCount(Build(Top.label, Top.kids)) - 1 + Inner(Top.key)
    BY <1>1, FrameNodesTyped
  <2>5. /\ OpenNodes(frames) = OpenNodes(Pop) + FrameNodes(Top) /\ OpenNodes(Pop) \in Nat
        /\ OpenNodes(frames') = o
    BY <1>1, <2>1, OpenNodesTop
  <2>6. EntriesApart(frames') /\ MergeCounted(merging')
    BY <1>1, <2>1, <2>2, ApartFrames DEF ChargeInv
  <2>7. o \in Nat /\ u \in Nat /\ Inner(result') = 0 /\ Cardinality(Unmerged(merging')) = u
    BY <1>1, <2>1, <2>3, <2>5 DEF Inner
  <2>8. tracker'.complexity_score = tracker.complexity_score + score
    BY <1>2, <2>1
  <2>9. o <= OpenNodes(frames) + Inner(result) + score
    <3> DEFINE new == NodeCount(Build(Top.label, kids))
               old == NodeCount(Build(Top.label, Top.kids))
               key == Inner(Top.key)
               res == Inner(result)
               below == OpenNodes(Pop)
               all == OpenNodes(frames)
    <3>1. new \in Nat /\ old \in Nat /\ key \in Nat /\ res \in Nat /\ below \in Nat
      BY <1>1, <2>3, <2>4, <2>5
    <3>2. new <= old + key + res + score
      OBVIOUS
    <3>3. o = below + (new - 1)
      BY <2>3
    <3>4. all = below + (old - 1 + key)
      BY <2>4, <2>5
    <3> HIDE DEF o, new, old, key, res, below, all
    <3>5. o <= all + res + score
      BY <3>1, <3>2, <3>3, <3>4
    <3> QED BY <3>5 DEF all, res
  <2> HIDE DEF o, u
  <2>10. o + 0 + u + tracker.complexity_score
            <= OpenNodes(frames) + Inner(result) + u + tracker'.complexity_score
    BY <1>1, <1>2, <2>5, <2>7, <2>8, <2>9
  <2> QED BY <2>1, <2>5, <2>6, <2>7, <2>10, PaysIntro DEF u
<1> QED BY <1>3, <1>4

-----------------------------------------------------------------------------
\* Action by action.

\* The steps of compose_node pay for what they hold.
LEMMA NodePays ==
    ASSUME IInv, IInv', ChargeInv, Node
    PROVE  Pays /\ docs' = docs
<1>1. /\ tracker \in Trackers /\ tracker' \in Trackers /\ FramesOK(frames)
      /\ EntriesApart(frames) /\ tracker.complexity_score \in Nat
  BY ScoreKept DEF IInv, TypeOK, ComposerOK, ControlOK, ChargeInv
<1>2. CASE NoMoreEvents \/ NoNode \/ SkipStreamBoundary \/ SkipDocumentStart
  <2>1. /\ frames' = frames /\ merging' = merging /\ tracker' = tracker
        /\ result' = result \/ result' = NoValue
        /\ docs' = docs
    BY <1>2 DEF NoMoreEvents, NoNode, SkipStreamBoundary, SkipDocumentStart, Return, Goto,
                Proceed, client, composer
  <2> QED BY <1>1, <2>1, IdlePays
<1>3. CASE ParserError \/ RefuseScalar \/ RefuseAlias
  <2>1. Fail /\ tracker' = tracker
    BY <1>3 DEF ParserError, RefuseScalar, RefuseAlias, composer
  <2> QED BY <1>1, <2>1, FailPays DEF Fail
<1>4. CASE ScalarNode
  <2> DEFINE v == Leaf(compose_scalar(parser.next.value, yaml_version))
  <2>1. Complete(v, parser.next.anchor, frames)
    BY <1>4 DEF ScalarNode
  <2>2. IsTree(v) /\ NodeCount(v) = 1
    BY LeafIsTree, SmallCounts
  <2> HIDE DEF v
  <2>3. OpenNodes(frames) \in Nat /\ Inner(result) \in Nat
    BY HeldTyped DEF IInv, TypeOK
  <2>4. OpenNodes(frames) + (NodeCount(v) - 1) <= OpenNodes(frames) + Inner(result)
    BY <2>2, <2>3
  <2> QED BY <1>1, <2>1, <2>2, <2>4, CompletePays
<1>5. CASE OpenCollection
  <2>1. tracker' = check_depth(tracker, current_depth + 1) /\ current_depth + 1 \in Nat
    BY <1>5 DEF OpenCollection, IInv, TypeOK, ComposerOK
  <2>2. tracker'.complexity_score = tracker.complexity_score
    BY <1>1, <2>1, ScoreKept
  <2>3. CASE Fail
    BY <1>1, <2>2, <2>3, FailPays DEF Fail
  <2>4. CASE ~Fail
    <3>1. PICK f : /\ frames' = Append(frames, f) /\ f.kids = <<>> /\ f.key = NoValue
      BY <1>5, <2>4 DEF OpenCollection
    <3>2. result' = result /\ merging' = merging /\ docs' = docs
      BY <1>5, <2>4 DEF OpenCollection, Proceed, client
    <3>3. FrameNodes(f) = 0
      BY <3>1, SmallCounts DEF FrameNodes, Inner
    <3>4. /\ OpenNodes(frames) \in Nat /\ Inner(result) \in Nat
          /\ Cardinality(Unmerged(merging)) \in Nat
      BY HeldTyped DEF IInv, TypeOK
    <3>5. OpenNodes(frames') = OpenNodes(frames)
      BY <1>1, <3>1, <3>3, <3>4, OpenNodesPush
    <3>6. EntriesApart(frames') /\ MergeCounted(merging')
      BY <1>1, <3>1, <3>2, ApartFrames, NoEntries DEF ChargeInv
    <3>7. OpenNodes(frames) + Inner(result) + Cardinality(Unmerged(merging)) + tracker.complexity_score
          <= OpenNodes(frames) + Inner(result) + Cardinality(Unmerged(merging)) + tracker'.complexity_score
      BY <1>1, <2>2, <3>4
    <3> QED BY <1>1, <3>2, <3>4, <3>5, <3>6, <3>7, PaysIntro
  <2> QED BY <2>3, <2>4
<1>6. CASE EndCollection
  <2>1. CloseTop /\ frames # <<>>
    BY <1>6 DEF EndCollection, LoopEnds, AtLoopHead
  <2> QED BY <1>1, <2>1, CloseTopPays
<1>7. CASE UnknownAlias
  <2>1. Fail /\ tracker' = exit_alias(enter_alias(tracker))
    BY <1>7 DEF UnknownAlias
  <2>2. enter_alias(tracker) \in Trackers
    BY <1>1, TrackerOps
  <2>3. tracker'.complexity_score = tracker.complexity_score
    BY <1>1, <2>1, <2>2, ScoreKept
  <2> QED BY <1>1, <2>1, <2>3, FailPays DEF Fail
<1>8. ASSUME OverLimitAlias \/ ExpandAlias
      PROVE  \E v : /\ v = anchors[parser.next.anchor] /\ IsTree(v)
                    /\ enter_alias(tracker) \in Trackers
                    /\ enter_alias(tracker).complexity_score = tracker.complexity_score
  <2>1. parser.next.anchor \in Names
    <3>1. parser.next \in Events /\ parser.next.type = "Alias"
      BY <1>8 DEF OverLimitAlias, ExpandAlias, EntersAlias, Takes, IInv, TypeOK, Parsers
    <3> QED BY <3>1, EventAnchors
  <2>2. anchors[parser.next.anchor] # NoValue
    BY <1>8 DEF OverLimitAlias, ExpandAlias
  <2>3. IsTree(anchors[parser.next.anchor])
    BY <2>1, <2>2 DEF IInv, TypeOK, ComposerOK, OptTree
  <2>4. enter_alias(tracker) \in Trackers /\ enter_alias(tracker).complexity_score = tracker.complexity_score
    BY <1>1, TrackerOps, ScoreKept
  <2> QED BY <2>3, <2>4
<1>9. CASE OverLimitAlias
  <2>1. PICK v : /\ v = anchors[parser.next.anchor] /\ IsTree(v)
                 /\ enter_alias(tracker) \in Trackers
                 /\ enter_alias(tracker).complexity_score = tracker.complexity_score
    BY <1>8, <1>9
  <2>2. Fail /\ tracker' = ChargeAlias(enter_alias(tracker), v)
    BY <1>9, <2>1 DEF OverLimitAlias
  <2>3. tracker'.complexity_score >= tracker.complexity_score
    BY <2>1, <2>2, AliasScore
  <2> QED BY <1>1, <2>2, <2>3, FailPays DEF Fail
<1>10. CASE ExpandAlias
  <2>1. PICK v : /\ v = anchors[parser.next.anchor] /\ IsTree(v)
                 /\ enter_alias(tracker) \in Trackers
                 /\ enter_alias(tracker).complexity_score = tracker.complexity_score
    BY <1>8, <1>10
  <2> DEFINE charged == ChargeAlias(enter_alias(tracker), v)
             r == Inner(v)
             o == OpenNodes(frames)
             u == Cardinality(Unmerged(merging))
  <2>2. /\ AliasAccepted(charged, v) /\ tracker' = exit_alias(charged) /\ result' = v
        /\ frames' = frames /\ merging' = merging /\ docs' = docs
    BY <1>10, <2>1 DEF ExpandAlias, Return, Proceed, client
  <2>3. charged \in Trackers
    BY <2>1, ChargeAliasTyped
  <2>4. charged.complexity_score >= tracker.complexity_score + NodeCount(v)
    BY <2>1, <2>2, AliasScore
  <2> HIDE DEF charged
  <2>5. tracker'.complexity_score >= tracker.complexity_score + NodeCount(v)
    BY <2>2, <2>3, <2>4, ScoreKept
  <2>6. NodeCount(v) \in Nat /\ r \in Nat /\ r = NodeCount(v) - 1
    BY <2>1, InnerNodes, ComplexityCoversNodes DEF OptTree
  <2>7. o \in Nat /\ Inner(result) \in Nat /\ u \in Nat
    BY HeldTyped DEF IInv, TypeOK
  <2>8. /\ EntriesApart(frames') /\ MergeCounted(merging') /\ OpenNodes(frames') = o
        /\ Inner(result') = r /\ Cardinality(Unmerged(merging')) = u
    BY <2>2 DEF ChargeInv
  <2>9. tracker'.complexity_score \in Nat
    BY <1>1, ScoreKept
  <2> HIDE DEF o, r, u
  <2>10. o + r + u + tracker.complexity_score <= o + Inner(result) + u + tracker'.complexity_score
    BY <1>1, <2>5, <2>6, <2>7, <2>9
  <2> QED BY <1>1, <2>2, <2>6, <2>7, <2>8, <2>10, PaysIntro DEF o, u
<1> QED BY <1>2, <1>3, <1>4, <1>5, <1>6, <1>7, <1>9, <1>10 DEF Node

\* A step that replaces the top frame by one that holds at most what the old one did
\* together with what it takes from the value returned and from the merge.
LEMMA TopPays ==
    ASSUME IInv, IInv', ChargeInv, frames # <<>>, NEW f, FrameOK(f), frames' = WithTop(f),
           f.label = MAP => EntriesOK(f.kids), MergeCounted(merging'), tracker' = tracker,
           FrameNodes(f) + Inner(result') + Cardinality(Unmerged(merging'))
               <= FrameNodes(Top) + Inner(result) + Cardinality(Unmerged(merging))
    PROVE  Pays
<1>1. /\ FramesOK(frames) /\ FrameOK(Top) /\ Inner(result) \in Nat
      /\ Cardinality(Unmerged(merging)) \in Nat
  BY FramesTop, HeldTyped DEF IInv, TypeOK, ControlOK
<1>2. /\ OpenNodes(frames) = OpenNodes(Pop) + FrameNodes(Top) /\ OpenNodes(Pop) \in Nat
      /\ OpenNodes(frames') = OpenNodes(Pop) + FrameNodes(f)
  BY <1>1, OpenNodesTop
<1>3. FrameNodes(f) \in Nat /\ FrameNodes(Top) \in Nat
  BY <1>1, FrameNodesTyped
<1>4. EntriesApart(frames')
  BY <1>1, ApartFrames DEF ChargeInv
<1>5. tracker' \in Trackers /\ tracker.complexity_score \in Nat
  BY ScoreKept DEF IInv, TypeOK, ComposerOK
<1>6. Inner(result') \in Nat /\ Cardinality(Unmerged(merging')) \in Nat
  <2>1. OptTree(result') /\ OptTree(merging'.value)
    BY DEF IInv, TypeOK, ControlOK, MergingOK, OptTree, NoMerge
  <2> QED BY <2>1, InnerNodes, UnmergedTyped
<1> DEFINE o == OpenNodes(Pop) + FrameNodes(f)
           r == Inner(result')
           u == Cardinality(Unmerged(merging'))
<1>7. o \in Nat /\ OpenNodes(frames') = o
  BY <1>2, <1>3
<1>8. o + r + u + tracker.complexity_score
          <= OpenNodes(frames) + Inner(result) + Cardinality(Unmerged(merging))
                 + tracker'.complexity_score
  BY <1>1, <1>2, <1>3, <1>5, <1>6
<1> HIDE DEF o, r, u
<1> QED BY <1>4, <1>5, <1>6, <1>7, <1>8, PaysIntro DEF r, u

\* The steps of a merge take what they insert from the merged value.
LEMMA MergePays ==
    ASSUME IInv, IInv', ChargeInv, MergeEntry
    PROVE  Pays
<1> DEFINE n == merging.entry
           k == Child(Source, 2 * n - 1)
           v == Child(Source, 2 * n)
           f == [Top EXCEPT !.kids = OrInsert(@, k, v)]
           a == NodeCount(Build(Top.label, Top.kids))
           b == NodeCount(Build(Top.label, OrInsert(Top.kids, k, v)))
           u == Cardinality(Unmerged(merging))
           u2 == Cardinality(Unmerged(merging'))
<1>1. /\ pc = "merge" /\ SourceLeft /\ EntryLeft /\ frames' = WithTop(f) /\ tracker' = tracker
      /\ merging' = [merging EXCEPT !.entry = @ + 1] /\ result' = result
  BY DEF MergeEntry, composer
<1>2. /\ MergingOK /\ IsTree(merging.value) /\ MergeCounted(merging)
      /\ DOMAIN merging = {"value", "element", "entry"}
  BY <1>1 DEF IInv, TypeOK, ControlOK, MergingOK, ChargeInv
<1>3. IsTree(Source)
  BY <1>1, <1>2, SourceIsTree
<1>4. <<2 * n - 1>> \in DOMAIN Source /\ <<2 * n>> \in DOMAIN Source
  BY <1>1 DEF EntryLeft
<1>5. IsTree(k) /\ IsTree(v)
  BY <1>3, <1>4, ChildIsTree
<1>6. /\ Source = IF Label(merging.value) = SEQ THEN Child(merging.value, merging.element) ELSE merging.value
      /\ Label(merging.value) # SEQ => merging.element = 1
  BY <1>1 DEF Source, SourceLeft
<1>7. /\ merging'.value = merging.value /\ merging'.element = merging.element
      /\ merging'.entry = n + 1
  BY <1>1, <1>2
<1>8. /\ NodeCount(k) \in Nat /\ NodeCount(v) \in Nat /\ u \in Nat /\ u2 \in Nat
      /\ u2 + NodeCount(k) + NodeCount(v) <= u
  BY <1>2, <1>3, <1>4, <1>6, <1>7, EntryCounts
<1>9. FramesOK(frames) /\ frames # <<>> /\ Top.label = MAP /\ FrameOK(Top)
  BY <1>1, FramesTop DEF IInv, TypeOK, ControlOK, InMapping
<1>10. TreeSeq(Top.kids) /\ EntriesOK(Top.kids)
  BY <1>9, ApartFrames DEF FrameOK, ChargeInv
<1>11. b <= a + NodeCount(k) + NodeCount(v)
  <2> HIDE DEF k, v
  <2> QED BY <1>5, <1>10, OrInsertCounts
<1>12. TreeSeq(OrInsert(Top.kids, k, v)) /\ EntriesOK(OrInsert(Top.kids, k, v))
  <2> HIDE DEF k, v
  <2> QED BY <1>5, <1>10, TreeSeqOrInsert, InsertsKeepEntries
<1>13. /\ FrameOK(f) /\ f.label = Top.label /\ f.kids = OrInsert(Top.kids, k, v) /\ f.key = Top.key
  <2> HIDE DEF k, v
  <2> QED BY <1>9, <1>12 DEF FrameOK
<1> HIDE DEF f
<1>14. /\ FrameNodes(f) = b - 1 + Inner(Top.key) /\ FrameNodes(Top) = a - 1 + Inner(Top.key)
       /\ a \in Nat /\ b \in Nat /\ Inner(Top.key) \in Nat
  BY <1>9, <1>13, FrameNodesTyped
<1>15. Inner(result') = Inner(result) /\ Inner(result) \in Nat
  BY <1>1, HeldTyped DEF IInv, TypeOK
<1>16. MergeCounted(merging')
  BY <1>2, <1>7 DEF MergeCounted
<1> HIDE DEF a, b, k, v, u, u2
<1>17. FrameNodes(f) + Inner(result') + u2 <= FrameNodes(Top) + Inner(result) + u
  BY <1>8, <1>11, <1>14, <1>15
<1> QED BY <1>1, <1>9, <1>12, <1>13, <1>16, <1>17, TopPays DEF u, u2

\* The steps that take a returned value pay for it.
LEMMA ReturningPays ==
    ASSUME IInv, IInv', ChargeInv, Returning
    PROVE  Pays /\ docs' = docs
<1>1. /\ tracker \in Trackers /\ tracker' \in Trackers /\ FramesOK(frames)
      /\ tracker.complexity_score \in Nat /\ OptTree(result) /\ Inner(result) \in Nat
      /\ Cardinality(Unmerged(merging)) \in Nat
  BY ScoreKept, HeldTyped DEF IInv, TypeOK, ComposerOK, ControlOK
<1>2. ASSUME frames # <<>>
      PROVE  /\ FrameOK(Top) /\ TreeSeq(Top.kids) /\ OptTree(Top.key)
             /\ Top.label = MAP => EntriesOK(Top.kids)
             /\ NodeCount(Build(Top.label, Top.kids)) \in Nat /\ Inner(Top.key) \in Nat
  BY <1>1, <1>2, FramesTop, ApartFrames, FrameNodesTyped DEF FrameOK, ChargeInv
<1>3. /\ IsTree(ValueOrNull) /\ NodeCount(ValueOrNull) \in Nat
      /\ NodeCount(ValueOrNull) = Inner(result) + 1
  <2>1. CASE result = NoValue
    BY <2>1, LeafIsTree, SmallCounts DEF ValueOrNull, Inner
  <2>2. CASE result # NoValue
    <3>1. IsTree(result) /\ Inner(result) = NodeCount(result) - 1
      BY <1>1, <2>2, InnerNodes
    <3>2. NodeCount(result) \in Nat
      BY <3>1, ComplexityCoversNodes
    <3> QED BY <2>2, <3>1, <3>2 DEF ValueOrNull
  <2> QED BY <2>1, <2>2
<1>4. CASE ReturnToDocument
  <2>1. /\ frames' = frames /\ merging' = merging /\ tracker' = tracker /\ result' = result
        /\ docs' = docs
    BY <1>4 DEF ReturnToDocument, Goto, Proceed, client, composer
  <2> QED BY <1>1, <2>1, IdlePays
<1>5. CASE ReturnNone
  <2>1. CloseTop /\ frames # <<>>
    BY <1>5 DEF ReturnNone, AtLoopHead
  <2> QED BY <1>1, <2>1, CloseTopPays
<1>6. CASE RefuseMerge
  <2>1. Fail /\ tracker' = tracker
    BY <1>6 DEF RefuseMerge, composer
  <2> QED BY <1>1, <2>1, FailPays DEF Fail
<1>7. CASE ReturnElement
  <2> DEFINE kids == Append(Top.kids, result)
             a == NodeCount(Build(Top.label, Top.kids))
             b == NodeCount(Build(Top.label, kids))
  <2>1. frames # <<>> /\ Top.label = SEQ /\ AddItem(1, kids) /\ result # NoValue
    BY <1>7 DEF ReturnElement
  <2>2. IsTree(result) /\ NodeCount(result) = Inner(result) + 1
    <3>1. IsTree(result) /\ Inner(result) = NodeCount(result) - 1
      BY <1>1, <2>1, InnerNodes
    <3>2. NodeCount(result) \in Nat
      BY <3>1, ComplexityCoversNodes
    <3> QED BY <3>1, <3>2
  <2>3. TreeSeq(kids) /\ b <= a + NodeCount(result)
    BY <1>2, <2>1, <2>2, TreeSeqAppend, AppendCounts
  <2>4. a \in Nat /\ b \in Nat /\ Inner(Top.key) \in Nat
    BY <1>2, <2>1, <2>3, BuildIsTree, ComplexityCoversNodes
  <2>5. Top.label # MAP
    BY <2>1 DEF SEQ, MAP
  <2> HIDE DEF a, b, kids
  <2>6. b <= a + Inner(Top.key) + Inner(result) + 1
    BY <1>1, <2>2, <2>3, <2>4
  <2> QED BY <1>1, <2>1, <2>3, <2>5, <2>6, AddItemPays DEF a, b
<1>8. CASE ReturnValue
  <2> DEFINE kids == Insert(Top.kids, Top.key, ValueOrNull)
             a == NodeCount(Build(Top.label, Top.kids))
             b == NodeCount(Build(Top.label, kids))
             x == Inner(Top.key)
             y == Inner(result)
  <2>1. frames # <<>> /\ Top.label = MAP /\ AddItem(2, kids) /\ Top.key # NoValue
    BY <1>8 DEF ReturnValue, AtValue, InMapping
  <2>2. IsTree(Top.key) /\ NodeCount(Top.key) = x + 1
    <3>1. IsTree(Top.key) /\ Inner(Top.key) = NodeCount(Top.key) - 1
      BY <1>2, <2>1, InnerNodes
    <3>2. NodeCount(Top.key) \in Nat
      BY <3>1, ComplexityCoversNodes
    <3> QED BY <3>1, <3>2
  <2>3. TreeSeq(kids) /\ EntriesOK(kids)
    BY <1>2, <1>3, <2>1, <2>2, TreeSeqInsert, InsertsKeepEntries
  <2>4. b <= a + NodeCount(Top.key) + NodeCount(ValueOrNull)
    BY <1>2, <1>3, <2>1, <2>2, InsertCounts
  <2>5. a \in Nat /\ b \in Nat /\ x \in Nat /\ y \in Nat
    BY <1>1, <1>2, <2>1, <2>3, BuildIsTree, ComplexityCoversNodes
  <2>6. NodeCount(ValueOrNull) = y + 1
    BY <1>3
  <2> HIDE DEF a, b, kids, x, y
  <2>7. b <= a + x + y + 2
    BY <2>2, <2>4, <2>5, <2>6
  <2> QED BY <1>1, <2>1, <2>3, <2>7, AddItemPays DEF a, b, x, y
<1>9. CASE ReturnKey
  <2> DEFINE f == [Top EXCEPT !.key = result]
  <2>1. /\ frames # <<>> /\ Top.label = MAP /\ Top.key = NoValue /\ frames' = WithTop(f)
        /\ result # NoValue /\ result' = NoValue /\ merging' = merging /\ tracker' = tracker
        /\ docs' = docs
    BY <1>9 DEF ReturnKey, AtValue, InMapping, Proceed, client, composer
  <2>2. /\ FrameOK(f) /\ f.label = Top.label /\ f.kids = Top.kids /\ f.key = result
    BY <1>1, <1>2, <2>1 DEF FrameOK
  <2> HIDE DEF f
  <2>3. Inner(NoValue) = 0
    BY DEF Inner
  <2>4. /\ FrameNodes(f) = NodeCount(Build(Top.label, Top.kids)) - 1 + Inner(result)
        /\ FrameNodes(Top) = NodeCount(Build(Top.label, Top.kids)) - 1 + Inner(Top.key)
    BY <1>2, <2>1, <2>2, FrameNodesTyped
  <2>5. FrameNodes(f) + Inner(result') + Cardinality(Unmerged(merging'))
            <= FrameNodes(Top) + Inner(result) + Cardinality(Unmerged(merging))
    BY <1>1, <1>2, <2>1, <2>3, <2>4
  <2> QED BY <1>2, <2>1, <2>2, <2>5, TopPays DEF ChargeInv
<1>10. CASE MergeEntry
  BY <1>10, MergePays DEF MergeEntry, Proceed, client
<1>11. CASE EndMerge
  <2> DEFINE f == [Top EXCEPT !.key = NoValue]
  <2>1. /\ frames # <<>> /\ frames' = WithTop(f) /\ result' = result /\ merging' = NoMerge
        /\ tracker' = tracker /\ docs' = docs
    BY <1>11 DEF EndMerge, IInv, TypeOK, ControlOK, InMapping, Proceed, client, composer
  <2>2. /\ FrameOK(f) /\ f.label = Top.label /\ f.kids = Top.kids /\ f.key = NoValue
    BY <1>2, <2>1 DEF FrameOK, OptTree
  <2> HIDE DEF f
  <2>3. Inner(NoValue) = 0
    BY DEF Inner
  <2>4. /\ FrameNodes(f) = NodeCount(Build(Top.label, Top.kids)) - 1 + Inner(NoValue)
        /\ FrameNodes(Top) = NodeCount(Build(Top.label, Top.kids)) - 1 + Inner(Top.key)
    BY <1>2, <2>1, <2>2, FrameNodesTyped
  <2>5. Cardinality(Unmerged(merging')) = 0 /\ MergeCounted(merging')
    BY <2>1, NothingUnmerged
  <2>6. FrameNodes(f) + Inner(result') + Cardinality(Unmerged(merging'))
            <= FrameNodes(Top) + Inner(result) + Cardinality(Unmerged(merging))
    BY <1>1, <1>2, <2>1, <2>3, <2>4, <2>5
  <2> QED BY <1>2, <2>1, <2>2, <2>5, <2>6, TopPays
<1>12. CASE BeginMerge \/ NextSource
  <2> DEFINE o == OpenNodes(frames)
             r == Inner(result')
             u == Cardinality(Unmerged(merging'))
  <2>1. /\ frames' = frames /\ tracker' = tracker /\ docs' = docs
    BY <1>12 DEF BeginMerge, NextSource, Proceed, client, composer
  <2>2. /\ MergeCounted(merging') /\ r \in Nat /\ u \in Nat
        /\ r + u <= Inner(result) + Cardinality(Unmerged(merging))
    <3>1. CASE BeginMerge
      <4>1. /\ merging'.value = ValueOrNull /\ merging'.element = 1 /\ merging'.entry = 1
            /\ result' = NoValue
        BY <3>1 DEF BeginMerge
      <4>2. u <= NodeCount(ValueOrNull) - 1 /\ u \in Nat
        BY <1>3, <4>1, UnmergedAtFirst
      <4>3. r = 0
        BY <4>1 DEF Inner
      <4>4. MergeCounted(merging')
        BY <4>1 DEF MergeCounted
      <4> QED BY <1>1, <1>3, <4>2, <4>3, <4>4
    <3>2. CASE NextSource
      <4>1. /\ IsTree(merging.value) /\ MergeCounted(merging) /\ result' = result
            /\ DOMAIN merging = {"value", "element", "entry"}
            /\ merging' = [merging EXCEPT !.element = @ + 1, !.entry = 1]
        BY <3>2 DEF NextSource, IInv, TypeOK, ControlOK, MergingOK, ChargeInv
      <4>2. /\ merging'.value = merging.value /\ merging'.element = merging.element + 1
            /\ merging'.entry = 1
        BY <4>1
      <4>3. u \in Nat /\ u <= Cardinality(Unmerged(merging))
        BY <4>1, <4>2, SourceCounts
      <4>4. MergeCounted(merging')
        BY <4>1, <4>2 DEF MergeCounted
      <4> QED BY <1>1, <4>1, <4>3, <4>4
    <3> QED BY <1>12, <3>1, <3>2
  <2>3. o \in Nat /\ OpenNodes(frames') = o
    BY <2>1, HeldTyped DEF IInv, TypeOK
  <2>4. EntriesApart(frames')
    BY <2>1 DEF ChargeInv
  <2>5. Inner(result') = r /\ Cardinality(Unmerged(merging')) = u
    OBVIOUS
  <2> HIDE DEF o, r, u
  <2>6. o + r + u + tracker.complexity_score
            <= o + Inner(result) + Cardinality(Unmerged(merging)) + tracker'.complexity_score
    BY <1>1, <2>1, <2>2, <2>3
  <2> QED BY <1>1, <2>1, <2>2, <2>3, <2>4, <2>5, <2>6, PaysIntro DEF o
<1> QED BY <1>4, <1>5, <1>6, <1>7, <1>8, <1>9, <1>10, <1>11, <1>12 DEF Returning

\* What the client receives was charged while it was put together.
LEMMA DeliveryCharged ==
    ASSUME IInv, ChargeInv, caller' = caller,
           EntriesApart(frames'), MergeCounted(merging'), tracker' = tracker,
           \/ /\ docs' = docs \/ (docs = <<>> /\ docs' = <<Leaf(Null)>>)
              /\ Held(frames', result', merging') = Held(frames, result, merging)
           \/ /\ result # NoValue /\ docs' = Append(docs, result)
              /\ frames' = frames /\ merging' = merging /\ result' = NoValue
    PROVE  ChargeInv'
<1> DEFINE d == TotalNodes(docs)
           l == Len(docs)
           s == tracker.complexity_score
           h == Held(frames, result, merging)
           h2 == Held(frames', result', merging')
<1>1. /\ TreeSeq(docs) /\ docs \in Seq(Elements(docs)) /\ l \in Nat
  BY LenProperties DEF IInv, TypeOK, ClientOK, TreeSeq
<1>2. /\ OpenNodes(frames) \in Nat /\ Inner(result) \in Nat
      /\ Cardinality(Unmerged(merging)) \in Nat
  BY HeldTyped DEF IInv, TypeOK
<1>3. s \in Nat
  BY ScoreKept DEF IInv, TypeOK, ComposerOK
<1>4. IsTree(Leaf(Null)) /\ NodeCount(Leaf(Null)) = 1
  BY LeafIsTree, SmallCounts
<1>5. d \in Nat
  BY <1>1, <1>4, TotalNodesAppend
<1>6. caller # "direct" => d + h <= s + l
  BY DEF ChargeInv
<1>7. h \in Nat /\ h = OpenNodes(frames) + Inner(result) + Cardinality(Unmerged(merging))
  BY <1>2 DEF Held
<1>8. caller # "direct" => TotalNodes(docs') + h2 <= s + Len(docs')
  <2>1. CASE docs' = docs /\ h2 = h
    BY <1>6, <2>1
  <2>2. CASE /\ result # NoValue /\ docs' = Append(docs, result)
             /\ frames' = frames /\ merging' = merging /\ result' = NoValue
    <3>1. IsTree(result) /\ Inner(result) = NodeCount(result) - 1
      BY <2>2, InnerNodes DEF IInv, TypeOK, ControlOK
    <3>2. NodeCount(result) \in Nat
      BY <3>1, ComplexityCoversNodes
    <3>3. TotalNodes(docs') = d + NodeCount(result)
      BY <1>1, <2>2, <3>1, TotalNodesAppend
    <3>4. Len(docs') = l + 1
      <4> DEFINE S == Elements(docs) \cup {result}
      <4>1. docs \in Seq(S) /\ result \in S
        BY <1>1, SeqMonotonic
      <4> QED BY <2>2, <4>1, AppendProperties
    <3>5. h2 = OpenNodes(frames) + 0 + Cardinality(Unmerged(merging))
      BY <2>2 DEF Held, Inner
    <3>6. l \in Nat
      BY <1>1
    <3> DEFINE n == NodeCount(result)
               o == OpenNodes(frames)
               u == Cardinality(Unmerged(merging))
    <3>7. o \in Nat /\ u \in Nat /\ n \in Nat /\ h = o + (n - 1) + u /\ h2 = o + u
      BY <1>2, <1>7, <3>1, <3>2, <3>5
    <3>8. TotalNodes(docs') = d + n
      BY <3>3
    <3> HIDE DEF d, l, s, h, h2, n, o, u
    <3>9. (d + n) + h2 = (d + h) + 1
      BY <1>5, <3>7
    <3>10. caller # "direct" => (d + n) + h2 <= s + (l + 1)
      BY <1>3, <1>5, <1>6, <1>7, <3>6, <3>7, <3>9
    <3> QED BY <3>4, <3>8, <3>10
  <2>3. CASE docs = <<>> /\ docs' = <<Leaf(Null)>> /\ h2 = h
    <3>1. TotalNodes(docs') = 1
      BY <1>1, <1>4, <2>3, TotalNodesAppend
    <3>2. Len(docs') = 1 /\ l = 0 /\ d = 0
      BY <2>3, NoNodes
    <3> HIDE DEF d, l, s, h, h2
    <3> QED BY <1>3, <1>6, <1>7, <2>3, <3>1, <3>2
  <2> QED BY <2>1, <2>2, <2>3
<1>9. caller' # "direct" =>
          TotalNodes(docs') + Held(frames', result', merging') <= tracker'.complexity_score + Len(docs')
  BY <1>8
<1> QED BY <1>9 DEF ChargeInv

\* Every step keeps the charges.
LEMMA ChargeStep ==
    ASSUME IInv, IInv', ChargeInv, [Next]_vars
    PROVE  ChargeInv'
<1>1. CASE vars' = vars
  BY <1>1 DEF vars, control, client, composer, ChargeInv
<1>2. CASE Next
  <2>1. /\ Step /\ caller' = caller /\ tracker' \in Trackers /\ tracker.complexity_score \in Nat
    BY <1>2, ScoreKept DEF Next, IInv, TypeOK, ComposerOK
  <2>2. EntriesApart(frames) /\ MergeCounted(merging)
    BY DEF ChargeInv
  <2>3. CASE Node \/ Returning
    BY <2>1, <2>3, NodePays, ReturningPays, PaysKeeps
  <2>4. CASE BeginDocument \/ HeaderDocumentStart \/ HeaderDone \/ FooterDocumentEnd
    <3>1. /\ frames' = frames /\ merging' = merging /\ tracker' = tracker /\ result' = result
          /\ docs' = docs
      BY <2>4 DEF BeginDocument, HeaderDocumentStart, HeaderDone, FooterDocumentEnd, Goto,
                  Proceed, client, composer, control
    <3> QED BY <2>1, <3>1, IdlePays, PaysKeeps
  <2>5. CASE ReportScanningError \/ RefuseDocument
    <3>1. Fail /\ tracker' = tracker /\ docs' = docs
      BY <2>5 DEF ReportScanningError, RefuseDocument, composer, Fail
    <3> QED BY <2>1, <3>1, FailPays, PaysKeeps
  <2>6. CASE FinishLoadAll
    <3>1. /\ frames' = frames /\ result' = result /\ merging' = merging
          /\ tracker' = tracker /\ docs' = IF docs = <<>> THEN <<Leaf(Null)>> ELSE docs
      BY <2>6 DEF FinishLoadAll, composer, control
    <3> QED BY <2>1, <2>2, <3>1, DeliveryCharged
  <2>7. CASE ReturnDocument
    <3>1. /\ frames' = frames /\ result' = NoValue /\ merging' = merging
          /\ tracker' = tracker
          /\ IF result # NoValue THEN docs' = Append(docs, result)
             ELSE docs' = IF caller # "direct" /\ docs = <<>> THEN <<Leaf(Null)>> ELSE docs
      BY <2>7 DEF ReturnDocument, composer
    <3>2. result = NoValue => Held(frames', result', merging') = Held(frames, result, merging)
      BY <3>1
    <3> QED BY <2>1, <2>2, <3>1, <3>2, DeliveryCharged
  <2>8. CASE Reset
    BY <2>1, <2>8 DEF Reset, control, ChargeInv
  <2>9. CASE Terminated
    BY <2>9 DEF Terminated, vars, control, client, composer, ChargeInv
  <2> QED BY <2>1, <2>3, <2>4, <2>5, <2>6, <2>7, <2>8, <2>9 DEF Step, Call, Frame
<1> QED BY <1>1, <1>2

\* Nothing is held before the first call.
LEMMA ChargeBegins == Init => ChargeInv
<1> SUFFICES ASSUME Init PROVE ChargeInv
  OBVIOUS
<1>1. /\ frames = <<>> /\ result = NoValue /\ merging = NoMerge /\ docs = <<>>
      /\ tracker.complexity_score = 0
  BY DEF Init, ComposerInit, NewTracker
<1>2. EntriesApart(<<>>)
  BY DEF EntriesApart, Elements
<1>3. Held(<<>>, NoValue, NoMerge) = 0
  BY NothingOpen, NothingUnmerged DEF Held, Inner
<1>4. TotalNodes(<<>>) = 0 /\ Len(<<>>) = 0
  BY NoNodes
<1> QED BY <1>1, <1>2, <1>3, <1>4, NothingUnmerged DEF ChargeInv

\* Everything load and load_all return was charged to complexity_score: the documents
\* have at most as many nodes as the score and their roots, cloned and merged nodes
\* included, whatever the events, the limits and the values are (src/limits.rs
\* add_complexity, called by compose_sequence, compose_mapping and the alias arm).
THEOREM EverythingCharged == Spec => []DocumentsCharged
<1>1. Init => ChargeInv
  BY ChargeBegins
<1>2. IInv /\ IInv' /\ ChargeInv /\ [Next]_vars => ChargeInv'
  BY ChargeStep
<1>3. IInv /\ ChargeInv => DocumentsCharged
  <2> SUFFICES ASSUME IInv, ChargeInv, caller # "direct"
               PROVE  TotalNodes(docs) <= tracker.complexity_score + Len(docs)
    BY DEF DocumentsCharged
  <2>1. TotalNodes(docs) \in Nat /\ Len(docs) \in Nat /\ tracker.complexity_score \in Nat
    <3>1. TreeSeq(docs) /\ docs \in Seq(Elements(docs))
      BY DEF IInv, TypeOK, ClientOK, TreeSeq
    <3>2. IsTree(Leaf(Null))
      BY LeafIsTree
    <3>3. tracker.complexity_score \in Nat
      BY ScoreKept DEF IInv, TypeOK, ComposerOK
    <3> QED BY <3>1, <3>2, <3>3, TotalNodesAppend, LenProperties
  <2>2. Held(frames, result, merging) \in Nat
    BY HeldTyped DEF IInv, TypeOK, Held
  <2>3. TotalNodes(docs) + Held(frames, result, merging) <= tracker.complexity_score + Len(docs)
    BY DEF ChargeInv
  <2> QED BY <2>1, <2>2, <2>3
<1> QED BY <1>1, <1>2, <1>3, Invariance, PTL DEF Spec
=============================================================================
