--------------------------- MODULE ComposerState ---------------------------
(***************************************************************************)
(* What the three composers beside BasicComposer have in common: their     *)
(* fields and the parser they read, here a finished stream of events.      *)
(*                                                                         *)
(* A composer is a record.  Their methods are operators from a composer to *)
(* a composer, which keep the Option<Value> they return in `value` and an  *)
(* error in `failed`; an error passes through every caller and leaves the  *)
(* fields as they are, which is what the `?` operator does.                *)
(*                                                                         *)
(*   events   the stream                                                   *)
(*   visible  the positions whose events peek_event shows, those the       *)
(*            parser has made before it is asked for them                  *)
(*   at       the position of the cursor                                   *)
(*   cloned   the nodes of the clones kept for aliases, which no field     *)
(*            counts                                                       *)
(***************************************************************************)
EXTENDS Values, Limits, EventStream

NewComposer(events, visible) ==
    [events |-> events, visible |-> visible, at |-> 1,
     anchors |-> [n \in Names |-> NoValue],
     tracker |-> NewTracker,
     alias_expansion_stack |-> <<>>,
     current_depth |-> 0,
     yaml_version |-> "1.2",
     value |-> NoValue, failed |-> FALSE, cloned |-> 0]

HasEvent(c) == c.at <= Len(c.events)
Got(c) == c.events[c.at]
Get(c) == [c EXCEPT !.at = @ + 1]

\* peek_event shows an event of one of these types.
Sees(c, types) == HasEvent(c) /\ c.at \in c.visible /\ Got(c).type \in types

Ok(c, value) == [c EXCEPT !.value = value]
Err(c) == [c EXCEPT !.value = NoValue, !.failed = TRUE]

\* A quoted scalar has its quotes in the content of its event.
Quoted == "'true'"
Text(content) == IF content = Quoted THEN "true" ELSE content

\* What a plain scalar is resolved to, and what is no scalar.
resolve_plain_scalar(content, version) ==
    CASE content = "" -> Null
      [] content = "yes" /\ version = "1.1" -> "true"
      [] OTHER -> content

IsValueIndicator(content, version) == content = "=" /\ version = "1.1"

\* The entries of a mapping below the entries `kids` already has.
RECURSIVE Merged(_, _, _)
Merged(kids, source, i) ==
    IF 2 * i > Arity(source) THEN kids
    ELSE Merged(OrInsert(kids, Child(source, 2 * i - 1), Child(source, 2 * i)), source, i + 1)

\* The values a merge key names, one or several.
Sources(value) ==
    IF Label(value) = SEQ THEN [i \in 1 .. Arity(value) |-> Child(value, i)] ELSE <<value>>

RECURSIVE MergedAll(_, _)
MergedAll(kids, sources) ==
    IF sources = <<>> THEN kids ELSE MergedAll(Merged(kids, Head(sources), 1), Tail(sources))

-----------------------------------------------------------------------------
\* What ReducedAllocComposer and ZeroCopyComposer write alike.

\* A collection before its loop and behind it.
Opened(c) ==
    [c EXCEPT !.current_depth = @ + 1, !.tracker = check_depth(@, c.current_depth + 1)]

Closed(c, label, kids) == Ok([c EXCEPT !.current_depth = @ - 1], Build(label, kids))

\* The tracker once an item is charged, as far as the charges go.
Charged(t, score) ==
    LET item == add_collection_item(t)
    IN  IF WithinItems(item) THEN add_complexity(item, score) ELSE item

ItemAllowed(t) == WithinItems(t) /\ WithinComplexity(t)

Boundaries == {"DocumentEnd", "DocumentStart", "StreamEnd"}

ValueOrNull(value) == IF value = NoValue THEN Leaf(Null) ELSE value

\* The loops of compose_document before and behind the node.
RECURSIVE SkipStarts(_), SkipEnds(_)

SkipStarts(c) ==
    IF Sees(c, {"DocumentStart"})
    THEN SkipStarts(Get([c EXCEPT !.yaml_version = Got(c).value]))
    ELSE c

SkipEnds(c) == IF ~c.failed /\ Sees(c, {"DocumentEnd"}) THEN SkipEnds(Get(c)) ELSE c
=============================================================================
