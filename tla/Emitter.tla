------------------------------- MODULE Emitter -------------------------------
(***************************************************************************)
(* BasicEmitter (src/emitter.rs): from a value to the lines of a text.     *)
(*                                                                         *)
(* An emitter is a record of the fields of the struct, and of the writer   *)
(* it is given for a call:                                                 *)
(*                                                                         *)
(*   indent, sequence_indent     sequence_indent is Same for None          *)
(*   emit_anchors, yaml_version  yaml_version: a %YAML directive is set    *)
(*   current_indent, shared_values                                         *)
(*   lines    what was written, line by line: an indentation and marks     *)
(*   room     how many more marks and line ends the writer accepts         *)
(*   failed   a write has failed: the call is on its way out with `?`      *)
(*                                                                         *)
(* A mark is a lexeme of the module Scanner with its content, the text of  *)
(* a scalar or the name of an anchor.  Blank lines are left out; so are    *)
(* %TAG directives, indentation by tabs and the style of quotes.           *)
(*                                                                         *)
(* emit_value is called for the root and for values that are not shared.   *)
(* A root is no part of itself; it is shared only where                    *)
(* emit_commented_value_public finds it among the shared values that an    *)
(* earlier call has left.                                                  *)
(***************************************************************************)
EXTENDS Integers, SequencesExt, Values

CONSTANTS
    NeedsQuoting    \* the scalars that are written in quotes

Same == -1

NewEmitter(indent, sequence_indent, emit_anchors, yaml_version) ==
    [indent |-> indent, sequence_indent |-> sequence_indent, emit_anchors |-> emit_anchors,
     yaml_version |-> yaml_version, current_indent |-> 0, shared_values |-> <<>>,
     lines |-> <<>>, room |-> 0, failed |-> FALSE]

-----------------------------------------------------------------------------
\* Writing.

\* The emitter with a new writer.
OnWriter(e, room) ==
    [e EXCEPT !.lines = <<[indent |-> 0, marks |-> <<>>]>>, !.room = room, !.failed = FALSE]

\* A step that writes: the writer may refuse it, and nothing follows a refusal.
Written(e, lines) ==
    IF e.failed \/ e.room = 0 THEN [e EXCEPT !.failed = TRUE]
    ELSE [e EXCEPT !.room = @ - 1, !.lines = lines]

Put(e, lexeme, content) ==
    Written(e, [e.lines EXCEPT ![Len(e.lines)].marks =
                   Append(@, [lexeme |-> lexeme, content |-> content])])

PutAll(e, lexemes) == FoldLeft(LAMBDA w, l : Put(w, l, ""), e, lexemes)

NewLine(e) ==
    Written(e, IF Last(e.lines).marks = <<>> THEN e.lines
               ELSE Append(e.lines, [indent |-> 0, marks |-> <<>>]))

\* Blanks within a line are left out.
write_indent(e) ==
    IF e.failed \/ Last(e.lines).marks # <<>> THEN e
    ELSE [e EXCEPT !.lines[Len(e.lines)].indent = @ + e.current_indent]

\* self.current_indent += n, or -= with a negative n.
Shift(e, n) == IF e.failed THEN e ELSE [e EXCEPT !.current_indent = @ + n]

effective_sequence_indent(e) == IF e.sequence_indent = Same THEN e.indent ELSE e.sequence_indent

-----------------------------------------------------------------------------
\* Shared values.

Complex(v) == Label(v) \in {SEQ, MAP}

Part(v, p) ==
    [q \in {SubSeq(r, Len(p) + 1, Len(r)) : r \in {r \in DOMAIN v : IsPrefix(p, r)}} |-> v[p \o q]]

\* The collections that occur more than once in a value, keys included.
SharedIn(v) ==
    LET complex == {p \in DOMAIN v : v[p] \in {SEQ, MAP}}
    IN  {Part(v, p) : p \in {p \in complex : \E q \in complex \ {p} : Part(v, p) = Part(v, q)}}

\* The orders in which a HashMap may yield them.
Numberings(v) == SetToSeqs(SharedIn(v))

analyze_shared_values(e, numbering) ==
    LET info(n) == [anchor_name |-> n, first_occurrence |-> TRUE]
        new == [v \in ToSet(numbering) |-> info(CHOOSE n \in DOMAIN numbering : numbering[n] = v)]
    IN  [e EXCEPT !.shared_values = new @@ @]

-----------------------------------------------------------------------------
\* Scalars, and collections on one line.

emit_scalar(v, e) == Put(e, IF Label(v) \in NeedsQuoting THEN "q" ELSE "s", Label(v))

RECURSIVE emit_flow_style(_, _)

\* emit_sequence_flow_style and emit_mapping_flow_style.
emit_flow_style(v, e) ==
    LET separator(i) == CASE i = 1 -> <<>>
                          [] Label(v) = MAP /\ i % 2 = 0 -> <<":">>
                          [] OTHER -> <<",">>
        item(w, i) == emit_flow_style(Child(v, i), PutAll(w, separator(i)))
        brackets == IF Label(v) = SEQ THEN <<"[", "]">> ELSE <<"{", "}">>
    IN  IF ~Complex(v) THEN emit_scalar(v, e)
        ELSE Put(FoldLeft(item, Put(e, brackets[1], ""), [i \in 1 .. Arity(v) |-> i]),
                 brackets[2], "")

-----------------------------------------------------------------------------
\* Block collections.

RECURSIVE emit_collection(_, _), emit_sequence_item_body(_, _), emit_pair_value(_, _)

NoItems(v) == Complex(v) /\ Arity(v) = 0

emit_sequence(v, e) ==
    LET item(w, i) ==
            emit_sequence_item_body(Child(v, i),
                Put(write_indent(IF i > 1 THEN NewLine(w) ELSE w), "-", ""))
    IN  IF NoItems(v) THEN emit_flow_style(v, e)
        ELSE FoldLeft(item, e, [i \in 1 .. Arity(v) |-> i])

\* Mutant: the line of a complex key's value is not indented.
write_key_unindented(k, e) ==
    IF Complex(k) THEN NewLine(emit_flow_style(k, Put(e, "?", ""))) ELSE emit_scalar(k, e)

\* A key up to where its value is written.
write_key(k, e) ==
    IF Complex(k) THEN write_indent(NewLine(emit_flow_style(k, Put(e, "?", ""))))
    ELSE emit_scalar(k, e)

emit_mapping_inner(v, e, skip_first_indent) ==
    LET start(w, j) == IF j > 1 THEN write_indent(NewLine(w))
                       ELSE IF skip_first_indent THEN w ELSE write_indent(w)
        entry(w, j) ==
            emit_pair_value(Child(v, 2 * j), write_key(Child(v, 2 * j - 1), start(w, j)))
    IN  IF NoItems(v) THEN emit_flow_style(v, e)
        ELSE FoldLeft(entry, e, [j \in 1 .. Arity(v) \div 2 |-> j])

\* emit_sequence or emit_mapping.
emit_collection(v, e) ==
    IF Label(v) = SEQ THEN emit_sequence(v, e) ELSE emit_mapping_inner(v, e, FALSE)

\* Mutant: the mark is not cleared.
meet_again(e, v) == e

\* info_mut.first_occurrence = false
meet(e, v) == IF e.failed THEN e ELSE [e EXCEPT !.shared_values[v].first_occurrence = FALSE]

Shared(v, e) == v \in DOMAIN e.shared_values

\* It occurred before: an alias stands for it.
Repeated(v, e) == Shared(v, e) /\ ~e.shared_values[v].first_occurrence
emit_alias(v, e) == Put(e, "*", e.shared_values[v].anchor_name)

\* The end of the line above a collection, with the anchor of a shared one.
Introduce(v, e) ==
    IF Shared(v, e) THEN meet(NewLine(Put(e, "&", e.shared_values[v].anchor_name)), v) ELSE NewLine(e)

\* A collection on the lines below, indented by `bump`: what emit_value does for one
\* that is not shared.
Lower(v, e, bump) == Shift(emit_collection(v, Shift(Introduce(v, e), bump)), -bump)

\* Mutant: the lines of a mapping behind a dash are not indented.
item_body_flat(v, e) ==
    CASE NoItems(v) -> emit_flow_style(v, e)
      [] Repeated(v, e) -> emit_alias(v, e)
      [] Label(v) = MAP /\ ~Shared(v, e) -> emit_mapping_inner(v, e, TRUE)
      [] Label(v) = SEQ \/ Shared(v, e) -> Lower(v, e, e.indent)
      [] OTHER -> emit_scalar(v, e)

\* Behind "- ": a mapping without an anchor starts on the same line.
emit_sequence_item_body(v, e) ==
    CASE NoItems(v) -> emit_flow_style(v, e)
      [] Repeated(v, e) -> emit_alias(v, e)
      [] Label(v) = MAP /\ ~Shared(v, e) ->
             Shift(emit_mapping_inner(v, Shift(e, e.indent), TRUE), -e.indent)
      [] Label(v) = SEQ \/ Shared(v, e) -> Lower(v, e, e.indent)
      [] OTHER -> emit_scalar(v, e)

BodyBehindColon(v, e) ==
    CASE NoItems(v) -> emit_flow_style(v, e)
      [] Repeated(v, e) -> emit_alias(v, e)
      [] Complex(v) -> Lower(v, e, IF Label(v) = SEQ THEN effective_sequence_indent(e) ELSE e.indent)
      [] OTHER -> emit_scalar(v, e)

\* Behind a key.
emit_pair_value(v, e) == BodyBehindColon(v, Put(e, ":", ""))

-----------------------------------------------------------------------------
\* Any value: one that is shared is anchored where it stands.
RECURSIVE emit_value(_, _)

\* Its keys are no flow collections.
emit_mapping_with_anchor(v, e) ==
    LET key(k, w) == IF Complex(k) THEN write_indent(NewLine(emit_value(k, Put(w, "?", ""))))
                     ELSE emit_scalar(k, w)
        start(w, j) == write_indent(IF j > 1 THEN NewLine(w) ELSE w)
        entry(w, j) == emit_pair_value(Child(v, 2 * j), key(Child(v, 2 * j - 1), start(w, j)))
    IN  IF NoItems(v) THEN emit_flow_style(v, e)
        ELSE FoldLeft(entry, NewLine(e), [j \in 1 .. Arity(v) \div 2 |-> j])

\* The first item of a sequence is indented twice.
emit_sequence_with_anchor(v, e) == emit_sequence(v, write_indent(NewLine(e)))

emit_value(v, e) ==
    LET anchored == Put(e, "&", e.shared_values[v].anchor_name)
    IN  CASE Repeated(v, e) -> emit_alias(v, e)
          [] Shared(v, e) /\ ~Repeated(v, e) ->
                 meet(IF Label(v) = SEQ THEN emit_sequence_with_anchor(v, anchored)
                      ELSE emit_mapping_with_anchor(v, anchored), v)
          [] ~Shared(v, e) -> IF Complex(v) THEN emit_collection(v, e) ELSE emit_scalar(v, e)

-----------------------------------------------------------------------------
(***************************************************************************)
(* Values with comments: a leading one, a trailing one, and for collections *)
(* an inner one (CommentedValue of src/value.rs).                          *)
(***************************************************************************)
CommentedValue(v, leading, trailing, inner) ==
    [value |-> v, leading |-> leading, trailing |-> trailing, inner |-> inner]

CommentLine(e) == NewLine(Put(write_indent(e), "#", ""))

emit_leading_comments(c, e) == IF c.leading THEN CommentLine(e) ELSE e

\* A scalar has none.
emit_inner_comments(c, e) ==
    IF c.inner /\ Complex(c.value) THEN CommentLine(NewLine(e)) ELSE e

\* On a line of its own behind a collection.
emit_trailing_comment(c, e) ==
    IF ~c.trailing THEN e
    ELSE IF Complex(c.value) THEN CommentLine(NewLine(e)) ELSE Put(e, "#", "")

emit_commented_value(c, e) ==
    emit_trailing_comment(c, emit_inner_comments(c, emit_value(c.value, emit_leading_comments(c, e))))

\* As it stands: nothing is reset, analyzed or written before it.
emit_commented_value_public(c, e) == emit_commented_value(c, e)

-----------------------------------------------------------------------------
(***************************************************************************)
(* The Emitter trait.  `numbering` is the order the HashMap takes.         *)
(***************************************************************************)

\* Mutant: the anchors of a failed call stay.
reset_indent_only(e) == [e EXCEPT !.current_indent = 0]

reset(e) == [e EXCEPT !.current_indent = 0, !.shared_values = <<>>]

emit_directives(e) ==
    IF e.yaml_version THEN NewLine(Put(NewLine(Put(e, "%", "")), "---", "")) ELSE e

Analyze(e, numbering) ==
    IF e.emit_anchors /\ ~e.failed THEN analyze_shared_values(e, numbering) ELSE e

\* The part emit, emit_commented and emit_with_style have in common.
Prepare(e, numbering) == Analyze(emit_directives(reset(e)), numbering)

\* A top-level sequence is preceded by a blank line.
LeadIn(v, e) == IF Label(v) = SEQ THEN NewLine(e) ELSE e

emit(v, numbering, e) == NewLine(emit_value(v, LeadIn(v, Prepare(e, numbering))))

emit_commented(c, numbering, e) == NewLine(emit_commented_value(c, Prepare(e, numbering)))

\* The end of emit_with_style.  The last line end may fail and skip the rest.
RestoreStyle(e, style) == IF e.failed THEN e ELSE [e EXCEPT !.indent = style]
EndStyled(e, style) ==
    IF e.failed THEN [e EXCEPT !.indent = style] ELSE RestoreStyle(NewLine(e), style)

\* Where the directives fail, nothing restores the style either.
EmitStyled(c, style, e) == IF e.failed THEN e ELSE EndStyled(emit_commented_value(c, e), style)

emit_with_style(c, style, numbering, e) ==
    EmitStyled(c, e.indent, Prepare([e EXCEPT !.indent = style], numbering))
=============================================================================
