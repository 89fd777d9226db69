------------------------------- MODULE Scanner -------------------------------
(***************************************************************************)
(* BasicScanner (src/scanner/mod.rs): from the lines of a text to tokens.  *)
(*                                                                         *)
(* A text is a sequence of lines, a line an indentation and the lexemes on *)
(* it.  Lexemes are single indicators or stand for a class of text:        *)
(*                                                                         *)
(*   "s"    a word of a plain scalar            "&" "*" "!"  an anchor, an *)
(*   "q"    a quoted scalar on one line         alias, a tag: one name of  *)
(*   "---" "..." "%"   a document marker, a     each                       *)
(*          %YAML directive                     "#" "#:"  a comment to the *)
(*                                              end of the line, one with  *)
(*                                              a colon and a blank in it  *)
(*                                                                         *)
(* Each lexeme is followed by blanks up to the next multiple of Slot       *)
(* columns, so that columns are known without counting characters.         *)
(* Tabs, blank lines, quoted scalars over several lines and block scalars  *)
(* are left out; comments make no tokens (preserve_comments is off).       *)
(*                                                                         *)
(* The scanner reads lexeme by lexeme and looks ahead: to the end of the   *)
(* line for a ":" that makes a key, to the lines below for the rest of a   *)
(* plain scalar.  Scanning stops at the first error.                       *)
(***************************************************************************)
EXTENDS Integers, SequencesExt

CONSTANTS
    Texts,    \* the texts of an instance
    Slot      \* columns from one lexeme of a line to the next

Comments == {"#", "#:"}
Lexemes == {"s", "q", "-", "?", ":", "[", "]", "{", "}", ",", "&", "*", "!", "---", "...", "%"}
           \cup Comments
Lines == [indent : Nat, lexemes : Seq(Lexemes)]

\* Markers stand at the start of their line, directives and document ends alone;
\* a comment ends its line.
WellMarked(l) ==
    /\ l.lexemes # <<>>
    /\ \A i \in DOMAIN l.lexemes :
           /\ l.lexemes[i] \in {"---", "...", "%"} => i = 1 /\ l.indent = 0
           /\ l.lexemes[i] \in {"...", "%"} => Len(l.lexemes) = 1
           /\ l.lexemes[i] \in Comments => i = Len(l.lexemes)

IsText(t) == t \in Seq(Lines) /\ \A i \in DOMAIN t : WellMarked(t[i])

ASSUME ScannerAssumption ==
    /\ Slot \in Nat /\ Slot > 3
    /\ \A t \in Texts : IsText(t)

VARIABLES
    text,                       \* self.input
    line, index,                \* self.position: the lexeme to read, 0 before the line
    tokens,                     \* self.tokens
    indent_stack,               \* self.indent_stack with self.indent_is_sequence
    compact_sequence_indents,   \* self.compact_sequence_indents
    current_indent,             \* self.current_indent
    flow_level,                 \* self.flow_level
    scanning                    \* "on", "done", or "error" for self.scanning_error

position == <<line, index>>
indents == <<indent_stack, compact_sequence_indents, current_indent>>
scanner == <<text, position, tokens, indents, flow_level, scanning>>

TokenTypes ==
    {"StreamStart", "StreamEnd", "YamlDirective", "DocumentStart", "DocumentEnd",
     "BlockSequenceStart", "BlockMappingStart", "BlockEnd", "BlockEntry",
     "FlowSequenceStart", "FlowSequenceEnd", "FlowMappingStart", "FlowMappingEnd", "FlowEntry",
     "Key", "Value", "Scalar", "Anchor", "Alias", "Tag"}

Token(type, l, column, end_line) ==
    [type |-> type, line |-> l, column |-> column, end_line |-> end_line]

Tokens == [type : TokenTypes, line : Nat, column : Nat, end_line : Nat]
Indentations == [indent : Nat, sequence : BOOLEAN]

BlockStarts == {"BlockSequenceStart", "BlockMappingStart"}
FlowStarts == {"FlowSequenceStart", "FlowMappingStart"}
FlowEnds == {"FlowSequenceEnd", "FlowMappingEnd"}
Boundary == {"StreamStart", "DocumentStart", "DocumentEnd"}

\* A stack that is popped down to the innermost of these places, to nothing if
\* there is none.
PopTo(stack, places) == SubSeq(stack, 1, Max({0} \cup places))

\* A new scanner, whatever its text.
ScannerInit ==
    /\ line = 1 /\ index = 0
    /\ tokens = <<Token("StreamStart", 1, 1, 1)>>
    /\ indent_stack = <<[indent |-> 0, sequence |-> FALSE]>>
    /\ compact_sequence_indents = <<>>
    /\ current_indent = 0
    /\ flow_level = 0
    /\ scanning = "on"
-----------------------------------------------------------------------------
\* Reading.

More == scanning = "on" /\ line <= Len(text)
Current == text[line].lexemes
Reads(set) == More /\ index > 0 /\ Current[index] \in set
Begins(set) == More /\ index = 0 /\ Current[1] \in set

ColumnAt(l, i) == text[l].indent + 1 + Slot * (i - 1)
Column == ColumnAt(line, index)

\* position.column == current_indent + 1: "the start of the line", or of the
\* content behind a dash.
AtContentStart == Column = current_indent + 1

InBlock == flow_level = 0

\* Mutant: the position stays on the line behind its last lexeme.
MoveBehind(l, i) ==
    IF i <= Len(text[l].lexemes) + 1 THEN line' = l /\ index' = i
    ELSE line' = l + 1 /\ index' = 0

\* The position becomes the i-th lexeme of line l, or the start of the next line.
MoveTo(l, i) ==
    IF i <= Len(text[l].lexemes) THEN line' = l /\ index' = i
    ELSE line' = l + 1 /\ index' = 0

Here(type) == Token(type, line, Column, line)
Emit(new) == tokens' = tokens \o new

\* Mutant: one block stays open.
BlockEndsButOne(n, at) == [i \in 1 .. n - 1 |-> Token("BlockEnd", at, 1, at)]

\* The ends of n blocks at the start of a line.
BlockEnds(n, at) == [i \in 1 .. n |-> Token("BlockEnd", at, 1, at)]

Stop == scanning' = "error"
Refuse == Stop /\ UNCHANGED <<text, position, tokens, indents, flow_level>>

\* The last token is one of these and ends on the current line.
Follows(types) == Last(tokens).type \in types /\ Last(tokens).end_line = line

-----------------------------------------------------------------------------
(***************************************************************************)
(* Looking back and ahead.                                                 *)
(***************************************************************************)

Count(types, from) == Cardinality({j \in from .. Len(tokens) : tokens[j].type \in types})

\* The innermost block start that no BlockEnd has closed yet, 0 for none.
InnermostBlock ==
    Max({0} \cup {i \in DOMAIN tokens :
                         /\ tokens[i].type \in BlockStarts
                         /\ Count({"BlockEnd"}, i + 1) = Count(BlockStarts, i + 1)})

\* check_active_mapping_at_level: it is a mapping, of this document.
ActiveMapping ==
    /\ InnermostBlock > 0
    /\ tokens[InnermostBlock].type = "BlockMappingStart"
    /\ Count(Boundary, InnermostBlock) = 0

\* The last token of the innermost block itself that is no property.
LastMeaningful ==
    LET own == {i \in InnermostBlock + 1 .. Len(tokens) :
                   /\ tokens[i].type \notin {"BlockEnd", "Anchor", "Tag"} \cup BlockStarts
                   /\ Count({"BlockEnd"}, i + 1) = Count(BlockStarts, i + 1)}
    IN  IF own = {} THEN "None" ELSE tokens[Max(own)].type

\* A deeper mapping needs a key that waits for it.
HasHost ==
    current_indent > Last(indent_stack).indent /\ Last(indent_stack).indent > 0
        => LastMeaningful \notin {"Scalar", "Alias"} \cup FlowEnds

\* most_recent_token_is_value_separator
AfterValue ==
    LET plain == {i \in DOMAIN tokens : tokens[i].type \notin {"Anchor", "Tag"}}
    IN  tokens[Max(plain)].type = "Value"

\* check_for_mapping_ahead: a ":" on the rest of the line, outside brackets.  It
\* does not stop at a comment.
MappingAhead ==
    LET brackets(set, i) == Cardinality({j \in index .. i : Current[j] \in set})
    IN  \E i \in index .. Len(Current) :
            Current[i] \in {":", "#:"} /\ brackets({"[", "{"}, i) <= brackets({"]", "}"}, i)

\* maybe_open_block_mapping_for_key: whether a new mapping starts here.
StartsMapping ==
    \/ current_indent > Last(indent_stack).indent
    \/ current_indent = Last(indent_stack).indent /\ ~ActiveMapping

\* ... and what it does where `wanted`, with the tokens that follow it.
OpenMapping(wanted, new) ==
    IF wanted /\ StartsMapping
    THEN /\ indent_stack' = Append(indent_stack, [indent |-> current_indent, sequence |-> FALSE])
         /\ Emit(<<Here("BlockMappingStart")>> \o new)
    ELSE UNCHANGED indent_stack /\ Emit(new)

NoHost(wanted) == wanted /\ StartsMapping /\ ~HasHost

-----------------------------------------------------------------------------
(***************************************************************************)
(* The start of a line: process_line up to its loop.                       *)
(***************************************************************************)

\* scan_yaml_directive, scan_document_start, scan_document_end.  A marker does
\* not touch the indentation.
Marker ==
    /\ Begins({"%", "---", "..."})
    /\ InBlock \/ Current[1] = "%"
    /\ Emit(<<Token(CASE Current[1] = "%" -> "YamlDirective"
                      [] Current[1] = "---" -> "DocumentStart"
                      [] OTHER -> "DocumentEnd", line, 1, line)>>)
    /\ MoveTo(line, 2)
    /\ UNCHANGED <<text, indents, flow_level, scanning>>

MarkerInFlow ==
    /\ Begins({"---", "..."})
    /\ ~InBlock
    /\ Refuse

Content == Lexemes \ {"%", "---", "..."}

\* handle_indentation inside brackets.
Underindented ==
    /\ Len(indent_stack) > 1 \/ compact_sequence_indents # <<>>
    /\ Current[1] \notin {"]", "}"}
    /\ text[line].indent <= Last(indent_stack).indent

FlowLine ==
    /\ Begins(Content) /\ ~InBlock
    /\ ~Underindented
    /\ index' = 1
    /\ UNCHANGED <<text, line, tokens, indents, flow_level, scanning>>

RefuseFlowLine ==
    /\ Begins(Content) /\ ~InBlock
    /\ Underindented
    /\ Refuse

\* A compact sequence goes on at deeper lines and at its own dashes.
Stays(seq_indent, indent, dash) == indent > seq_indent \/ (indent = seq_indent /\ dash)

\* handle_indentation: a line closes what it is not indented enough for.  So does
\* a line that is a comment, except that it ends no compact sequence.
BlockLine ==
    /\ Begins(Content) /\ InBlock
    /\ LET indent == text[line].indent
           content == Current[1] \notin Comments
           compact == PopTo(compact_sequence_indents,
                            {n \in DOMAIN compact_sequence_indents : content =>
                                Stays(compact_sequence_indents[n], indent, Current[1] = "-")})
           open == PopTo(indent_stack,
                         {n \in DOMAIN indent_stack : indent_stack[n].indent \in 0 .. indent})
           closed == Len(compact_sequence_indents) - Len(compact) + Len(indent_stack) - Len(open)
       IN  /\ compact_sequence_indents' = compact
           /\ indent_stack' = open
           /\ current_indent' = indent
           /\ Emit(BlockEnds(closed, line))
           /\ IF /\ content
                 /\ Last(indent_stack).indent > Last(open).indent
                 /\ indent # Last(open).indent
              THEN Stop /\ UNCHANGED index
              ELSE index' = 1 /\ UNCHANGED scanning
    /\ UNCHANGED <<text, line, flow_level>>

-----------------------------------------------------------------------------
(***************************************************************************)
(* The loop of process_line, one action per kind of lexeme.                *)
(***************************************************************************)

KeyAhead == InBlock /\ AtContentStart /\ MappingAhead

Bracket(l) == CASE l = "[" -> "FlowSequenceStart" [] l = "]" -> "FlowSequenceEnd"
                [] l = "{" -> "FlowMappingStart" [] l = "}" -> "FlowMappingEnd"

OpenFlow ==
    /\ Reads({"[", "{"})
    /\ ~NoHost(KeyAhead)
    /\ OpenMapping(KeyAhead, <<Here(Bracket(Current[index]))>>)
    /\ flow_level' = flow_level + 1
    /\ MoveTo(line, index + 1)
    /\ UNCHANGED <<text, compact_sequence_indents, current_indent, scanning>>

\* Mutant: a closing bracket too many counts as none.
CloseFlowSaturating ==
    /\ Reads({"]", "}"})
    /\ Emit(<<Here(Bracket(Current[index]))>>)
    /\ flow_level' = IF InBlock THEN 0 ELSE flow_level - 1
    /\ MoveTo(line, index + 1)
    /\ UNCHANGED <<text, indents, scanning>>

CloseFlow ==
    /\ Reads({"]", "}"})
    /\ ~InBlock
    /\ Emit(<<Here(Bracket(Current[index]))>>)
    /\ flow_level' = flow_level - 1
    /\ MoveTo(line, index + 1)
    /\ UNCHANGED <<text, indents, scanning>>

Comma ==
    /\ Reads({","})
    /\ ~InBlock
    /\ Emit(<<Here("FlowEntry")>>)
    /\ MoveTo(line, index + 1)
    /\ UNCHANGED <<text, indents, flow_level, scanning>>

\* A flow collection is the key before a block ":", opened on another line
\* and without a "?" before it on that line.
MultilineFlowKey ==
    LET opens(i) == /\ tokens[i].type \in FlowStarts
                    /\ Count(FlowEnds, i) = Count(FlowStarts, i)
        start == Max({i \in DOMAIN tokens : opens(i)})
    IN  /\ InBlock
        /\ Last(tokens).type \in FlowEnds
        /\ tokens[start].line # Last(tokens).end_line
        /\ ~\E i \in 1 .. start - 1 : tokens[i].type = "Key" /\ tokens[i].line = tokens[start].line

Colon ==
    /\ Reads({":"})
    /\ ~MultilineFlowKey
    /\ Emit(<<Here("Value")>>)
    /\ MoveTo(line, index + 1)
    /\ UNCHANGED <<text, indents, flow_level, scanning>>

QuestionMark ==
    /\ Reads({"?"})
    /\ LET opens == InBlock /\ AtContentStart
       IN  ~NoHost(opens) /\ OpenMapping(opens, <<Here("Key")>>)
    /\ MoveTo(line, index + 1)
    /\ UNCHANGED <<text, compact_sequence_indents, current_indent, flow_level, scanning>>

\* "key : - s" on one line.
AfterImplicitKey ==
    LET before == {i \in 1 .. Len(tokens) - 1 : tokens[i].type \notin {"Anchor", "Tag"}}
        key == tokens[Max(before)]
    IN  Follows({"Value"}) /\ key.type = "Scalar" /\ key.end_line = Last(tokens).line

DashMisplaced == Follows(FlowEnds \cup {"Anchor", "Tag"}) \/ AfterImplicitKey

\* A dash goes on with a sequence, or starts one that is deeper than what is
\* open, or a compact one at the indentation of its mapping.  A dash right
\* behind it starts one more.
Dash ==
    /\ Reads({"-"}) /\ InBlock
    /\ ~DashMisplaced
    /\ LET dash_indent == Column - 1
           top == Last(indent_stack)
           onCompact(n) == compact_sequence_indents # <<>> /\ Last(compact_sequence_indents) = n
           deeper == ~onCompact(dash_indent) /\ current_indent > top.indent
           seq_indent == Max({dash_indent, current_indent})
           compact == /\ ~onCompact(dash_indent)
                      /\ current_indent = top.indent /\ ~top.sequence
                      /\ ~onCompact(seq_indent)
           behind == index < Len(Current)
           nested == behind /\ Current[index + 1] = "-"
           next == ColumnAt(line, index + 1)
       IN  /\ indent_stack' = indent_stack
                  \o (IF deeper THEN <<[indent |-> current_indent, sequence |-> TRUE]>> ELSE <<>>)
                  \o (IF nested THEN <<[indent |-> next - 1, sequence |-> TRUE]>> ELSE <<>>)
           /\ compact_sequence_indents' =
                  IF compact THEN Append(compact_sequence_indents, seq_indent)
                  ELSE compact_sequence_indents
           /\ current_indent' = IF behind /\ ~nested THEN next - 1 ELSE current_indent
           /\ Emit((IF deeper \/ compact THEN <<Here("BlockSequenceStart")>> ELSE <<>>)
                   \o <<Here("BlockEntry")>>
                   \o (IF nested THEN <<Token("BlockSequenceStart", line, next, line)>> ELSE <<>>))
    /\ MoveTo(line, index + 1)
    /\ UNCHANGED <<text, flow_level, scanning>>

\* A property at the indentation of the mapping around it, where a value is due.
PropertyMisplaced ==
    /\ InBlock /\ AtContentStart /\ ~MappingAhead
    /\ Len(indent_stack) > 1
    /\ current_indent = indent_stack[Len(indent_stack) - 1].indent
    /\ AfterValue

NameToken(l) == CASE l = "&" -> "Anchor" [] l = "!" -> "Tag" [] l = "*" -> "Alias"

Name ==
    /\ Reads({"&", "!", "*"})
    /\ Current[index] # "*" => ~PropertyMisplaced
    /\ ~NoHost(KeyAhead)
    /\ OpenMapping(KeyAhead, <<Here(NameToken(Current[index]))>>)
    /\ MoveTo(line, index + 1)
    /\ UNCHANGED <<text, compact_sequence_indents, current_indent, flow_level, scanning>>

\* A comment lasts until the next line.
Comment ==
    /\ Reads(Comments)
    /\ MoveTo(line, index + 1)
    /\ UNCHANGED <<text, tokens, indents, flow_level, scanning>>

\* What may stand behind a closing quote.
QuoteMisplaced ==
    /\ index < Len(Current)
    /\ Current[index + 1] \notin {",", ":", "]", "}"} \cup Comments

\* scan_quoted_string: everywhere the start of a key when a ":" follows.
Quoted ==
    /\ Reads({"q"})
    /\ ~QuoteMisplaced
    /\ LET wanted == InBlock /\ MappingAhead
       IN  ~NoHost(wanted) /\ OpenMapping(wanted, <<Here("Scalar")>>)
    /\ MoveTo(line, index + 1)
    /\ UNCHANGED <<text, compact_sequence_indents, current_indent, flow_level, scanning>>

-----------------------------------------------------------------------------
\* Plain scalars.  In block context everything up to a ":" or a comment belongs
\* to the scalar, inside brackets everything up to a flow indicator.
Ends(l) == l \in {":"} \cup Comments \/ (~InBlock /\ l \in {",", "[", "]", "{", "}"})

\* Whether line l goes on with the scalar that starts in column `start`, given
\* the indentations at its start.
Continues(l, opens) ==
    LET first == text[l].lexemes[1]
        parent == Max({IF opens THEN current_indent ELSE Last(indent_stack).indent}
                      \cup {compact_sequence_indents[i] : i \in {Len(compact_sequence_indents)} \ {0}})
        column == text[l].indent + 1
    IN  /\ first \notin {"---", "..."} \cup Comments
        /\ IF InBlock THEN column >= parent + 2 \/ column >= Column
           ELSE first \notin {",", "]", "}"}

\* Where the scalar at the current lexeme ends: the line, and the lexeme
\* behind it on that line.
ScalarEnd(opens) ==
    LET from(l) == IF l = line THEN index + 1 ELSE 1
        stop(l) ==
            LET stops == {i \in from(l) .. Len(text[l].lexemes) : Ends(text[l].lexemes[i])}
            IN  IF stops = {} THEN Len(text[l].lexemes) + 1 ELSE Min(stops)
        last == CHOOSE l \in line .. Len(text) :
            /\ \A k \in line .. l - 1 : stop(k) > Len(text[k].lexemes) /\ Continues(k + 1, opens)
            /\ stop(l) <= Len(text[l].lexemes) \/ l = Len(text) \/ ~Continues(l + 1, opens)
    IN  [line |-> last, index |-> stop(last)]

\* A scalar over several lines is no implicit key.
MultilineKey(end) ==
    /\ InBlock
    /\ end.line > line
    /\ end.index <= Len(text[end.line].lexemes) /\ text[end.line].lexemes[end.index] = ":"

PlainScalar ==
    /\ Reads({"s"})
    /\ ~(InBlock /\ Follows(FlowEnds))
    /\ LET wanted == InBlock /\ MappingAhead
           end == ScalarEnd(wanted /\ StartsMapping)
       IN  /\ ~NoHost(wanted)
           /\ IF MultilineKey(end)
              THEN OpenMapping(wanted, <<>>) /\ Stop /\ UNCHANGED position
              ELSE /\ OpenMapping(wanted, <<Token("Scalar", line, Column, end.line)>>)
                   /\ MoveTo(end.line, end.index)
                   /\ UNCHANGED scanning
    /\ UNCHANGED <<text, compact_sequence_indents, current_indent, flow_level>>

-----------------------------------------------------------------------------
\* The errors of the loop.  Before it finds a quote misplaced the code may have pushed the
\* start of a block mapping: left out, for no caller reads on behind an error here.
RefuseLexeme ==
    /\ \/ Reads({"]", "}", ","}) /\ InBlock
       \/ Reads({"[", "{", "&", "*", "!"}) /\ NoHost(KeyAhead)
       \/ Reads({"&", "!"}) /\ PropertyMisplaced
       \/ Reads({":"}) /\ MultilineFlowKey
       \/ Reads({"?"}) /\ NoHost(InBlock /\ AtContentStart)
       \/ Reads({"-"}) /\ (~InBlock \/ DashMisplaced)
       \/ Reads({"q"}) /\ (QuoteMisplaced \/ NoHost(InBlock /\ MappingAhead))
       \/ Reads({"s"}) /\ InBlock /\ (Follows(FlowEnds) \/ NoHost(MappingAhead))
    /\ Refuse

\* The end of scan_all_tokens: whatever is open ends here.
EndOfInput ==
    /\ scanning = "on" /\ line > Len(text)
    /\ LET open == Len(compact_sequence_indents) + Len(indent_stack) - 1
           at == Len(text)
       IN  Emit(BlockEnds(open, at) \o <<Token("StreamEnd", at, 1, at)>>)
    /\ indent_stack' = <<indent_stack[1]>>
    /\ compact_sequence_indents' = <<>>
    /\ scanning' = "done"
    /\ UNCHANGED <<text, position, current_indent, flow_level>>

ScannerNext ==
    \/ Marker \/ MarkerInFlow \/ FlowLine \/ RefuseFlowLine \/ BlockLine
    \/ OpenFlow \/ CloseFlow \/ Comma \/ Colon \/ QuestionMark \/ Dash \/ Name \/ Comment
    \/ Quoted \/ PlainScalar
    \/ RefuseLexeme \/ EndOfInput
ScannerSpec == text \in Texts /\ ScannerInit /\ [][ScannerNext]_scanner

-----------------------------------------------------------------------------
(***************************************************************************)
(* Properties.                                                             *)
(***************************************************************************)

\* Places in the text, and their order.
Spot(x) == <<x.line, x.column>>
Before(a, b) == a[1] < b[1] \/ (a[1] = b[1] /\ a[2] < b[2])

\* The types of the scanner's fields; the position is in the text, and the
\* indentation 0 of a document is below all others.
ScannerTypeOK ==
    /\ IsText(text)
    /\ line \in 1 .. Len(text) + 1
    /\ index \in Nat
    /\ index > 0 => line <= Len(text) /\ index <= Len(text[line].lexemes)
    /\ tokens \in Seq(Tokens) /\ tokens # <<>>
    /\ indent_stack \in Seq(Indentations) /\ indent_stack # <<>>
    /\ indent_stack[1].indent = 0
    /\ compact_sequence_indents \in Seq(Nat)
    /\ current_indent \in Nat
    /\ flow_level \in Nat
    /\ scanning \in {"on", "done", "error"}

\* Every indentation the scanner remembers, on either stack, stands for one
\* block it has started and not ended, whatever closed in between: a text that
\* scans to its end has as many BlockEnd tokens as block starts.
IndentsAccounted ==
    Count(BlockStarts, 1) - Count({"BlockEnd"}, 1)
        = Len(indent_stack) - 1 + Len(compact_sequence_indents)

\* Brackets: no closing one is read without an opening one before it, flow_level is what
\* is open, and no document begins or ends inside (which, is for the parser to tell).
BracketsAccounted ==
    LET open(n) == Cardinality({i \in 1 .. n : tokens[i].type \in FlowStarts})
                       - Cardinality({i \in 1 .. n : tokens[i].type \in FlowEnds})
    IN  /\ flow_level = open(Len(tokens))
        /\ \A n \in DOMAIN tokens :
               /\ open(n) >= 0
               /\ tokens[n].type \in Boundary => open(n) = 0
=============================================================================
