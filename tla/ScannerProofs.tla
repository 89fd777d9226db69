---------------------------- MODULE ScannerProofs ----------------------------
(***************************************************************************)
(* What holds of the scanner for every text: its fields keep their types,  *)
(* and its two stacks account for the blocks it has started, and its tokens are *)
(* in order.                                                               *)
(***************************************************************************)
EXTENDS Scanner, CollectionProofs

\* Starts less ends of blocks.
Balance(s) == CountIn(s, BlockStarts) - CountIn(s, {"BlockEnd"})

\* The balance of a token sequence is an integer.
LEMMA BalanceTyped == ASSUME NEW s \in Seq(Tokens) PROVE Balance(s) \in Int
<1>1. CountIn(s, BlockStarts) \in Nat /\ CountIn(s, {"BlockEnd"}) \in Nat
  BY CountTyped
<1> QED BY <1>1 DEF Balance

\* Balances add up under concatenation.
LEMMA BalanceConcat ==
    ASSUME NEW s \in Seq(Tokens), NEW t \in Seq(Tokens)
    PROVE  /\ s \o t \in Seq(Tokens)
           /\ Len(s \o t) = Len(s) + Len(t)
           /\ Balance(s \o t) = Balance(s) + Balance(t)
<1>1. /\ CountIn(s, BlockStarts) \in Nat /\ CountIn(s, {"BlockEnd"}) \in Nat
      /\ CountIn(t, BlockStarts) \in Nat /\ CountIn(t, {"BlockEnd"}) \in Nat
  BY CountTyped
<1>2. /\ CountIn(s \o t, BlockStarts) = CountIn(s, BlockStarts) + CountIn(t, BlockStarts)
      /\ CountIn(s \o t, {"BlockEnd"}) = CountIn(s, {"BlockEnd"}) + CountIn(t, {"BlockEnd"})
  BY CountConcat
<1>3. s \o t \in Seq(Tokens) /\ Len(s \o t) = Len(s) + Len(t)
  BY ConcatProperties
<1> QED BY <1>1, <1>2, <1>3 DEF Balance

\* Token makes a token of its type.
LEMMA TokenTyped ==
    ASSUME NEW type \in TokenTypes, NEW l \in Nat, NEW c \in Nat, NEW e \in Nat
    PROVE  Token(type, l, c, e) \in Tokens /\ Token(type, l, c, e).type = type
BY DEF Token, Tokens

\* The balance of one token: a start counts 1, BlockEnd -1, any other token 0.
LEMMA BalanceSingle ==
    ASSUME NEW x \in Tokens
    PROVE  /\ <<x>> \in Seq(Tokens) /\ Len(<<x>>) = 1
           /\ x.type \in BlockStarts => Balance(<<x>>) = 1
           /\ x.type = "BlockEnd" => Balance(<<x>>) = 0 - 1
           /\ x.type \notin BlockStarts \cup {"BlockEnd"} => Balance(<<x>>) = 0
<1>1. /\ CountIn(<<x>>, BlockStarts) = IF x.type \in BlockStarts THEN 1 ELSE 0
      /\ CountIn(<<x>>, {"BlockEnd"}) = IF x.type \in {"BlockEnd"} THEN 1 ELSE 0
  BY CountSingle
<1> QED BY <1>1 DEF Balance, BlockStarts

\* The balance of no tokens is 0.
LEMMA BalanceEmpty == <<>> \in Seq(Tokens) /\ Len(<<>>) = 0 /\ Balance(<<>>) = 0
<1>1. <<>> \in Seq(Tokens) /\ Len(<<>>) = 0
  OBVIOUS
<1>2. CountIn(<<>>, BlockStarts) = 0 /\ CountIn(<<>>, {"BlockEnd"}) = 0
  <2>1. \A types : \A j \in 1 .. Len(<<>>) : <<>>[j].type \notin types
    BY <1>1
  <2> QED BY <1>1, <2>1, CountNone
<1> QED BY <1>1, <1>2 DEF Balance

\* n BlockEnd tokens have the balance -n.
LEMMA BalanceEnds ==
    ASSUME NEW n \in Nat, NEW at \in Nat
    PROVE  /\ BlockEnds(n, at) \in Seq(Tokens)
           /\ Len(BlockEnds(n, at)) = n
           /\ Balance(BlockEnds(n, at)) = 0 - n
<1> DEFINE e == Token("BlockEnd", at, 1, at)
           s == BlockEnds(n, at)
<1>1. e \in Tokens /\ e.type = "BlockEnd"
  BY TokenTyped DEF TokenTypes
<1>2. s = [i \in 1 .. n |-> e]
  BY DEF BlockEnds
<1>3. s \in Seq(Tokens) /\ Len(s) = n
  BY <1>1, <1>2
<1>4. \A j \in 1 .. Len(s) : s[j].type = "BlockEnd"
  BY <1>1, <1>2, <1>3
<1>5. CountIn(s, {"BlockEnd"}) = n
  BY <1>3, <1>4, CountAll
<1>6. CountIn(s, BlockStarts) = 0
  <2>1. \A j \in 1 .. Len(s) : s[j].type \notin BlockStarts
    BY <1>4 DEF BlockStarts
  <2> QED BY <1>3, <2>1, CountNone
<1> QED BY <1>3, <1>5, <1>6 DEF Balance

-----------------------------------------------------------------------------
(***************************************************************************)
(* The three parts of the scanner's invariant: a position is in the text,  *)
(* the stacks have their shape, and a step adds tokens that start and end  *)
(* as many blocks as the stacks grow and shrink by.                        *)
(***************************************************************************)
InText(l, i) ==
    /\ l \in 1 .. Len(text) + 1
    /\ i \in Nat
    /\ i > 0 => l <= Len(text) /\ i <= Len(text[l].lexemes)

StacksOK ==
    /\ indent_stack \in Seq(Indentations) /\ indent_stack # <<>>
    /\ indent_stack[1].indent = 0
    /\ compact_sequence_indents \in Seq(Nat)
    /\ current_indent \in Nat

Adds(new) ==
    /\ new \in Seq(Tokens)
    /\ Emit(new)
    /\ Len(indent_stack') + Len(compact_sequence_indents')
           = Len(indent_stack) + Len(compact_sequence_indents) + Balance(new)

\* What every step of the scanner does.
Keeps ==
    /\ text' = text
    /\ InText(line', index')
    /\ StacksOK'
    /\ \E new : Adds(new)
    /\ flow_level' \in Nat
    /\ scanning' \in {"on", "done", "error"}

\* A step that Keeps leaves the types, and the account of the indentations.
LEMMA KeepsInvariant ==
    ASSUME ScannerTypeOK, Keeps
    PROVE  ScannerTypeOK' /\ (IndentsAccounted => IndentsAccounted')
<1>1. PICK new : Adds(new)
  BY DEF Keeps
<1>2. /\ tokens' = tokens \o new
      /\ tokens' \in Seq(Tokens)
      /\ Len(tokens') = Len(tokens) + Len(new)
      /\ Balance(tokens') = Balance(tokens) + Balance(new)
  BY <1>1, BalanceConcat DEF ScannerTypeOK, Adds, Emit
<1>3. tokens' # <<>>
  <2>1. Len(tokens) \in Nat \ {0} /\ Len(new) \in Nat
    BY <1>1 DEF ScannerTypeOK, Adds
  <2> QED BY <1>2, <2>1
<1>4. ScannerTypeOK'
  BY <1>2, <1>3 DEF ScannerTypeOK, Keeps, InText, StacksOK
<1>5. ASSUME IndentsAccounted PROVE IndentsAccounted'
  <2>1. /\ Balance(tokens) \in Int /\ Balance(new) \in Int
    BY <1>1, BalanceTyped DEF ScannerTypeOK, Adds
  <2>2. /\ Len(indent_stack) \in Nat /\ Len(compact_sequence_indents) \in Nat
        /\ Len(indent_stack') \in Nat /\ Len(compact_sequence_indents') \in Nat
    BY DEF ScannerTypeOK, Keeps, StacksOK
  <2>3. Balance(tokens) = Len(indent_stack) - 1 + Len(compact_sequence_indents)
    BY <1>5 DEF IndentsAccounted, Balance, CountIn, Count
  <2>4. Balance(tokens') = Len(indent_stack') - 1 + Len(compact_sequence_indents')
    <3>1. Len(indent_stack') + Len(compact_sequence_indents')
              = Len(indent_stack) + Len(compact_sequence_indents) + Balance(new)
      BY <1>1 DEF Adds
    <3> QED BY <1>2, <2>1, <2>2, <2>3, <3>1
  <2> QED BY <2>4 DEF IndentsAccounted, Balance, CountIn, Count
<1> QED BY <1>4, <1>5

-----------------------------------------------------------------------------
(***************************************************************************)
(* The parts, for the helpers the actions are made of.                     *)
(***************************************************************************)
LEMMA LineTyped ==
    ASSUME ScannerTypeOK, NEW l \in 1 .. Len(text)
    PROVE  /\ text[l].indent \in Nat
           /\ text[l].lexemes \in Seq(Lexemes)
           /\ Len(text[l].lexemes) \in Nat \ {0}
<1>1. text[l] \in Lines /\ WellMarked(text[l])
  BY DEF ScannerTypeOK, IsText
<1>2. text[l].indent \in Nat /\ text[l].lexemes \in Seq(Lexemes) /\ text[l].lexemes # <<>>
  BY <1>1 DEF Lines, WellMarked
<1> QED BY <1>2

\* A move within the lines of the text leaves a position in the text.
LEMMA MovesInText ==
    ASSUME ScannerTypeOK, NEW l \in 1 .. Len(text), NEW i \in Nat \ {0}, MoveTo(l, i)
    PROVE  InText(line', index')
BY LineTyped DEF MoveTo, InText, ScannerTypeOK

\* A position that does not move stays in the text.
LEMMA StaysInText ==
    ASSUME ScannerTypeOK, UNCHANGED position
    PROVE  InText(line', index')
BY DEF ScannerTypeOK, InText, position

\* At a lexeme, the position and the token Here makes are typed.
LEMMA HereTyped ==
    ASSUME ScannerTypeOK, More, index > 0, NEW type \in TokenTypes
    PROVE  /\ line \in 1 .. Len(text) /\ index \in 1 .. Len(Current)
           /\ Column \in Nat \ {0} /\ ColumnAt(line, index + 1) \in Nat \ {0}
           /\ Here(type) \in Tokens /\ Here(type).type = type
<1>1. line \in 1 .. Len(text) /\ index \in 1 .. Len(Current)
  BY DEF ScannerTypeOK, More, Current
<1>2. \A i \in Nat \ {0} : ColumnAt(line, i) \in Nat \ {0}
  <2> SUFFICES ASSUME NEW i \in Nat \ {0} PROVE ColumnAt(line, i) \in Nat \ {0}
    OBVIOUS
  <2>1. Slot * (i - 1) \in Nat
    BY ScannerAssumption
  <2> QED BY <1>1, <2>1, LineTyped DEF ColumnAt
<1>3. Column \in Nat \ {0} /\ ColumnAt(line, index + 1) \in Nat \ {0}
  <2>1. index \in Nat \ {0} /\ index + 1 \in Nat \ {0}
    BY <1>1
  <2> QED BY <1>2, <2>1 DEF Column
<1>4. Here(type) \in Tokens /\ Here(type).type = type
  <2>1. line \in Nat /\ Column \in Nat BY <1>1, <1>3
  <2> QED BY <2>1, TokenTyped DEF Here
<1> QED BY <1>1, <1>3, <1>4

\* A step that leaves tokens and indentations adds no tokens.
LEMMA AddsNothing ==
    ASSUME ScannerTypeOK, UNCHANGED <<tokens, indents>>
    PROVE  StacksOK' /\ Adds(<<>>)
<1>1. tokens \o <<>> = tokens
  BY DEF ScannerTypeOK
<1>2. Len(indent_stack) \in Nat /\ Len(compact_sequence_indents) \in Nat
  BY DEF ScannerTypeOK
<1> QED BY <1>1, <1>2, BalanceEmpty DEF ScannerTypeOK, StacksOK, Adds, Emit, indents

\* A step that emits one token that opens and closes no block keeps the account.
LEMMA AddsOne ==
    ASSUME ScannerTypeOK, NEW x \in Tokens, x.type \notin BlockStarts \cup {"BlockEnd"},
           Emit(<<x>>), UNCHANGED indents
    PROVE  StacksOK' /\ Adds(<<x>>)
<1>1. Len(indent_stack) \in Nat /\ Len(compact_sequence_indents) \in Nat
  BY DEF ScannerTypeOK
<1> QED BY <1>1, BalanceSingle DEF ScannerTypeOK, StacksOK, Adds, indents

\* An indentation pushed makes the stack longer by one, and typed.
LEMMA PushTyped ==
    ASSUME ScannerTypeOK, NEW e \in Indentations,
           indent_stack' = Append(indent_stack, e),
           UNCHANGED <<compact_sequence_indents, current_indent>>
    PROVE  /\ StacksOK'
           /\ Len(indent_stack') = Len(indent_stack) + 1
BY DEF ScannerTypeOK, StacksOK

\* Opening a mapping at an indentation pushes as much as it emits.
LEMMA OpenMappingKeeps ==
    ASSUME ScannerTypeOK, More, index > 0, NEW wanted,
           NEW new \in Seq(Tokens), Balance(new) = 0,
           OpenMapping(wanted, new), UNCHANGED <<compact_sequence_indents, current_indent>>
    PROVE  StacksOK' /\ \E more : Adds(more)
<1>1. Len(indent_stack) \in Nat /\ Len(compact_sequence_indents) \in Nat
  BY DEF ScannerTypeOK
<1>2. CASE wanted /\ StartsMapping
  <2> DEFINE start == <<Here("BlockMappingStart")>>
             e == [indent |-> current_indent, sequence |-> FALSE]
  <2>1. indent_stack' = Append(indent_stack, e) /\ Emit(start \o new)
    BY <1>2 DEF OpenMapping
  <2>2. e \in Indentations
    BY DEF ScannerTypeOK, Indentations
  <2>3. StacksOK' /\ Len(indent_stack') = Len(indent_stack) + 1
    <3> HIDE DEF e
    <3> QED BY <2>1, <2>2, PushTyped
  <2>4. start \in Seq(Tokens) /\ Balance(start) = 1
    BY HereTyped, BalanceSingle DEF TokenTypes, BlockStarts
  <2>5. start \o new \in Seq(Tokens) /\ Balance(start \o new) = 1
    <3> HIDE DEF start
    <3> QED BY <2>4, BalanceConcat
  <2>6. Adds(start \o new)
    BY <1>1, <2>1, <2>3, <2>5 DEF Adds
  <2> QED BY <2>3, <2>6
<1>3. CASE ~(wanted /\ StartsMapping)
  <2>1. UNCHANGED indents /\ Emit(new)
    BY <1>3 DEF OpenMapping, indents
  <2>2. StacksOK'
    BY <2>1 DEF ScannerTypeOK, StacksOK, indents
  <2>3. Adds(new)
    BY <1>1, <2>1 DEF Adds, indents
  <2> QED BY <2>2, <2>3
<1> QED BY <1>2, <1>3

\* PopTo leaves a prefix of the stack.
LEMMA PopToTyped ==
    ASSUME NEW S, NEW stack \in Seq(S), NEW places \in SUBSET DOMAIN stack
    PROVE  /\ PopTo(stack, places) \in Seq(S)
           /\ Len(PopTo(stack, places)) \in 0 .. Len(stack)
           /\ \A n \in places : n <= Len(PopTo(stack, places))
           /\ \A i \in 1 .. Len(PopTo(stack, places)) : PopTo(stack, places)[i] = stack[i]
<1> DEFINE m == Max({0} \cup places)
<1>1. Len(stack) \in Nat /\ DOMAIN stack = 1 .. Len(stack)
  OBVIOUS
<1>2. m \in {0} \cup places /\ \A n \in places : n <= m
  <2> DEFINE P == {0} \cup places
  <2>1. P \in SUBSET Nat /\ P # {} /\ \A n \in P : n <= Len(stack)
    BY <1>1
  <2> HIDE DEF P
  <2>2. Max(P) \in P /\ \A n \in P : n <= Max(P)
    BY <1>1, <2>1, MaxBounds
  <2> QED BY <2>2 DEF P
<1>3. m \in 0 .. Len(stack)
  BY <1>1, <1>2
<1> HIDE DEF m
<1>4. /\ SubSeq(stack, 1, m) \in Seq(S)
      /\ Len(SubSeq(stack, 1, m)) = m
      /\ \A i \in 1 .. m : SubSeq(stack, 1, m)[i] = stack[i]
  BY <1>1, <1>3
<1> QED BY <1>2, <1>3, <1>4 DEF PopTo, m

-----------------------------------------------------------------------------
(***************************************************************************)
(* Each action does what every step does.                                  *)
(***************************************************************************)
LEMMA RefuseKeeps ==
    ASSUME ScannerTypeOK, Refuse
    PROVE  Keeps
<1>1. UNCHANGED <<text, position, tokens, indents, flow_level>> /\ scanning' = "error"
  BY DEF Refuse, Stop
<1>2. StacksOK' /\ Adds(<<>>)
  BY <1>1, AddsNothing
<1>3. InText(line', index')
  BY <1>1, StaysInText
<1> QED BY <1>1, <1>2, <1>3 DEF Keeps, ScannerTypeOK

\* A document marker keeps the account: it closes every open block.
LEMMA MarkerKeeps ==
    ASSUME ScannerTypeOK, Marker
    PROVE  Keeps
<1>1. line \in 1 .. Len(text)
  BY DEF Marker, Begins, More, ScannerTypeOK
<1>2. InText(line', index')
  BY <1>1, MovesInText DEF Marker
<1> DEFINE type == CASE Current[1] = "%" -> "YamlDirective"
                     [] Current[1] = "---" -> "DocumentStart"
                     [] OTHER -> "DocumentEnd"
           x == Token(type, line, 1, line)
<1>3. type \in TokenTypes /\ type \notin BlockStarts \cup {"BlockEnd"}
  BY DEF TokenTypes, BlockStarts
<1>4. x \in Tokens /\ x.type \notin BlockStarts \cup {"BlockEnd"}
  BY <1>1, <1>3, TokenTyped
<1>5. Emit(<<x>>) /\ UNCHANGED <<text, indents, flow_level, scanning>>
  BY DEF Marker
<1>6. StacksOK' /\ Adds(<<x>>)
  <2> HIDE DEF x
  <2> QED BY <1>4, <1>5, AddsOne
<1> QED BY <1>2, <1>5, <1>6 DEF Keeps, ScannerTypeOK

\* Starting a line inside brackets keeps the account.
LEMMA FlowLineKeeps ==
    ASSUME ScannerTypeOK, FlowLine
    PROVE  Keeps
<1>1. line \in 1 .. Len(text)
  BY DEF FlowLine, Begins, More, ScannerTypeOK
<1>2. /\ UNCHANGED <<text, line, tokens, indents, flow_level, scanning>>
      /\ index' = 1
  BY DEF FlowLine
<1>3. InText(line', index')
  BY <1>1, <1>2, LineTyped DEF InText
<1>4. StacksOK' /\ Adds(<<>>)
  BY <1>2, AddsNothing
<1> QED BY <1>2, <1>3, <1>4 DEF Keeps, ScannerTypeOK

\* Starting a line pops as many indentations as it emits BlockEnd tokens.
LEMMA BlockLineKeeps ==
    ASSUME ScannerTypeOK, BlockLine
    PROVE  Keeps /\ \E n \in Nat : Emit(BlockEnds(n, line))
<1> DEFINE indent == text[line].indent
           content == Current[1] \notin Comments
           kept == {n \in DOMAIN compact_sequence_indents : content =>
                        Stays(compact_sequence_indents[n], indent, Current[1] = "-")}
           around == {n \in DOMAIN indent_stack : indent_stack[n].indent \in 0 .. indent}
           compact == PopTo(compact_sequence_indents, kept)
           open == PopTo(indent_stack, around)
           closed == Len(compact_sequence_indents) - Len(compact) + Len(indent_stack) - Len(open)
<1>1. /\ line \in 1 .. Len(text) /\ index = 0 /\ indent \in Nat
      /\ Len(text[line].lexemes) \in Nat \ {0}
  BY LineTyped DEF BlockLine, Begins, More, ScannerTypeOK
<1>2. /\ compact_sequence_indents' = compact
      /\ indent_stack' = open
      /\ current_indent' = indent
      /\ Emit(BlockEnds(closed, line))
      /\ index' \in {index, 1}
      /\ scanning' \in {"error", scanning}
      /\ UNCHANGED <<text, line, flow_level>>
  BY DEF BlockLine, Stop
<1>3. /\ compact \in Seq(Nat)
      /\ Len(compact) \in 0 .. Len(compact_sequence_indents)
  <2>1. kept \in SUBSET DOMAIN compact_sequence_indents /\ compact_sequence_indents \in Seq(Nat)
    BY DEF ScannerTypeOK
  <2> HIDE DEF kept
  <2> QED BY <2>1, PopToTyped
<1>4. /\ open \in Seq(Indentations) /\ open # <<>> /\ open[1].indent = 0
      /\ Len(open) \in 0 .. Len(indent_stack)
  <2>1. around \in SUBSET DOMAIN indent_stack /\ indent_stack \in Seq(Indentations)
    BY DEF ScannerTypeOK
  <2>2. 1 \in around
    BY <1>1 DEF ScannerTypeOK
  <2> HIDE DEF around
  <2>3. /\ open \in Seq(Indentations)
        /\ Len(open) \in 0 .. Len(indent_stack)
        /\ 1 <= Len(open)
        /\ \A i \in 1 .. Len(open) : open[i] = indent_stack[i]
    BY <2>1, <2>2, PopToTyped
  <2> HIDE DEF open
  <2> QED BY <2>3 DEF ScannerTypeOK
<1> HIDE DEF compact, open
<1>5. /\ Len(compact) \in Nat /\ Len(compact_sequence_indents) \in Nat
      /\ Len(open) \in Nat /\ Len(indent_stack) \in Nat
  BY <1>3, <1>4 DEF ScannerTypeOK
<1>6. closed \in Nat
  BY <1>3, <1>4, <1>5
<1>7. InText(line', index')
  BY <1>1, <1>2 DEF InText
<1>8. StacksOK'
  BY <1>1, <1>2, <1>3, <1>4 DEF StacksOK
<1>9. Adds(BlockEnds(closed, line))
  <2>1. /\ BlockEnds(closed, line) \in Seq(Tokens)
        /\ Balance(BlockEnds(closed, line)) = 0 - closed
    <3> HIDE DEF closed
    <3>1. line \in Nat BY <1>1
    <3> QED BY <1>6, <3>1, BalanceEnds
  <2> QED BY <1>2, <1>5, <2>1 DEF Adds
<1>10. \E n \in Nat : Emit(BlockEnds(n, line))
  <2> HIDE DEF closed
  <2> QED BY <1>2, <1>6
<1> QED BY <1>2, <1>7, <1>8, <1>9, <1>10 DEF Keeps, ScannerTypeOK

\* A token that is neither the start nor the end of a block.
LEMMA PlainToken ==
    ASSUME ScannerTypeOK, More, index > 0,
           NEW type \in TokenTypes \ (BlockStarts \cup {"BlockEnd"})
    PROVE  /\ Here(type) \in Tokens
           /\ Here(type).type \notin BlockStarts \cup {"BlockEnd"}
           /\ <<Here(type)>> \in Seq(Tokens) /\ Balance(<<Here(type)>>) = 0
BY HereTyped, BalanceSingle

\* The types of tokens that open and close no block.
LEMMA PlainTypes ==
    {"FlowSequenceStart", "FlowSequenceEnd", "FlowMappingStart", "FlowMappingEnd", "FlowEntry",
     "Key", "Value", "Scalar", "Anchor", "Alias", "Tag"}
        \subseteq TokenTypes \ (BlockStarts \cup {"BlockEnd"})
BY DEF TokenTypes, BlockStarts

\* The position behind the lexeme an action has read.
LEMMA MovesOn ==
    ASSUME ScannerTypeOK, More, index > 0, MoveTo(line, index + 1)
    PROVE  InText(line', index')
<1>1. line \in 1 .. Len(text) /\ index + 1 \in Nat \ {0}
  BY DEF ScannerTypeOK, More
<1> QED BY <1>1, MovesInText

\* A bracket's token is a flow start or a flow end.
LEMMA BracketTyped ==
    ASSUME NEW l \in {"[", "]", "{", "}"}
    PROVE  Bracket(l) \in {"FlowSequenceStart", "FlowSequenceEnd",
                           "FlowMappingStart", "FlowMappingEnd"}
BY DEF Bracket

\* The token of an anchor, a tag or an alias.
LEMMA NameTokenTyped ==
    ASSUME NEW l \in {"&", "!", "*"}
    PROVE  NameToken(l) \in {"Anchor", "Tag", "Alias"}
BY DEF NameToken

\* An action that emits one plain token and leaves the stacks alone.
LEMMA EmitKeeps ==
    ASSUME ScannerTypeOK, More, index > 0,
           NEW type \in TokenTypes \ (BlockStarts \cup {"BlockEnd"}), Emit(<<Here(type)>>),
           MoveTo(line, index + 1), UNCHANGED <<text, indents, scanning>>, flow_level' \in Nat
    PROVE  Keeps
<1>1. InText(line', index')
  BY MovesOn
<1>2. StacksOK' /\ Adds(<<Here(type)>>)
  BY PlainToken, AddsOne
<1> QED BY <1>1, <1>2 DEF Keeps, ScannerTypeOK

\* An action that opens a mapping and emits one plain token.
LEMMA OpenKeeps ==
    ASSUME ScannerTypeOK, More, index > 0, NEW wanted,
           NEW type \in TokenTypes \ (BlockStarts \cup {"BlockEnd"}),
           OpenMapping(wanted, <<Here(type)>>), MoveTo(line, index + 1),
           UNCHANGED <<text, compact_sequence_indents, current_indent, scanning>>,
           flow_level' \in Nat
    PROVE  Keeps
<1>1. InText(line', index')
  BY MovesOn
<1>2. StacksOK' /\ \E more : Adds(more)
  BY PlainToken, OpenMappingKeeps
<1> QED BY <1>1, <1>2 DEF Keeps, ScannerTypeOK

\* A bracket keeps the account of the indentations.
LEMMA BracketKeeps ==
    ASSUME ScannerTypeOK, OpenFlow \/ CloseFlow
    PROVE  Keeps
<1>1. CASE OpenFlow
  <2>1. More /\ index > 0 /\ Current[index] \in {"[", "]", "{", "}"} /\ flow_level' = flow_level + 1
    BY <1>1 DEF OpenFlow, Reads
  <2>2. Bracket(Current[index]) \in TokenTypes \ (BlockStarts \cup {"BlockEnd"})
    BY <2>1, BracketTyped, PlainTypes
  <2>3. /\ OpenMapping(KeyAhead, <<Here(Bracket(Current[index]))>>) /\ MoveTo(line, index + 1)
        /\ UNCHANGED <<text, compact_sequence_indents, current_indent, scanning>>
    BY <1>1 DEF OpenFlow
  <2>4. flow_level' \in Nat
    <3>1. flow_level \in Nat BY DEF ScannerTypeOK
    <3>2. flow_level' = flow_level + 1 BY <2>1
    <3> QED BY <3>1, <3>2
  <2> QED BY <2>1, <2>2, <2>3, <2>4, OpenKeeps
<1>2. CASE CloseFlow
  <2>1. /\ More /\ index > 0 /\ Current[index] \in {"[", "]", "{", "}"}
        /\ flow_level # 0 /\ flow_level' = flow_level - 1
    BY <1>2 DEF CloseFlow, Reads, InBlock
  <2>2. Bracket(Current[index]) \in TokenTypes \ (BlockStarts \cup {"BlockEnd"})
    BY <2>1, BracketTyped, PlainTypes
  <2>3. /\ Emit(<<Here(Bracket(Current[index]))>>) /\ MoveTo(line, index + 1)
        /\ UNCHANGED <<text, indents, scanning>>
    BY <1>2 DEF CloseFlow
  <2>4. flow_level' \in Nat
    <3>1. flow_level \in Nat BY DEF ScannerTypeOK
    <3>2. flow_level # 0 /\ flow_level' = flow_level - 1 BY <2>1
    <3> QED BY <3>1, <3>2
  <2> QED BY <2>1, <2>2, <2>3, <2>4, EmitKeeps
<1> QED BY <1>1, <1>2

\* The indicators, names, comments and quoted scalars keep the account.
LEMMA IndicatorKeeps ==
    ASSUME ScannerTypeOK, Comma \/ Colon \/ QuestionMark \/ Name \/ Comment \/ Quoted
    PROVE  Keeps
<1>1. CASE Comma
  <2>1. /\ More /\ index > 0 /\ Emit(<<Here("FlowEntry")>>) /\ MoveTo(line, index + 1)
        /\ UNCHANGED <<text, indents, flow_level, scanning>>
    BY <1>1 DEF Comma, Reads
  <2> QED BY <2>1, EmitKeeps, PlainTypes DEF ScannerTypeOK
<1>2. CASE Colon
  <2>1. /\ More /\ index > 0 /\ Emit(<<Here("Value")>>) /\ MoveTo(line, index + 1)
        /\ UNCHANGED <<text, indents, flow_level, scanning>>
    BY <1>2 DEF Colon, Reads
  <2> QED BY <2>1, EmitKeeps, PlainTypes DEF ScannerTypeOK
<1>3. CASE QuestionMark
  <2>1. /\ More /\ index > 0 /\ MoveTo(line, index + 1)
        /\ OpenMapping(InBlock /\ AtContentStart, <<Here("Key")>>)
        /\ UNCHANGED <<text, compact_sequence_indents, current_indent, flow_level, scanning>>
    BY <1>3 DEF QuestionMark, Reads
  <2> QED BY <2>1, OpenKeeps, PlainTypes DEF ScannerTypeOK
<1>4. CASE Name
  <2>1. /\ More /\ index > 0 /\ MoveTo(line, index + 1) /\ Current[index] \in {"&", "!", "*"}
        /\ OpenMapping(KeyAhead, <<Here(NameToken(Current[index]))>>)
        /\ UNCHANGED <<text, compact_sequence_indents, current_indent, flow_level, scanning>>
    BY <1>4 DEF Name, Reads
  <2>2. NameToken(Current[index]) \in TokenTypes \ (BlockStarts \cup {"BlockEnd"})
    BY <2>1, NameTokenTyped, PlainTypes
  <2> QED BY <2>1, <2>2, OpenKeeps DEF ScannerTypeOK
<1>5. CASE Comment
  <2>1. /\ More /\ index > 0 /\ MoveTo(line, index + 1)
        /\ UNCHANGED <<text, tokens, indents, flow_level, scanning>>
    BY <1>5 DEF Comment, Reads
  <2>2. InText(line', index') /\ StacksOK' /\ Adds(<<>>)
    BY <2>1, MovesOn, AddsNothing
  <2> QED BY <2>1, <2>2 DEF Keeps, ScannerTypeOK
<1>6. CASE Quoted
  <2>1. /\ More /\ index > 0 /\ MoveTo(line, index + 1)
        /\ OpenMapping(InBlock /\ MappingAhead, <<Here("Scalar")>>)
        /\ UNCHANGED <<text, compact_sequence_indents, current_indent, flow_level, scanning>>
    BY <1>6 DEF Quoted, Reads
  <2> QED BY <2>1, OpenKeeps, PlainTypes DEF ScannerTypeOK
<1> QED BY <1>1, <1>2, <1>3, <1>4, <1>5, <1>6

\* The end of the text closes every indentation with a BlockEnd.
LEMMA EndOfInputKeeps ==
    ASSUME ScannerTypeOK, EndOfInput
    PROVE  Keeps
<1> DEFINE open == Len(compact_sequence_indents) + Len(indent_stack) - 1
           at == Len(text)
           ends == BlockEnds(open, at)
           last == Token("StreamEnd", at, 1, at)
           new == ends \o <<last>>
<1>1. /\ UNCHANGED <<text, position, current_indent, flow_level>>
      /\ Emit(new) /\ scanning' = "done"
      /\ indent_stack' = <<indent_stack[1]>> /\ compact_sequence_indents' = <<>>
  BY DEF EndOfInput
<1>2. /\ Len(compact_sequence_indents) \in Nat /\ Len(indent_stack) \in Nat \ {0}
      /\ indent_stack[1] \in Indentations /\ at \in Nat
  BY DEF ScannerTypeOK, IsText
<1>3. open \in Nat
  BY <1>2
<1>4. ends \in Seq(Tokens) /\ Balance(ends) = 0 - open
  <2> HIDE DEF open, at
  <2> QED BY <1>2, <1>3, BalanceEnds
<1>5. last \in Tokens /\ last.type \notin BlockStarts \cup {"BlockEnd"}
  BY <1>2, TokenTyped DEF TokenTypes, BlockStarts
<1>6. new \in Seq(Tokens) /\ Balance(new) = 0 - open
  <2> HIDE DEF ends, last
  <2>1. <<last>> \in Seq(Tokens) /\ Balance(<<last>>) = 0
    BY <1>5, BalanceSingle
  <2>2. new \in Seq(Tokens) /\ Balance(new) = Balance(ends) + Balance(<<last>>)
    BY <1>4, <2>1, BalanceConcat
  <2> QED BY <1>3, <1>4, <2>1, <2>2
<1>7. StacksOK'
  <2>1. indent_stack' \in Seq(Indentations) /\ indent_stack' # <<>> /\ indent_stack'[1].indent = 0
    BY <1>1, <1>2 DEF ScannerTypeOK
  <2>2. compact_sequence_indents' \in Seq(Nat) /\ current_indent' \in Nat
    BY <1>1 DEF ScannerTypeOK
  <2> QED BY <2>1, <2>2 DEF StacksOK
<1>8. Adds(new)
  <2> HIDE DEF new
  <2>1. Len(indent_stack') = 1 /\ Len(compact_sequence_indents') = 0
    BY <1>1
  <2> QED BY <1>1, <1>2, <1>6, <2>1 DEF Adds
<1>9. InText(line', index')
  BY <1>1, StaysInText
<1> QED BY <1>1, <1>7, <1>8, <1>9 DEF Keeps, ScannerTypeOK

\* A stack grows by an element or by none.
LEMMA GrowTyped ==
    ASSUME NEW S, NEW s \in Seq(S), s # <<>>, NEW c \in BOOLEAN, NEW e \in S
    PROVE  LET t == s \o (IF c THEN <<e>> ELSE <<>>)
           IN  /\ t \in Seq(S) /\ t # <<>> /\ t[1] = s[1]
               /\ Len(t) = Len(s) + (IF c THEN 1 ELSE 0)
<1>1. CASE c
  BY <1>1
<1>2. CASE ~c
  BY <1>2
<1> QED BY <1>1, <1>2

\* A block start emitted under a condition is balanced by it.
LEMMA OptionalToken ==
    ASSUME NEW x \in Tokens, x.type \in BlockStarts, NEW c \in BOOLEAN
    PROVE  /\ (IF c THEN <<x>> ELSE <<>>) \in Seq(Tokens)
           /\ Balance(IF c THEN <<x>> ELSE <<>>) = IF c THEN 1 ELSE 0
<1>1. CASE c
  <2>1. <<x>> \in Seq(Tokens) /\ Balance(<<x>>) = 1
    BY BalanceSingle
  <2> QED BY <1>1, <2>1
<1>2. CASE ~c
  BY <1>2, BalanceEmpty
<1> QED BY <1>1, <1>2

\* A `- ` keeps the account: a new sequence is pushed with its start token.
LEMMA DashKeeps ==
    ASSUME ScannerTypeOK, Dash
    PROVE  Keeps
<1> DEFINE dash_indent == Column - 1
           top == Last(indent_stack)
           onCompact(n) == compact_sequence_indents # <<>> /\ Last(compact_sequence_indents) = n
           deeper == ~onCompact(dash_indent) /\ current_indent > top.indent
           seq_indent == Max({dash_indent, current_indent})
           compact == /\ ~onCompact(dash_indent)
                      /\ current_indent = top.indent /\ ~top.sequence
                      /\ ~onCompact(seq_indent)
           behind == index < Len(Current)
           nested == behind /\ Current[index + 1] = "-"
           next == ColumnAt(line, index + 1)
           sequence == [indent |-> current_indent, sequence |-> TRUE]
           inner == [indent |-> next - 1, sequence |-> TRUE]
           first == IF deeper \/ compact THEN <<Here("BlockSequenceStart")>> ELSE <<>>
           entry == <<Here("BlockEntry")>>
           second == IF nested THEN <<Token("BlockSequenceStart", line, next, line)>> ELSE <<>>
           grown == indent_stack \o (IF deeper THEN <<sequence>> ELSE <<>>)
<1>1. /\ indent_stack' = grown \o (IF nested THEN <<inner>> ELSE <<>>)
      /\ compact_sequence_indents' = IF compact THEN Append(compact_sequence_indents, seq_indent)
                                     ELSE compact_sequence_indents
      /\ current_indent' = IF behind /\ ~nested THEN next - 1 ELSE current_indent
      /\ Emit(first \o entry \o second)
      /\ MoveTo(line, index + 1)
      /\ UNCHANGED <<text, flow_level, scanning>>
      /\ More /\ index > 0
  BY DEF Dash, Reads
<1>2. /\ Column \in Nat \ {0} /\ next \in Nat \ {0} /\ line \in Nat
      /\ Here("BlockSequenceStart") \in Tokens
      /\ Here("BlockSequenceStart").type = "BlockSequenceStart"
      /\ Here("BlockEntry") \in Tokens /\ Here("BlockEntry").type = "BlockEntry"
  BY <1>1, HereTyped DEF TokenTypes
<1>3. seq_indent \in Nat
  <2> DEFINE P == {dash_indent, current_indent}
  <2>1. P \in SUBSET Nat /\ P # {}
    BY <1>2 DEF ScannerTypeOK
  <2>2. \E b \in Nat : \A n \in P : n <= b
    <3>1. dash_indent \in Nat /\ current_indent \in Nat BY <1>2 DEF ScannerTypeOK
    <3> HIDE DEF dash_indent
    <3>2. /\ dash_indent + current_indent \in Nat
          /\ \A n \in P : n <= dash_indent + current_indent
      BY <3>1
    <3> QED BY <3>2
  <2> HIDE DEF P
  <2>3. Max(P) \in P
    BY <2>1, <2>2, MaxBounds
  <2> QED BY <2>1, <2>3 DEF P
<1>4. sequence \in Indentations /\ inner \in Indentations
  BY <1>2 DEF Indentations, ScannerTypeOK
<1>5. /\ deeper \in BOOLEAN /\ compact \in BOOLEAN /\ nested \in BOOLEAN
      /\ ~(deeper /\ compact)
  <2>1. top \in Indentations
    BY DEF Last, ScannerTypeOK
  <2>2. current_indent \in Nat /\ top.indent \in Nat
    BY <2>1 DEF ScannerTypeOK, Indentations
  <2> QED BY <2>2
<1> HIDE DEF dash_indent, top, deeper, compact, seq_indent, nested, next, sequence, inner
<1>6. /\ grown \in Seq(Indentations) /\ grown # <<>> /\ grown[1] = indent_stack[1]
      /\ Len(grown) = Len(indent_stack) + (IF deeper THEN 1 ELSE 0)
  BY <1>4, <1>5, GrowTyped DEF ScannerTypeOK
<1> HIDE DEF grown
<1>7. /\ indent_stack' \in Seq(Indentations) /\ indent_stack' # <<>>
      /\ indent_stack'[1] = indent_stack[1]
      /\ Len(indent_stack')
             = Len(indent_stack) + (IF deeper THEN 1 ELSE 0) + (IF nested THEN 1 ELSE 0)
  <2> DEFINE t == grown \o (IF nested THEN <<inner>> ELSE <<>>)
  <2>1. /\ t \in Seq(Indentations) /\ t # <<>>
        /\ t[1] = grown[1]
        /\ Len(t) = Len(grown) + (IF nested THEN 1 ELSE 0)
    BY <1>4, <1>5, <1>6, GrowTyped
  <2>2. indent_stack' = t
    BY <1>1
  <2> HIDE DEF t
  <2> QED BY <1>6, <2>1, <2>2
<1>8. /\ compact_sequence_indents' \in Seq(Nat)
      /\ Len(compact_sequence_indents')
             = Len(compact_sequence_indents) + (IF compact THEN 1 ELSE 0)
  <2>1. compact_sequence_indents \in Seq(Nat)
    BY DEF ScannerTypeOK
  <2>2. CASE compact
    BY <1>1, <1>3, <2>1, <2>2
  <2>3. CASE ~compact
    BY <1>1, <2>1, <2>3
  <2> QED BY <2>2, <2>3
<1>9. StacksOK'
  <2>1. current_indent' \in Nat
    BY <1>1, <1>2 DEF ScannerTypeOK
  <2> QED BY <1>7, <1>8, <2>1 DEF StacksOK, ScannerTypeOK
<1>10. /\ first \in Seq(Tokens)
       /\ Balance(first) = IF deeper \/ compact THEN 1 ELSE 0
  <2>1. (deeper \/ compact) \in BOOLEAN BY <1>5
  <2> QED BY <1>2, <2>1, OptionalToken DEF BlockStarts
<1>11. entry \in Seq(Tokens) /\ Balance(entry) = 0
  BY <1>2, BalanceSingle DEF BlockStarts
<1>12. /\ second \in Seq(Tokens)
       /\ Balance(second) = IF nested THEN 1 ELSE 0
  <2>1. /\ Token("BlockSequenceStart", line, next, line) \in Tokens
        /\ Token("BlockSequenceStart", line, next, line).type \in BlockStarts
    BY <1>2, TokenTyped DEF TokenTypes, BlockStarts
  <2> QED BY <1>5, <2>1, OptionalToken
<1> HIDE DEF first, entry, second
<1>13. /\ first \o entry \o second \in Seq(Tokens)
       /\ Balance(first \o entry \o second) = Balance(first) + Balance(entry) + Balance(second)
  <2>1. /\ first \o entry \in Seq(Tokens)
        /\ Balance(first \o entry) = Balance(first) + Balance(entry)
    BY <1>10, <1>11, BalanceConcat
  <2>2. /\ (first \o entry) \o second \in Seq(Tokens)
        /\ Balance((first \o entry) \o second) = Balance(first \o entry) + Balance(second)
    BY <1>12, <2>1, BalanceConcat
  <2> QED BY <2>1, <2>2
<1>14. Adds(first \o entry \o second)
  <2>1. Len(indent_stack) \in Nat /\ Len(compact_sequence_indents) \in Nat
    BY DEF ScannerTypeOK
  <2>2. Balance(first \o entry \o second)
            = (IF deeper \/ compact THEN 1 ELSE 0) + (IF nested THEN 1 ELSE 0)
    BY <1>5, <1>10, <1>11, <1>12, <1>13
  <2>3. /\ Len(indent_stack')
               = Len(indent_stack) + (IF deeper THEN 1 ELSE 0) + (IF nested THEN 1 ELSE 0)
        /\ Len(compact_sequence_indents')
               = Len(compact_sequence_indents) + (IF compact THEN 1 ELSE 0)
    BY <1>7, <1>8
  <2>4. Len(indent_stack') + Len(compact_sequence_indents')
            = Len(indent_stack) + Len(compact_sequence_indents)
                + ((IF deeper \/ compact THEN 1 ELSE 0) + (IF nested THEN 1 ELSE 0))
    <3> DEFINE d == IF deeper THEN 1 ELSE 0
               c == IF compact THEN 1 ELSE 0
               n == IF nested THEN 1 ELSE 0
    <3>1. d \in Nat /\ c \in Nat /\ n \in Nat /\ (IF deeper \/ compact THEN 1 ELSE 0) = d + c
      BY <1>5
    <3>2. /\ Len(indent_stack') = Len(indent_stack) + d + n
          /\ Len(compact_sequence_indents') = Len(compact_sequence_indents) + c
      BY <2>3
    <3> HIDE DEF d, c, n
    <3>3. Len(indent_stack') + Len(compact_sequence_indents')
            = Len(indent_stack) + Len(compact_sequence_indents) + ((d + c) + n)
      BY <2>1, <3>1, <3>2
    <3> QED BY <3>1, <3>3 DEF n
  <2> QED BY <1>1, <1>13, <2>2, <2>4 DEF Adds
<1>15. InText(line', index')
  BY <1>1, MovesOn
<1> QED BY <1>1, <1>9, <1>14, <1>15 DEF Keeps, ScannerTypeOK

\* A plain scalar ends on a line of the text, before a lexeme of it or behind the last,
\* and behind where it starts.
LEMMA ScalarEndTyped ==
    ASSUME ScannerTypeOK, line \in 1 .. Len(text), NEW opens
    PROVE  /\ ScalarEnd(opens).line \in 1 .. Len(text)
           /\ ScalarEnd(opens).index \in Nat \ {0}
           /\ ScalarEnd(opens).line \in line .. Len(text)
           /\ ScalarEnd(opens).line = line => index <= ScalarEnd(opens).index
<1> DEFINE from(l) == IF l = line THEN index + 1 ELSE 1
           stops(l) == {i \in from(l) .. Len(text[l].lexemes) : Ends(text[l].lexemes[i])}
           stop(l) == IF stops(l) = {} THEN Len(text[l].lexemes) + 1 ELSE Min(stops(l))
           GoesOn(k) == stop(k) > Len(text[k].lexemes) /\ Continues(k + 1, opens)
           Final(l) == \/ stop(l) <= Len(text[l].lexemes) \/ l = Len(text)
                       \/ ~Continues(l + 1, opens)
           Chosen(l) == (\A k \in line .. l - 1 : GoesOn(k)) /\ Final(l)
           last == CHOOSE l \in line .. Len(text) : Chosen(l)
<1>1. Len(text) \in Nat /\ index \in Nat
  BY DEF ScannerTypeOK, IsText
<1>2. \A l \in line .. Len(text) : stop(l) \in Nat \ {0} /\ (l = line => index <= stop(l))
  <2> SUFFICES ASSUME NEW l \in line .. Len(text)
               PROVE  stop(l) \in Nat \ {0} /\ (l = line => index <= stop(l))
    OBVIOUS
  <2>1. Len(text[l].lexemes) \in Nat \ {0} /\ from(l) \in Nat \ {0}
    BY <1>1, LineTyped
  <2>2. CASE stops(l) = {}
    <3>1. l = line => index <= Len(text[l].lexemes)
      BY <1>1, <2>1 DEF ScannerTypeOK
    <3> QED BY <1>1, <2>1, <2>2, <3>1
  <2>3. CASE stops(l) # {}
    <3>1. /\ stops(l) \in SUBSET Nat
          /\ \A i \in stops(l) : i # 0 /\ (l = line => index <= i)
      BY <1>1, <2>1
    <3> HIDE DEF stops
    <3>2. Min(stops(l)) \in stops(l)
      BY <2>3, <3>1, MinBounds
    <3> QED BY <2>3, <3>1, <3>2
  <2> QED BY <2>2, <2>3
<1>3. \E l \in line .. Len(text) : Chosen(l)
  <2> DEFINE F == {l \in line .. Len(text) : Final(l)}
  <2>1. F \in SUBSET Nat /\ F # {}
    <3>1. line \in Nat /\ Len(text) \in line .. Len(text)
      BY <1>1
    <3>2. Final(Len(text))
      OBVIOUS
    <3>3. line .. Len(text) \in SUBSET Nat
      BY <1>1, <3>1
    <3> HIDE DEF Final
    <3> QED BY <3>1, <3>2, <3>3
  <2>2. PICK l \in F : \A n \in F : l <= n
    <3> HIDE DEF F
    <3> QED BY <2>1, SmallestExists
  <2>3. ASSUME NEW k \in line .. l - 1 PROVE GoesOn(k)
    <3>1. k \in line .. Len(text) /\ k \notin F
      <4>1. l \in line .. Len(text) BY <2>2
      <4>2. k \in line .. Len(text) /\ ~(l <= k) BY <1>1, <4>1
      <4> HIDE DEF F
      <4> QED BY <2>2, <4>2
    <3>2. ~Final(k)
      BY <3>1
    <3>3. stop(k) \in Nat /\ Len(text[k].lexemes) \in Nat
      <4>1. k \in 1 .. Len(text) BY <3>1
      <4> HIDE DEF stop
      <4> QED BY <1>2, <3>1, <4>1, LineTyped
    <3> HIDE DEF stop
    <3> QED BY <3>2, <3>3
  <2> HIDE DEF GoesOn, Final
  <2>4. l \in line .. Len(text) /\ Final(l)
    BY <2>2
  <2> QED BY <2>3, <2>4
<1>4. last \in line .. Len(text)
  <2> HIDE DEF Chosen
  <2> QED BY <1>3
<1>5. ScalarEnd(opens) = [line |-> last, index |-> stop(last)]
  BY Zenon DEF ScalarEnd
<1>6. ScalarEnd(opens).line = last /\ ScalarEnd(opens).index = stop(last)
  <2> HIDE DEF last, stop
  <2> QED BY <1>5
<1> HIDE DEF last, stop
<1> QED BY <1>2, <1>4, <1>6

\* A plain scalar keeps the account: a new mapping is pushed with its start token.
LEMMA PlainScalarKeeps ==
    ASSUME ScannerTypeOK, PlainScalar
    PROVE  Keeps
<1> DEFINE wanted == InBlock /\ MappingAhead
           end == ScalarEnd(wanted /\ StartsMapping)
           scalar == Token("Scalar", line, Column, end.line)
<1>1. /\ More /\ index > 0 /\ line \in 1 .. Len(text)
      /\ UNCHANGED <<text, compact_sequence_indents, current_indent, flow_level>>
  BY DEF PlainScalar, Reads, More, ScannerTypeOK
<1>2. \/ OpenMapping(wanted, <<>>) /\ Stop /\ UNCHANGED position
      \/ /\ OpenMapping(wanted, <<scalar>>)
         /\ MoveTo(end.line, end.index)
         /\ UNCHANGED scanning
  BY Zenon DEF PlainScalar
<1>3. end.line \in 1 .. Len(text) /\ end.index \in Nat \ {0}
  BY <1>1, ScalarEndTyped
<1> HIDE DEF wanted, end
<1>4. CASE OpenMapping(wanted, <<>>) /\ Stop /\ UNCHANGED position
  <2>1. InText(line', index')
    BY <1>4, StaysInText
  <2>2. StacksOK' /\ \E new : Adds(new)
    BY <1>1, <1>4, BalanceEmpty, OpenMappingKeeps
  <2> QED BY <1>1, <1>4, <2>1, <2>2 DEF Keeps, Stop, ScannerTypeOK
<1>5. CASE OpenMapping(wanted, <<scalar>>) /\ MoveTo(end.line, end.index) /\ UNCHANGED scanning
  <2>1. InText(line', index')
    BY <1>3, <1>5, MovesInText
  <2>2. scalar \in Tokens /\ scalar.type \notin BlockStarts \cup {"BlockEnd"}
    <3>1. line \in Nat /\ Column \in Nat /\ end.line \in Nat /\ "Scalar" \in TokenTypes
      BY <1>1, <1>3, HereTyped DEF TokenTypes
    <3>2. scalar \in Tokens /\ scalar.type = "Scalar"
      BY <3>1, TokenTyped
    <3> QED BY <3>2, PlainTypes
  <2> HIDE DEF scalar
  <2>3. <<scalar>> \in Seq(Tokens) /\ Balance(<<scalar>>) = 0
    BY <2>2, BalanceSingle
  <2>4. StacksOK' /\ \E new : Adds(new)
    BY <1>1, <1>5, <2>3, OpenMappingKeeps
  <2> QED BY <1>1, <1>5, <2>1, <2>4 DEF Keeps, ScannerTypeOK
<1> QED BY <1>2, <1>4, <1>5

-----------------------------------------------------------------------------
\* Every step of the scanner keeps the account.
LEMMA StepKeeps ==
    ASSUME ScannerTypeOK, ScannerNext
    PROVE  Keeps
<1>1. CASE Marker
  BY <1>1, MarkerKeeps
<1>2. CASE MarkerInFlow \/ RefuseFlowLine \/ RefuseLexeme
  BY <1>2, RefuseKeeps DEF MarkerInFlow, RefuseFlowLine, RefuseLexeme
<1>3. CASE FlowLine
  BY <1>3, FlowLineKeeps
<1>4. CASE BlockLine
  BY <1>4, BlockLineKeeps
<1>5. CASE OpenFlow \/ CloseFlow
  BY <1>5, BracketKeeps
<1>6. CASE Comma \/ Colon \/ QuestionMark \/ Name \/ Comment \/ Quoted
  BY <1>6, IndicatorKeeps
<1>7. CASE Dash
  BY <1>7, DashKeeps
<1>8. CASE PlainScalar
  BY <1>8, PlainScalarKeeps
<1>9. CASE EndOfInput
  BY <1>9, EndOfInputKeeps
<1> QED BY <1>1, <1>2, <1>3, <1>4, <1>5, <1>6, <1>7, <1>8, <1>9 DEF ScannerNext

\* The invariant of the scanner: IndentsAccounted needs the types, among them that the
\* indentation 0 is never popped.
ScannerInv == ScannerTypeOK /\ IndentsAccounted

\* A new scanner has the types and an empty account.
LEMMA ScannerInitInv == text \in Texts /\ ScannerInit => ScannerInv
<1> SUFFICES ASSUME text \in Texts, ScannerInit PROVE ScannerInv
  OBVIOUS
<1> DEFINE start == Token("StreamStart", 1, 1, 1)
           bottom == [indent |-> 0, sequence |-> FALSE]
<1>1. start \in Tokens /\ start.type \notin BlockStarts \cup {"BlockEnd"}
  BY TokenTyped DEF TokenTypes, BlockStarts
<1>2. bottom \in Indentations /\ bottom.indent = 0
  BY DEF Indentations
<1>3. /\ tokens = <<start>> /\ indent_stack = <<bottom>> /\ compact_sequence_indents = <<>>
      /\ line = 1 /\ index = 0 /\ current_indent = 0 /\ flow_level = 0 /\ scanning = "on"
  BY DEF ScannerInit
<1> HIDE DEF start, bottom
<1>4. IsText(text) /\ Len(text) \in Nat
  BY ScannerAssumption DEF IsText
<1>5. ScannerTypeOK
  BY <1>1, <1>2, <1>3, <1>4 DEF ScannerTypeOK
<1>6. IndentsAccounted
  <2>1. Balance(tokens) = 0
    BY <1>1, <1>3, BalanceSingle
  <2>2. Len(indent_stack) - 1 + Len(compact_sequence_indents) = 0
    BY <1>3
  <2> QED BY <2>1, <2>2 DEF IndentsAccounted, Balance, CountIn, Count
<1> QED BY <1>5, <1>6 DEF ScannerInv

\* A step of the scanner keeps types and account.
LEMMA ScannerStepInv == ScannerInv /\ [ScannerNext]_scanner => ScannerInv'
<1> SUFFICES ASSUME ScannerInv, [ScannerNext]_scanner PROVE ScannerInv'
  OBVIOUS
<1>1. CASE ScannerNext
  BY <1>1, StepKeeps, KeepsInvariant DEF ScannerInv
<1>2. CASE UNCHANGED scanner
  BY <1>2 DEF ScannerInv, ScannerTypeOK, IndentsAccounted, Count, scanner, position, indents
<1> QED BY <1>1, <1>2

\* Whatever the text, the fields of the scanner (src/scanner/mod.rs) keep their types, the
\* position stays in the text and indent_stack is never popped to nothing.
THEOREM ScannerTypes == ScannerSpec => []ScannerTypeOK
<1>1. ScannerSpec => []ScannerInv
  BY ScannerInitInv, ScannerStepInv, PTL DEF ScannerSpec
<1> QED BY <1>1, PTL DEF ScannerInv

\* Whatever the text, indent_stack and compact_sequence_indents account for the block
\* starts and ends among the tokens.
THEOREM IndentsAlwaysAccounted == ScannerSpec => []IndentsAccounted
<1>1. ScannerSpec => []ScannerInv
  BY ScannerInitInv, ScannerStepInv, PTL DEF ScannerSpec
<1> QED BY <1>1, PTL DEF ScannerInv

-----------------------------------------------------------------------------
(***************************************************************************)
(* Brackets and the two ends of the stream.  A step emits tokens that are  *)
(* neither, and behind them at most one that is.                           *)
(***************************************************************************)
NeutralTypes == TokenTypes \ (FlowStarts \cup FlowEnds \cup Boundary \cup {"StreamEnd"})

Neutral(t) == t \in Seq(Tokens) /\ \A j \in 1 .. Len(t) : t[j].type \in NeutralTypes

\* The step that emits a token like x last.
Closes(x) ==
    \/ x.type \in NeutralTypes /\ flow_level' = flow_level /\ scanning' \in {"on", "error"}
    \/ x.type \in FlowStarts /\ flow_level' = flow_level + 1 /\ scanning' = "on"
    \/ x.type \in FlowEnds /\ flow_level # 0 /\ flow_level' = flow_level - 1 /\ scanning' = "on"
    \/ /\ x.type \in {"DocumentStart", "DocumentEnd"}
       /\ flow_level = 0 /\ flow_level' = 0 /\ scanning' = "on"
    \/ x.type = "StreamEnd" /\ flow_level' = flow_level /\ scanning' = "done"

Emits ==
    /\ scanning = "on"
    /\ \/ \E t : Neutral(t) /\ Emit(t) /\ flow_level' = flow_level /\ scanning' \in {"on", "error"}
       \/ \E t, x : Neutral(t) /\ x \in Tokens /\ Emit(t \o <<x>>) /\ Closes(x)

\* No tokens touch no bracket.
LEMMA NeutralEmpty == Neutral(<<>>)
BY DEF Neutral

\* One token that is not a bracket touches no bracket.
LEMMA NeutralSingle ==
    ASSUME NEW x \in Tokens, x.type \in NeutralTypes
    PROVE  Neutral(<<x>>)
BY DEF Neutral

\* Neutral sequences concatenated are neutral.
LEMMA NeutralConcat ==
    ASSUME NEW s, NEW t, Neutral(s), Neutral(t)
    PROVE  Neutral(s \o t)
<1>1. s \in Seq(Tokens) /\ t \in Seq(Tokens)
  BY DEF Neutral
<1>2. /\ s \o t \in Seq(Tokens)
      /\ Len(s \o t) = Len(s) + Len(t)
      /\ \A i \in 1 .. Len(s) + Len(t) : (s \o t)[i] = IF i <= Len(s) THEN s[i] ELSE t[i - Len(s)]
  BY <1>1, ConcatProperties
<1>3. Len(s) \in Nat /\ Len(t) \in Nat
  BY <1>1
<1>4. ASSUME NEW i \in 1 .. Len(s \o t) PROVE (s \o t)[i].type \in NeutralTypes
  <2>1. CASE i <= Len(s)
    <3>1. i \in 1 .. Len(s) /\ (s \o t)[i] = s[i]
      BY <1>2, <1>3, <2>1
    <3> QED BY <3>1 DEF Neutral
  <2>2. CASE ~(i <= Len(s))
    <3>1. i - Len(s) \in 1 .. Len(t) /\ (s \o t)[i] = t[i - Len(s)]
      BY <1>2, <1>3, <2>2
    <3> QED BY <3>1 DEF Neutral
  <2> QED BY <2>1, <2>2
<1> QED BY <1>2, <1>4 DEF Neutral

\* The types of the neutral tokens, by name.
LEMMA NeutralNames ==
    /\ {"YamlDirective", "BlockSequenceStart", "BlockMappingStart", "BlockEnd", "BlockEntry",
        "FlowEntry", "Key", "Value", "Scalar", "Anchor", "Alias", "Tag"} \subseteq NeutralTypes
    /\ NeutralTypes \subseteq TokenTypes
BY DEF NeutralTypes, TokenTypes, FlowStarts, FlowEnds, Boundary

\* The emission of no token, and of one token that is neutral.
LEMMA EmitsNone ==
    ASSUME ScannerTypeOK, scanning = "on", UNCHANGED <<tokens, flow_level>>,
           scanning' \in {"on", "error"}
    PROVE  Emits
<1>1. Emit(<<>>)
  BY DEF Emit, ScannerTypeOK
<1> QED BY <1>1, NeutralEmpty DEF Emits

\* A step that emits neutral tokens and leaves flow_level is one of the kinds in Emits.
LEMMA EmitsNeutral ==
    ASSUME scanning = "on", NEW t, Neutral(t), Emit(t), UNCHANGED flow_level,
           scanning' \in {"on", "error"}
    PROVE  Emits
BY DEF Emits

\* A step that emits one closing token is one of the kinds in Emits.
LEMMA EmitsLast ==
    ASSUME scanning = "on", NEW x \in Tokens, Emit(<<x>>), Closes(x)
    PROVE  Emits
<1>1. <<>> \o <<x>> = <<x>>
  OBVIOUS
<1> QED BY <1>1, NeutralEmpty DEF Emits

\* Behind the start of a mapping.
LEMMA OpenMappingEmits ==
    ASSUME ScannerTypeOK, More, index > 0, NEW wanted, NEW x \in Tokens,
           OpenMapping(wanted, <<x>>), Closes(x)
    PROVE  Emits
<1>1. scanning = "on"
  BY DEF More
<1>2. CASE wanted /\ StartsMapping
  <2>1. Emit(<<Here("BlockMappingStart")>> \o <<x>>)
    BY <1>2 DEF OpenMapping
  <2>2. Neutral(<<Here("BlockMappingStart")>>)
    BY HereTyped, NeutralSingle, NeutralNames
  <2> QED BY <1>1, <2>1, <2>2 DEF Emits
<1>3. CASE ~(wanted /\ StartsMapping)
  <2>1. Emit(<<x>>)
    BY <1>3 DEF OpenMapping
  <2> QED BY <1>1, <2>1, EmitsLast
<1> QED BY <1>2, <1>3

\* A neutral token made here may end what a step emits.
LEMMA HereCloses ==
    ASSUME ScannerTypeOK, More, index > 0, NEW type \in NeutralTypes,
           UNCHANGED <<flow_level, scanning>>
    PROVE  Here(type) \in Tokens /\ Closes(Here(type))
<1>1. Here(type) \in Tokens /\ Here(type).type = type
  BY HereTyped, NeutralNames
<1> QED BY <1>1 DEF Closes, More

\* The steps that emit nothing.
LEMMA QuietEmits ==
    ASSUME ScannerTypeOK, MarkerInFlow \/ FlowLine \/ RefuseFlowLine \/ RefuseLexeme \/ Comment
    PROVE  Emits
<1>1. CASE MarkerInFlow \/ RefuseFlowLine \/ RefuseLexeme
  <2>1. scanning = "on" /\ Refuse
    BY <1>1 DEF MarkerInFlow, RefuseFlowLine, RefuseLexeme, Begins, Reads, More
  <2> QED BY <2>1, EmitsNone DEF Refuse, Stop
<1>2. CASE FlowLine
  BY <1>2, EmitsNone DEF FlowLine, Begins, More
<1>3. CASE Comment
  BY <1>3, EmitsNone DEF Comment, Reads, More
<1> QED BY <1>1, <1>2, <1>3

\* A document marker emits BlockEnds and the marker, outside brackets.
LEMMA MarkerEmits ==
    ASSUME ScannerTypeOK, Marker
    PROVE  Emits
<1> DEFINE type == CASE Current[1] = "%" -> "YamlDirective"
                     [] Current[1] = "---" -> "DocumentStart"
                     [] OTHER -> "DocumentEnd"
           x == Token(type, line, 1, line)
<1>1. /\ line \in Nat /\ scanning = "on" /\ Emit(<<x>>)
      /\ flow_level = 0 \/ Current[1] = "%"
      /\ UNCHANGED <<flow_level, scanning>>
  BY DEF Marker, Begins, More, InBlock, ScannerTypeOK
<1>2. \/ type = "YamlDirective"
      \/ type \in {"DocumentStart", "DocumentEnd"} /\ flow_level = 0
  BY <1>1
<1>3. type \in TokenTypes
  BY <1>2 DEF TokenTypes
<1> HIDE DEF type
<1>4. x \in Tokens /\ x.type = type
  BY <1>1, <1>3, TokenTyped
<1>5. Closes(x)
  BY <1>1, <1>2, <1>4, NeutralNames DEF Closes
<1> HIDE DEF x
<1> QED BY <1>1, <1>4, <1>5, EmitsLast

\* BlockEnd tokens touch no bracket.
LEMMA NeutralEnds ==
    ASSUME NEW n \in Nat, NEW at \in Nat
    PROVE  Neutral(BlockEnds(n, at))
<1> DEFINE e == Token("BlockEnd", at, 1, at)
<1>1. e \in Tokens /\ e.type \in NeutralTypes
  BY TokenTyped, NeutralNames DEF TokenTypes
<1>2. BlockEnds(n, at) = [i \in 1 .. n |-> e]
  BY DEF BlockEnds
<1> HIDE DEF e
<1> QED BY <1>1, <1>2 DEF Neutral

\* Starting a line emits BlockEnds only.
LEMMA BlockLineEmits ==
    ASSUME ScannerTypeOK, BlockLine
    PROVE  Emits
<1>1. PICK n \in Nat : Emit(BlockEnds(n, line))
  BY BlockLineKeeps
<1>2. scanning = "on" /\ UNCHANGED flow_level /\ scanning' \in {"on", "error"} /\ line \in Nat
  BY DEF BlockLine, Begins, More, Stop, ScannerTypeOK
<1> QED BY <1>1, <1>2, NeutralEnds, EmitsNeutral

\* A bracket emits its token and counts flow_level with it.
LEMMA BracketEmits ==
    ASSUME ScannerTypeOK, OpenFlow \/ CloseFlow
    PROVE  Emits
<1> DEFINE x == Here(Bracket(Current[index]))
<1>1. More /\ index > 0 /\ Current[index] \in {"[", "]", "{", "}"} /\ scanning = "on"
  BY DEF OpenFlow, CloseFlow, Reads, More
<1>2. x \in Tokens /\ x.type = Bracket(Current[index])
  <2>1. Bracket(Current[index]) \in TokenTypes
    BY <1>1, BracketTyped, PlainTypes
  <2> QED BY <1>1, <2>1, HereTyped
<1>3. CASE OpenFlow
  <2>1. Bracket(Current[index]) \in FlowStarts
    BY <1>3 DEF OpenFlow, Reads, Bracket, FlowStarts
  <2>2. OpenMapping(KeyAhead, <<x>>) /\ flow_level' = flow_level + 1 /\ scanning' = "on"
    BY <1>1, <1>3 DEF OpenFlow
  <2>3. Closes(x)
    BY <1>2, <2>1, <2>2 DEF Closes
  <2> HIDE DEF x
  <2> QED BY <1>1, <1>2, <2>2, <2>3, OpenMappingEmits
<1>4. CASE CloseFlow
  <2>1. Bracket(Current[index]) \in FlowEnds
    BY <1>4 DEF CloseFlow, Reads, Bracket, FlowEnds
  <2>2. Emit(<<x>>) /\ flow_level # 0 /\ flow_level' = flow_level - 1 /\ scanning' = "on"
    BY <1>1, <1>4 DEF CloseFlow, InBlock
  <2>3. Closes(x)
    BY <1>2, <2>1, <2>2 DEF Closes
  <2> HIDE DEF x
  <2> QED BY <1>1, <1>2, <2>2, <2>3, EmitsLast
<1> QED BY <1>3, <1>4

\* Indicators, names and quoted scalars emit neutral tokens.
LEMMA IndicatorEmits ==
    ASSUME ScannerTypeOK, Comma \/ Colon \/ QuestionMark \/ Name \/ Quoted
    PROVE  Emits
<1>1. More /\ index > 0 /\ UNCHANGED <<flow_level, scanning>> /\ scanning = "on"
  BY DEF Comma, Colon, QuestionMark, Name, Quoted, Reads, More
<1>2. CASE Comma \/ Colon
  <2>1. PICK type \in {"FlowEntry", "Value"} : Emit(<<Here(type)>>)
    BY <1>2 DEF Comma, Colon
  <2>2. Here(type) \in Tokens /\ Closes(Here(type))
    BY <1>1, HereCloses, NeutralNames
  <2> QED BY <1>1, <2>1, <2>2, EmitsLast
<1>3. CASE QuestionMark \/ Name \/ Quoted
  <2>1. PICK type \in {"Key", "Scalar", "Anchor", "Tag", "Alias"} :
            \E wanted : OpenMapping(wanted, <<Here(type)>>)
    <3>1. CASE QuestionMark
      BY <3>1 DEF QuestionMark
    <3>2. CASE Quoted
      BY <3>2 DEF Quoted
    <3>3. CASE Name
      <4>1. Current[index] \in {"&", "!", "*"} /\ OpenMapping(KeyAhead, <<Here(NameToken(Current[index]))>>)
        BY <3>3 DEF Name, Reads
      <4> QED BY <4>1, NameTokenTyped
    <3> QED BY <1>3, <3>1, <3>2, <3>3
  <2>2. Here(type) \in Tokens /\ Closes(Here(type))
    BY <1>1, HereCloses, NeutralNames
  <2> QED BY <1>1, <2>1, <2>2, OpenMappingEmits
<1> QED BY <1>2, <1>3

\* A `- ` emits neutral tokens.
LEMMA DashEmits ==
    ASSUME ScannerTypeOK, Dash
    PROVE  Emits
<1>1. PICK c, d : /\ Emit((IF c THEN <<Here("BlockSequenceStart")>> ELSE <<>>)
                         \o <<Here("BlockEntry")>>
                         \o (IF d THEN <<Token("BlockSequenceStart", line,
                                               ColumnAt(line, index + 1), line)>> ELSE <<>>))
  BY Zenon DEF Dash
<1>2. More /\ index > 0 /\ scanning = "on" /\ UNCHANGED <<flow_level, scanning>> /\ line \in Nat
  BY DEF Dash, Reads, More, ScannerTypeOK
<1> DEFINE x == Token("BlockSequenceStart", line, ColumnAt(line, index + 1), line)
           first == IF c THEN <<Here("BlockSequenceStart")>> ELSE <<>>
           entry == <<Here("BlockEntry")>>
           second == IF d THEN <<x>> ELSE <<>>
<1>3. Neutral(first)
  <2>1. Neutral(<<Here("BlockSequenceStart")>>)
    BY <1>2, HereTyped, NeutralSingle, NeutralNames
  <2> QED BY <2>1, NeutralEmpty
<1>4. Neutral(entry)
  BY <1>2, HereTyped, NeutralSingle, NeutralNames
<1>5. Neutral(second)
  <2>1. x \in Tokens /\ x.type = "BlockSequenceStart"
    <3>1. ColumnAt(line, index + 1) \in Nat /\ "BlockSequenceStart" \in TokenTypes
      BY <1>2, HereTyped DEF TokenTypes
    <3> QED BY <1>2, <3>1, TokenTyped
  <2>2. Neutral(<<x>>)
    BY <2>1, NeutralSingle, NeutralNames
  <2> QED BY <2>2, NeutralEmpty
<1> HIDE DEF first, entry, second
<1>6. Neutral(first \o entry \o second)
  BY <1>3, <1>4, <1>5, NeutralConcat
<1>7. Emit(first \o entry \o second)
  BY <1>1 DEF first, entry, second
<1> QED BY <1>2, <1>6, <1>7, EmitsNeutral

\* A plain scalar emits neutral tokens.
LEMMA PlainScalarEmits ==
    ASSUME ScannerTypeOK, PlainScalar
    PROVE  Emits
<1> DEFINE wanted == InBlock /\ MappingAhead
           end == ScalarEnd(wanted /\ StartsMapping)
           scalar == Token("Scalar", line, Column, end.line)
<1>1. /\ More /\ index > 0 /\ line \in 1 .. Len(text) /\ scanning = "on"
      /\ UNCHANGED flow_level
  BY DEF PlainScalar, Reads, More, ScannerTypeOK
<1>2. \/ OpenMapping(wanted, <<>>) /\ Stop
      \/ OpenMapping(wanted, <<scalar>>) /\ UNCHANGED scanning
  BY Zenon DEF PlainScalar
<1>3. end.line \in 1 .. Len(text)
  BY <1>1, ScalarEndTyped
<1> HIDE DEF wanted, end
<1>4. CASE OpenMapping(wanted, <<>>) /\ Stop
  <2>1. PICK t \in {<<Here("BlockMappingStart")>>, <<>>} : Emit(t)
    <3>1. <<Here("BlockMappingStart")>> \o <<>> = <<Here("BlockMappingStart")>>
      OBVIOUS
    <3> QED BY <1>4, <3>1 DEF OpenMapping
  <2>2. Neutral(t)
    BY <1>1, HereTyped, NeutralSingle, NeutralEmpty, NeutralNames
  <2> QED BY <1>1, <1>4, <2>1, <2>2, EmitsNeutral DEF Stop
<1>5. CASE OpenMapping(wanted, <<scalar>>) /\ UNCHANGED scanning
  <2>1. scalar \in Tokens /\ scalar.type = "Scalar"
    <3>1. line \in Nat /\ Column \in Nat /\ end.line \in Nat /\ "Scalar" \in TokenTypes
      BY <1>1, <1>3, HereTyped DEF TokenTypes
    <3> QED BY <3>1, TokenTyped
  <2>2. Closes(scalar)
    BY <1>1, <1>5, <2>1, NeutralNames DEF Closes
  <2> HIDE DEF scalar
  <2> QED BY <1>1, <1>5, <2>1, <2>2, OpenMappingEmits
<1> QED BY <1>2, <1>4, <1>5

\* The end of the text emits BlockEnds and, with no bracket open, StreamEnd.
LEMMA EndOfInputEmits ==
    ASSUME ScannerTypeOK, EndOfInput
    PROVE  Emits
<1> DEFINE open == Len(compact_sequence_indents) + Len(indent_stack) - 1
           at == Len(text)
           x == Token("StreamEnd", at, 1, at)
<1>1. /\ UNCHANGED flow_level /\ scanning = "on" /\ scanning' = "done"
      /\ Emit(BlockEnds(open, at) \o <<x>>)
  BY DEF EndOfInput
<1>2. open \in Nat /\ at \in Nat
  <2>1. Len(compact_sequence_indents) \in Nat /\ Len(indent_stack) \in Nat \ {0}
    BY DEF ScannerTypeOK
  <2> QED BY <2>1 DEF ScannerTypeOK, IsText
<1>3. x \in Tokens /\ x.type = "StreamEnd"
  BY <1>2, TokenTyped DEF TokenTypes
<1> HIDE DEF open, at, x
<1>4. Neutral(BlockEnds(open, at)) /\ Closes(x)
  BY <1>1, <1>2, <1>3, NeutralEnds DEF Closes
<1> QED BY <1>1, <1>3, <1>4 DEF Emits

\* Every step of the scanner is one of the kinds in Emits.
LEMMA StepEmits ==
    ASSUME ScannerTypeOK, ScannerNext
    PROVE  Emits
<1>1. CASE MarkerInFlow \/ FlowLine \/ RefuseFlowLine \/ RefuseLexeme \/ Comment
  BY <1>1, QuietEmits
<1>2. CASE Marker
  BY <1>2, MarkerEmits
<1>3. CASE BlockLine
  BY <1>3, BlockLineEmits
<1>4. CASE OpenFlow \/ CloseFlow
  BY <1>4, BracketEmits
<1>5. CASE Comma \/ Colon \/ QuestionMark \/ Name \/ Quoted
  BY <1>5, IndicatorEmits
<1>6. CASE Dash
  BY <1>6, DashEmits
<1>7. CASE PlainScalar
  BY <1>7, PlainScalarEmits
<1>8. CASE EndOfInput
  BY <1>8, EndOfInputEmits
<1> QED BY <1>1, <1>2, <1>3, <1>4, <1>5, <1>6, <1>7, <1>8 DEF ScannerNext

-----------------------------------------------------------------------------
(***************************************************************************)
(* The brackets that are open behind the first n tokens.                   *)
(***************************************************************************)
Depth(s, n) == CountTo(s, n, FlowStarts) - CountTo(s, n, FlowEnds)

\* The change of the depth at one token.
Turn(x) == IF x.type \in FlowStarts THEN 1 ELSE IF x.type \in FlowEnds THEN 0 - 1 ELSE 0

\* The bracket depth after n tokens is an integer.
LEMMA DepthTyped ==
    ASSUME NEW s, NEW n \in Nat
    PROVE  Depth(s, n) \in Int
<1>1. CountTo(s, n, FlowStarts) \in Nat /\ CountTo(s, n, FlowEnds) \in Nat
  BY CountToTyped
<1> QED BY <1>1 DEF Depth

\* The depth after one token more: a start deepens it, an end lessens it.
LEMMA DepthNext ==
    ASSUME NEW s, NEW n \in Nat
    PROVE  Depth(s, n + 1) = Depth(s, n) + Turn(s[n + 1])
<1>1. CountTo(s, n, FlowStarts) \in Nat /\ CountTo(s, n, FlowEnds) \in Nat
  BY CountToTyped
<1>2. /\ CountTo(s, n + 1, FlowStarts)
             = CountTo(s, n, FlowStarts) + (IF s[n + 1].type \in FlowStarts THEN 1 ELSE 0)
      /\ CountTo(s, n + 1, FlowEnds)
             = CountTo(s, n, FlowEnds) + (IF s[n + 1].type \in FlowEnds THEN 1 ELSE 0)
  BY CountToNext
<1>3. ~(s[n + 1].type \in FlowStarts /\ s[n + 1].type \in FlowEnds)
  BY DEF FlowStarts, FlowEnds
<1> QED BY <1>1, <1>2, <1>3 DEF Depth, Turn

\* The depth depends on the tokens it goes over only.
LEMMA DepthAgrees ==
    ASSUME NEW s, NEW t, NEW n \in Nat, \A i \in 1 .. n : s[i] = t[i]
    PROVE  Depth(s, n) = Depth(t, n)
BY CountToAgrees DEF Depth

\* Neutral tokens change nothing.
LEMMA DepthNeutral ==
    ASSUME NEW s, NEW m \in Nat, NEW k \in Nat, 
           \A i \in m + 1 .. k : s[i].type \in NeutralTypes
    PROVE  \A n \in m .. k : Depth(s, n) = Depth(s, m)
<1> DEFINE D == {n \in Nat : n \in m .. k => Depth(s, n) = Depth(s, m)}
<1>1. 0 \in D
  OBVIOUS
<1>2. ASSUME NEW n \in Nat, n \in D PROVE n + 1 \in D
  <2> SUFFICES ASSUME n + 1 \in m .. k PROVE Depth(s, n + 1) = Depth(s, m)
    OBVIOUS
  <2>1. CASE n + 1 = m
    BY <2>1
  <2>2. CASE n + 1 # m
    <3>1. n \in m .. k /\ n + 1 \in m + 1 .. k
      BY <2>2
    <3>2. s[n + 1].type \in NeutralTypes
      BY <3>1
    <3>3. Turn(s[n + 1]) = 0
      BY <3>2 DEF Turn, NeutralTypes
    <3>4. Depth(s, n) = Depth(s, m) /\ Depth(s, n) \in Int
      BY <1>2, <3>1, DepthTyped
    <3>5. Depth(s, n + 1) = Depth(s, n) + Turn(s[n + 1])
      BY DepthNext
    <3> QED BY <3>3, <3>4, <3>5
  <2> QED BY <2>1, <2>2
<1> HIDE DEF D
<1>3. D = Nat
  <2>1. D \in SUBSET Nat BY DEF D
  <2> QED BY <1>1, <1>2, <2>1, NaturalInduction
<1> QED BY <1>3 DEF D

\* The stream starts with the first token and ends with the last, once all is scanned.
StreamFramed ==
    /\ \A i \in DOMAIN tokens : tokens[i].type = "StreamStart" <=> i = 1
    /\ \A i \in DOMAIN tokens : tokens[i].type = "StreamEnd" => i = Len(tokens) /\ scanning = "done"
    /\ scanning = "done" => tokens[Len(tokens)].type = "StreamEnd"

BracketInv == ScannerTypeOK /\ BracketsAccounted /\ StreamFramed

\* Tokens whose brackets are open to this level, in a stream that has only started.
Bracketed(s, level) ==
    /\ level = Depth(s, Len(s))
    /\ \A n \in DOMAIN s : /\ Depth(s, n) >= 0
                           /\ s[n].type \in Boundary => Depth(s, n) = 0

Started(s) ==
    /\ s \in Seq(Tokens) /\ Len(s) > 0
    /\ \A i \in DOMAIN s : (s[i].type = "StreamStart" <=> i = 1) /\ s[i].type # "StreamEnd"

\* The checked property, said with the depth after each token.
LEMMA BracketsByDepth == BracketsAccounted <=> Bracketed(tokens, flow_level)
BY DEF BracketsAccounted, Bracketed, Depth, CountTo

\* Neutral tokens, alone.
LEMMA NeutralKeepsBrackets ==
    ASSUME NEW s \in Seq(Tokens), NEW t, Neutral(t)
    PROVE  /\ s \o t \in Seq(Tokens) /\ Len(s \o t) = Len(s) + Len(t) /\ Len(t) \in Nat
           /\ \A i \in 1 .. Len(s) : (s \o t)[i] = s[i] /\ Depth(s \o t, i) = Depth(s, i)
           /\ \A i \in Len(s) + 1 .. Len(s) + Len(t) :
                  /\ (s \o t)[i].type \in NeutralTypes
                  /\ Depth(s \o t, i) = Depth(s, Len(s))
           /\ Depth(s \o t, Len(s) + Len(t)) = Depth(s, Len(s))
<1> DEFINE m == Len(s)
           k == Len(s) + Len(t)
           u == s \o t
<1>1. t \in Seq(Tokens) /\ Len(t) \in Nat /\ m \in Nat /\ k \in m .. k /\ k \in Nat
  BY DEF Neutral
<1>2. /\ u \in Seq(Tokens) /\ Len(u) = k
      /\ \A i \in 1 .. k : u[i] = IF i <= m THEN s[i] ELSE t[i - m]
  BY <1>1, ConcatProperties
<1>3. \A i \in 1 .. m : u[i] = s[i]
  BY <1>1, <1>2
<1>4. \A i \in m + 1 .. k : u[i].type \in NeutralTypes
  <2> SUFFICES ASSUME NEW i \in m + 1 .. k PROVE u[i].type \in NeutralTypes
    OBVIOUS
  <2>1. i - m \in 1 .. Len(t) /\ u[i] = t[i - m]
    BY <1>1, <1>2
  <2> QED BY <2>1 DEF Neutral
<1> HIDE DEF u
<1>5. \A i \in 0 .. m : Depth(u, i) = Depth(s, i)
  <2> SUFFICES ASSUME NEW i \in 0 .. m PROVE Depth(u, i) = Depth(s, i)
    OBVIOUS
  <2>1. i \in Nat /\ \A j \in 1 .. i : u[j] = s[j]
    BY <1>1, <1>3
  <2> QED BY <2>1, DepthAgrees
<1>6. \A i \in m .. k : Depth(u, i) = Depth(u, m)
  <2> HIDE DEF m, k
  <2> QED BY <1>1, <1>4, DepthNeutral
<1>7. Depth(u, m) = Depth(s, m)
  BY <1>1, <1>5
<1>8. \A i \in 1 .. m : Depth(u, i) = Depth(s, i)
  BY <1>1, <1>5
<1>9. \A i \in m + 1 .. k : Depth(u, i) = Depth(s, m)
  BY <1>1, <1>6, <1>7
<1>10. Depth(u, k) = Depth(s, m)
  <2> HIDE DEF m, k
  <2> QED BY <1>1, <1>6, <1>7
<1> QED BY <1>1, <1>2, <1>3, <1>4, <1>8, <1>9, <1>10 DEF u

\* Neutral tokens after a bracketed stream leave it bracketed at the same level.
LEMMA NeutralContinues ==
    ASSUME NEW s, NEW t, NEW level \in Nat, Started(s), Bracketed(s, level), Neutral(t)
    PROVE  Started(s \o t) /\ Bracketed(s \o t, level)
<1> DEFINE m == Len(s)
           k == Len(s) + Len(t)
           u == s \o t
<1>1. s \in Seq(Tokens) /\ m \in Nat /\ m > 0 /\ DOMAIN s = 1 .. m
  BY DEF Started
<1>2. /\ u \in Seq(Tokens) /\ Len(u) = k /\ Len(t) \in Nat
      /\ \A i \in 1 .. m : u[i] = s[i] /\ Depth(u, i) = Depth(s, i)
      /\ \A i \in m + 1 .. k : u[i].type \in NeutralTypes /\ Depth(u, i) = Depth(s, m)
      /\ Depth(u, k) = Depth(s, m)
  BY <1>1, NeutralKeepsBrackets
<1> HIDE DEF u
<1>3. /\ k \in Nat /\ k >= m /\ DOMAIN u = 1 .. k
      /\ \A i \in 1 .. k : i \in 1 .. m \/ i \in m + 1 .. k
  BY <1>1, <1>2
<1>4. \A i \in DOMAIN u : (u[i].type = "StreamStart" <=> i = 1) /\ u[i].type # "StreamEnd"
  <2> SUFFICES ASSUME NEW i \in 1 .. k
               PROVE  (u[i].type = "StreamStart" <=> i = 1) /\ u[i].type # "StreamEnd"
    BY <1>3
  <2>1. CASE i \in 1 .. m
    BY <1>1, <1>2, <2>1 DEF Started
  <2>2. CASE i \in m + 1 .. k
    <3>1. u[i].type \in NeutralTypes /\ i # 1
      BY <1>1, <1>2, <2>2
    <3> QED BY <3>1 DEF NeutralTypes, Boundary
  <2> QED BY <1>3, <2>1, <2>2
<1>5. \A i \in DOMAIN u : Depth(u, i) >= 0 /\ (u[i].type \in Boundary => Depth(u, i) = 0)
  <2> SUFFICES ASSUME NEW i \in 1 .. k
               PROVE  Depth(u, i) >= 0 /\ (u[i].type \in Boundary => Depth(u, i) = 0)
    BY <1>3
  <2>1. CASE i \in 1 .. m
    BY <1>1, <1>2, <2>1 DEF Bracketed
  <2>2. CASE i \in m + 1 .. k
    <3>1. u[i].type \in NeutralTypes /\ Depth(u, i) = level
      BY <1>2, <2>2 DEF Bracketed
    <3> QED BY <3>1 DEF NeutralTypes
  <2> QED BY <1>3, <2>1, <2>2
<1>6. level = Depth(u, Len(u))
  BY <1>2 DEF Bracketed
<1>7. Started(u)
  BY <1>1, <1>2, <1>3, <1>4 DEF Started
<1> QED BY <1>5, <1>6, <1>7 DEF Bracketed, u

\* One token more.
LEMMA TokenContinues ==
    ASSUME NEW s, NEW x \in Tokens, NEW level \in Nat, Started(s), Bracketed(s, level),
           level + Turn(x) \in Nat, x.type \in Boundary => level = 0
    PROVE  LET u == s \o <<x>>
           IN  /\ Bracketed(u, level + Turn(x))
               /\ u \in Seq(Tokens) /\ Len(u) = Len(s) + 1 /\ u[Len(s) + 1] = x
               /\ \A i \in 1 .. Len(s) : u[i] = s[i]
<1> DEFINE m == Len(s)
           u == s \o <<x>>
<1>1. s \in Seq(Tokens) /\ m \in Nat /\ m > 0 /\ DOMAIN s = 1 .. m
  BY DEF Started
<1>2. u \in Seq(Tokens) /\ Len(u) = m + 1 /\ u[m + 1] = x /\ \A i \in 1 .. m : u[i] = s[i]
  BY <1>1
<1> HIDE DEF u
<1>3. \A i \in 1 .. m : Depth(u, i) = Depth(s, i)
  <2> SUFFICES ASSUME NEW i \in 1 .. m PROVE Depth(u, i) = Depth(s, i)
    OBVIOUS
  <2>1. i \in Nat /\ \A j \in 1 .. i : u[j] = s[j]
    BY <1>1, <1>2
  <2> QED BY <2>1, DepthAgrees
<1>4. Depth(u, m + 1) = level + Turn(x)
  <2>1. Depth(u, m + 1) = Depth(u, m) + Turn(u[m + 1])
    BY <1>1, DepthNext
  <2>2. Depth(u, m) = level
    BY <1>1, <1>3 DEF Bracketed
  <2> QED BY <1>2, <2>1, <2>2
<1>5. x.type \in Boundary => level + Turn(x) = 0
  <2>1. x.type \in Boundary => Turn(x) = 0
    BY DEF Boundary, Turn, FlowStarts, FlowEnds
  <2> QED BY <2>1
<1>6. ASSUME NEW i \in DOMAIN u
      PROVE  Depth(u, i) >= 0 /\ (u[i].type \in Boundary => Depth(u, i) = 0)
  <2>1. CASE i \in 1 .. m
    BY <1>1, <1>2, <1>3, <2>1 DEF Bracketed
  <2>2. CASE i = m + 1
    <3> DEFINE d == level + Turn(x)
    <3>1. d \in Nat /\ Depth(u, i) = d /\ u[i] = x /\ (x.type \in Boundary => d = 0)
      BY <1>2, <1>4, <1>5, <2>2
    <3> HIDE DEF d
    <3> QED BY <3>1
  <2>3. i \in 1 .. m \/ i = m + 1
    BY <1>1, <1>2
  <2> QED BY <2>1, <2>2, <2>3
<1>7. Bracketed(u, level + Turn(x))
  BY <1>2, <1>4, <1>6 DEF Bracketed
<1> QED BY <1>1, <1>2, <1>7 DEF u

\* A step of the kinds in Emits keeps the bracket invariant.
LEMMA EmitsKeepBrackets ==
    ASSUME BracketInv, Emits, ScannerTypeOK'
    PROVE  BracketInv'
<1>1. scanning = "on" /\ flow_level \in Nat /\ tokens \in Seq(Tokens) /\ Len(tokens) > 0
  BY DEF Emits, BracketInv, ScannerTypeOK
<1>2. Started(tokens) /\ Bracketed(tokens, flow_level)
  BY <1>1, BracketsByDepth DEF Started, BracketInv, StreamFramed
<1>3. ASSUME NEW t, Neutral(t), Emit(t), flow_level' = flow_level, scanning' \in {"on", "error"}
      PROVE  BracketInv'
  <2>1. Started(tokens') /\ Bracketed(tokens', flow_level')
    BY <1>1, <1>2, <1>3, NeutralContinues DEF Emit
  <2>2. BracketsAccounted'
    BY <2>1 DEF BracketsAccounted, Bracketed, Depth, CountTo
  <2> QED BY <1>3, <2>1, <2>2 DEF BracketInv, StreamFramed, Started
<1>4. ASSUME NEW t, NEW x \in Tokens, Neutral(t), Emit(t \o <<x>>), Closes(x)
      PROVE  BracketInv'
  <2> DEFINE s == tokens \o t
             u == s \o <<x>>
  <2>1. Started(s) /\ Bracketed(s, flow_level)
    BY <1>1, <1>2, <1>4, NeutralContinues
  <2>2. tokens' = u
    <3>1. t \in Seq(Tokens) /\ <<x>> \in Seq(Tokens)
      BY <1>4 DEF Neutral
    <3> QED BY <1>1, <1>4, <3>1 DEF Emit
  <2>3. /\ flow_level' = flow_level + Turn(x) /\ flow_level' \in Nat
        /\ x.type \in Boundary => flow_level = 0
        /\ x.type # "StreamStart"
        /\ x.type = "StreamEnd" => scanning' = "done"
        /\ scanning' = "done" => x.type = "StreamEnd"
    BY <1>1, <1>4 DEF Closes, Turn, NeutralTypes, FlowStarts, FlowEnds, Boundary
  <2> HIDE DEF s
  <2>4. /\ Bracketed(u, flow_level + Turn(x))
        /\ u \in Seq(Tokens) /\ Len(u) = Len(s) + 1 /\ u[Len(s) + 1] = x
        /\ \A i \in 1 .. Len(s) : u[i] = s[i]
    <3>1. flow_level + Turn(x) \in Nat
      BY <2>3
    <3> QED BY <1>1, <2>1, <2>3, <3>1, TokenContinues
  <2> HIDE DEF u
  <2>5. BracketsAccounted'
    <3>1. Bracketed(tokens', flow_level')
      BY <2>2, <2>3, <2>4
    <3> QED BY <3>1 DEF BracketsAccounted, Bracketed, Depth, CountTo
  <2>6. StreamFramed'
    <3>1. s \in Seq(Tokens) /\ Len(s) \in Nat /\ Len(s) > 0 /\ DOMAIN s = 1 .. Len(s)
      BY <2>1 DEF Started
    <3>2. \A i \in DOMAIN u : i \in 1 .. Len(s) \/ i = Len(s) + 1
      BY <2>4, <3>1
    <3>3. \A i \in DOMAIN u : u[i].type = "StreamStart" <=> i = 1
      BY <2>1, <2>3, <2>4, <3>1, <3>2 DEF Started
    <3>4. \A i \in DOMAIN u : u[i].type = "StreamEnd" => i = Len(u) /\ scanning' = "done"
      BY <2>1, <2>3, <2>4, <3>1, <3>2 DEF Started
    <3>5. scanning' = "done" => u[Len(u)].type = "StreamEnd"
      BY <2>3, <2>4
    <3> QED BY <2>2, <3>3, <3>4, <3>5 DEF StreamFramed
  <2> QED BY <2>5, <2>6 DEF BracketInv
<1> QED BY <1>3, <1>4 DEF Emits

\* A new scanner has StreamStart and no bracket.
LEMMA BracketInitInv == text \in Texts /\ ScannerInit => BracketInv
<1> SUFFICES ASSUME text \in Texts, ScannerInit PROVE BracketInv
  OBVIOUS
<1> DEFINE start == Token("StreamStart", 1, 1, 1)
<1>1. ScannerTypeOK
  BY ScannerInitInv DEF ScannerInv
<1>2. start.type = "StreamStart" /\ tokens = <<start>> /\ flow_level = 0 /\ scanning = "on"
  BY TokenTyped DEF ScannerInit, TokenTypes
<1> HIDE DEF start
<1>3. StreamFramed
  BY <1>2 DEF StreamFramed
<1>4. Depth(tokens, 1) = 0
  <2>1. Depth(tokens, 0 + 1) = Depth(tokens, 0) + Turn(tokens[0 + 1])
    BY DepthNext
  <2>2. Depth(tokens, 0) = 0
    BY CountToNone DEF Depth
  <2>3. Turn(tokens[1]) = 0
    BY <1>2 DEF Turn, FlowStarts, FlowEnds
  <2> QED BY <2>1, <2>2, <2>3
<1>5. BracketsAccounted
  <2>1. Bracketed(tokens, flow_level)
    <3>1. DOMAIN tokens = {1} /\ Len(tokens) = 1
      BY <1>2
    <3> QED BY <1>2, <1>4, <3>1 DEF Bracketed
  <2> QED BY <2>1, BracketsByDepth
<1> QED BY <1>1, <1>3, <1>5 DEF BracketInv

\* A step of the scanner keeps the bracket invariant.
LEMMA BracketStepInv == BracketInv /\ [ScannerNext]_scanner => BracketInv'
<1> SUFFICES ASSUME BracketInv, [ScannerNext]_scanner PROVE BracketInv'
  OBVIOUS
<1>1. CASE ScannerNext
  BY <1>1, StepKeeps, KeepsInvariant, StepEmits, EmitsKeepBrackets DEF BracketInv
<1>2. CASE UNCHANGED scanner
  BY <1>2 DEF BracketInv, ScannerTypeOK, BracketsAccounted, StreamFramed, scanner, position, indents
<1> QED BY <1>1, <1>2

\* Whatever the text, flow_level is the number of open brackets among the tokens, none is
\* closed that was not opened, and documents begin and end outside brackets.
THEOREM BracketsAlwaysAccounted == ScannerSpec => []BracketsAccounted
<1>1. ScannerSpec => []BracketInv
  BY BracketInitInv, BracketStepInv, PTL DEF ScannerSpec
<1> QED BY <1>1, PTL DEF BracketInv
-----------------------------------------------------------------------------
(***************************************************************************)
(* The order of the tokens.  Anchors, words and aliases are emitted where  *)
(* the scanner stands, which never moves back; some other tokens are       *)
(* emitted ahead of it, or late, at the end of the text.                   *)
(***************************************************************************)
Spots == Nat \X Nat
Named == {"Anchor", "Scalar", "Alias"}

\* Where the scanner stands.
MarkAt(l, i) == <<l, IF i = 0 THEN 1 ELSE ColumnAt(l, i)>>
Mark == MarkAt(line, index)

\* No token is beyond the place the scanner stands at.
Reached == \A i \in DOMAIN tokens : ~Before(Mark, Spot(tokens[i]))

\* No token that comes before an anchor, a word or an alias is beyond it in the text.
Sorted ==
    \A j \in DOMAIN tokens : tokens[j].type \in Named =>
        \A i \in 1 .. j - 1 : ~Before(Spot(tokens[j]), Spot(tokens[i]))

\* Tokens emitted where the scanner stands, and tokens of other types that it has reached
\* when they are emitted.
AtMark(new) == \A j \in 1 .. Len(new) : Spot(new[j]) = Mark
UpToMark(new) == \A j \in 1 .. Len(new) : new[j].type \notin Named /\ ~Before(Mark', Spot(new[j]))

Advances ==
    /\ ~Before(Mark', Mark)
    /\ \E new \in Seq(Tokens) : Emit(new) /\ (AtMark(new) \/ UpToMark(new))

\* Before is the order of places in a text.
LEMMA BeforeOrders ==
    ASSUME NEW a \in Spots, NEW b \in Spots, NEW c \in Spots
    PROVE  /\ ~Before(a, a)
           /\ ~Before(b, a) /\ ~Before(c, b) => ~Before(c, a)
BY DEF Before, Spots

\* A token's place is a place.
LEMMA SpotTyped == ASSUME NEW x \in Tokens PROVE Spot(x) \in Spots
BY DEF Spot, Spots, Tokens

\* The lexemes of a line stand in the order of their columns.
LEMMA ColumnsGrow ==
    ASSUME ScannerTypeOK, NEW l \in 1 .. Len(text), NEW i \in Nat \ {0}, NEW j \in Nat \ {0}, i <= j
    PROVE  /\ ColumnAt(l, i) \in Nat \ {0} /\ ColumnAt(l, j) \in Nat \ {0}
           /\ ColumnAt(l, i) <= ColumnAt(l, j)
<1>1. text[l].indent \in Nat /\ Slot \in Nat
  BY LineTyped, ScannerAssumption
<1>2. ASSUME NEW a \in Nat, NEW b \in Nat PROVE Slot * a \in Nat /\ Slot * (a + b) = Slot * a + Slot * b
  BY <1>1
<1>3. i - 1 \in Nat /\ j - i \in Nat /\ j - 1 = (i - 1) + (j - i)
  OBVIOUS
<1>4. /\ Slot * (i - 1) \in Nat /\ Slot * (j - i) \in Nat
      /\ Slot * (j - 1) = Slot * (i - 1) + Slot * (j - i)
  BY <1>2, <1>3
<1>5. /\ ColumnAt(l, i) = text[l].indent + 1 + Slot * (i - 1)
      /\ ColumnAt(l, j) = text[l].indent + 1 + Slot * (j - 1)
  BY DEF ColumnAt
<1> DEFINE a == Slot * (i - 1)
           b == Slot * (j - i)
           c == Slot * (j - 1)
<1>6. a \in Nat /\ b \in Nat /\ c = a + b
  BY <1>4
<1>7. ColumnAt(l, i) = text[l].indent + 1 + a /\ ColumnAt(l, j) = text[l].indent + 1 + c
  BY <1>5
<1> HIDE DEF a, b, c
<1> QED BY <1>1, <1>6, <1>7

\* A position in the text is a place.
LEMMA MarkTyped ==
    ASSUME ScannerTypeOK, NEW l, NEW i, InText(l, i)
    PROVE  MarkAt(l, i) \in Spots
<1>1. l \in Nat /\ i \in Nat
  BY DEF InText
<1>2. CASE i = 0
  BY <1>1, <1>2 DEF MarkAt, Spots
<1>3. CASE i # 0
  <2>1. l \in 1 .. Len(text) /\ i \in Nat \ {0}
    BY <1>1, <1>3 DEF InText
  <2>2. ColumnAt(l, i) \in Nat
    BY <2>1, ColumnsGrow
  <2> QED BY <1>1, <1>3, <2>2 DEF MarkAt, Spots
<1> QED BY <1>2, <1>3

\* A step that advances keeps the order.
LEMMA AdvancesKeep ==
    ASSUME ScannerTypeOK, Keeps, Reached, Sorted, Advances
    PROVE  Reached' /\ Sorted'
<1>1. PICK new \in Seq(Tokens) : Emit(new) /\ (AtMark(new) \/ UpToMark(new))
  BY DEF Advances
<1> DEFINE m == Len(tokens)
           k == Len(new)
<1>2. /\ tokens \in Seq(Tokens) /\ m \in Nat /\ k \in Nat
      /\ DOMAIN tokens = 1 .. m /\ DOMAIN tokens' = 1 .. m + k
      /\ \A i \in 1 .. m : tokens'[i] = tokens[i]
      /\ \A i \in m + 1 .. m + k : i - m \in 1 .. k /\ tokens'[i] = new[i - m]
  <2>1. tokens \in Seq(Tokens) /\ tokens' = tokens \o new
    BY <1>1 DEF ScannerTypeOK, Emit
  <2>2. /\ tokens' \in Seq(Tokens) /\ Len(tokens') = m + k
        /\ \A i \in 1 .. m + k : tokens'[i] = IF i <= m THEN tokens[i] ELSE new[i - m]
    BY <2>1, ConcatProperties
  <2> QED BY <2>1, <2>2
<1> HIDE DEF m, k
<1>3. /\ Mark \in Spots /\ Mark' \in Spots /\ ~Before(Mark', Mark)
      /\ \A i \in 1 .. m : Spot(tokens[i]) \in Spots /\ ~Before(Mark, Spot(tokens[i]))
      /\ \A j \in 1 .. k : Spot(new[j]) \in Spots
  <2>1. Mark \in Spots
    BY MarkTyped DEF Mark, InText, ScannerTypeOK
  <2>2. Mark' \in Spots
    <3>1. text' = text /\ InText(line', index')
      BY DEF Keeps
    <3>2. Mark' = MarkAt(line', index')
      BY <3>1 DEF Mark, MarkAt, ColumnAt
    <3> QED BY <3>1, <3>2, MarkTyped
  <2>3. \A i \in 1 .. m : tokens[i] \in Tokens
    BY <1>2
  <2>4. \A j \in 1 .. k : new[j] \in Tokens
    BY <1>1 DEF k
  <2> QED BY <1>2, <2>1, <2>2, <2>3, <2>4, SpotTyped DEF Reached, Advances
<1>4. \A j \in 1 .. k : ~Before(Mark', Spot(new[j]))
  BY <1>1, <1>3 DEF AtMark, UpToMark, k
<1>5. \A i \in 1 .. m : ~Before(Mark', Spot(tokens[i]))
  BY <1>3, BeforeOrders
<1>6. Reached'
  <2> SUFFICES ASSUME NEW i \in 1 .. m + k PROVE ~Before(Mark', Spot(tokens'[i]))
    <3>1. Reached' <=> \A i \in DOMAIN tokens' : ~Before(Mark', Spot(tokens'[i]))
      BY DEF Reached, Spot, Before
    <3> QED BY <1>2, <3>1
  <2>1. i \in 1 .. m \/ i \in m + 1 .. m + k
    BY <1>2
  <2> QED BY <1>2, <1>4, <1>5, <2>1
<1>7. Sorted'
  <2> SUFFICES ASSUME NEW j \in 1 .. m + k, tokens'[j].type \in Named, NEW i \in 1 .. j - 1
               PROVE  ~Before(Spot(tokens'[j]), Spot(tokens'[i]))
    <3>1. Sorted' <=> \A j \in DOMAIN tokens' : tokens'[j].type \in Named =>
                          \A i \in 1 .. j - 1 : ~Before(Spot(tokens'[j]), Spot(tokens'[i]))
      BY DEF Sorted, Spot, Before, Named
    <3> QED BY <1>2, <3>1
  <2>1. CASE j \in 1 .. m
    <3>1. i \in 1 .. m /\ tokens'[j] = tokens[j] /\ tokens'[i] = tokens[i]
      BY <1>2, <2>1
    <3> QED BY <1>2, <2>1, <3>1 DEF Sorted
  <2>2. CASE j \in m + 1 .. m + k
    <3>1. j - m \in 1 .. k /\ tokens'[j] = new[j - m]
      BY <1>2, <2>2
    <3>2. AtMark(new) /\ Spot(new[j - m]) = Mark
      BY <1>1, <3>1 DEF AtMark, UpToMark, k
    <3>3. CASE i \in 1 .. m
      BY <1>2, <1>3, <3>1, <3>2, <3>3
    <3>4. CASE i \in m + 1 .. m + k
      <4>1. i - m \in 1 .. k /\ tokens'[i] = new[i - m] /\ Spot(new[i - m]) = Mark
        BY <1>2, <3>2, <3>4 DEF AtMark, k
      <4> QED BY <1>3, <3>1, <3>2, <4>1, BeforeOrders
    <3>5. i \in 1 .. m \/ i \in m + 1 .. m + k
      BY <1>2
    <3> QED BY <3>3, <3>4, <3>5
  <2> QED BY <1>2, <2>1, <2>2
<1> QED BY <1>6, <1>7

\* A move to a lexeme further on, or to the next line.
LEMMA MovesForward ==
    ASSUME ScannerTypeOK, text' = text, NEW l \in line .. Len(text), NEW i \in Nat \ {0},
           l = line => index <= i, MoveTo(l, i)
    PROVE  ~Before(Mark', Mark)
<1>1. line \in 1 .. Len(text) /\ l \in 1 .. Len(text) /\ index \in Nat
  BY DEF ScannerTypeOK, IsText
<1>2. Mark = <<line, IF index = 0 THEN 1 ELSE ColumnAt(line, index)>>
  BY DEF Mark, MarkAt
<1>3. Mark' = <<line', IF index' = 0 THEN 1 ELSE ColumnAt(line', index')>>
  BY DEF Mark, MarkAt, ColumnAt
<1>4. CASE i <= Len(text[l].lexemes)
  <2>1. Mark' = <<l, ColumnAt(l, i)>>
    BY <1>3, <1>4 DEF MoveTo
  <2>2. ColumnAt(l, i) \in Nat \ {0}
    BY <1>1, ColumnsGrow
  <2>3. CASE l = line /\ index # 0
    <3>1. ColumnAt(line, index) \in Nat \ {0} /\ ColumnAt(line, index) <= ColumnAt(line, i)
      BY <1>1, <2>3, ColumnsGrow
    <3> QED BY <1>1, <1>2, <2>1, <2>2, <2>3, <3>1 DEF Before
  <2>4. CASE l = line /\ index = 0
    BY <1>1, <1>2, <2>1, <2>2, <2>4 DEF Before
  <2>5. CASE l # line
    BY <1>1, <1>2, <2>1, <2>5 DEF Before
  <2> QED BY <2>3, <2>4, <2>5
<1>5. CASE ~(i <= Len(text[l].lexemes))
  <2>1. line' = l + 1
    BY <1>5 DEF MoveTo
  <2> QED BY <1>1, <1>2, <1>3, <2>1 DEF Before
<1> QED BY <1>4, <1>5

\* No move, and the move to the first lexeme of a line.
LEMMA MovesLittle ==
    ASSUME ScannerTypeOK, text' = text, line' = line,
           index' = index \/ (index = 0 /\ index' = 1 /\ line \in 1 .. Len(text))
    PROVE  ~Before(Mark', Mark)
<1>1. line \in Nat
  BY DEF ScannerTypeOK
<1>2. Mark = <<line, IF index = 0 THEN 1 ELSE ColumnAt(line, index)>>
  BY DEF Mark, MarkAt
<1>3. Mark' = <<line, IF index' = 0 THEN 1 ELSE ColumnAt(line, index')>>
  BY DEF Mark, MarkAt, ColumnAt
<1>4. CASE index' = index
  <2>1. Mark' = Mark
    BY <1>2, <1>3, <1>4
  <2>2. Mark \in Spots
    BY MarkTyped DEF Mark, InText, ScannerTypeOK
  <2> QED BY <2>1, <2>2, BeforeOrders
<1>5. CASE index = 0 /\ index' = 1 /\ line \in 1 .. Len(text)
  <2>1. ColumnAt(line, 1) \in Nat \ {0}
    BY <1>5, ColumnsGrow
  <2> QED BY <1>1, <1>2, <1>3, <1>5, <2>1 DEF Before
<1> QED BY <1>4, <1>5

\* Here makes tokens where the scanner stands.
LEMMA HereAtMark ==
    ASSUME ScannerTypeOK, More, index > 0, NEW type \in TokenTypes
    PROVE  <<Here(type)>> \in Seq(Tokens) /\ AtMark(<<Here(type)>>)
<1>1. Here(type) \in Tokens
  BY HereTyped
<1>2. Spot(Here(type)) = Mark
  <2>1. index # 0
    BY DEF ScannerTypeOK
  <2> QED BY <2>1 DEF Spot, Here, Token, Mark, MarkAt, Column
<1> HIDE DEF Mark
<1> QED BY <1>1, <1>2 DEF AtMark

\* The start of a mapping stands where its first token stands.
LEMMA OpenMappingAtMark ==
    ASSUME ScannerTypeOK, More, index > 0, NEW wanted, NEW new \in Seq(Tokens), AtMark(new),
           OpenMapping(wanted, new)
    PROVE  \E all \in Seq(Tokens) : Emit(all) /\ AtMark(all)
<1>1. CASE wanted /\ StartsMapping
  <2> DEFINE start == Here("BlockMappingStart")
             all == <<start>> \o new
  <2>1. Emit(all)
    BY <1>1 DEF OpenMapping
  <2>2. start \in Tokens /\ <<start>> \in Seq(Tokens) /\ AtMark(<<start>>)
    BY HereTyped, HereAtMark DEF TokenTypes
  <2>3. Spot(start) = Mark
    BY <2>2 DEF AtMark
  <2> HIDE DEF start
  <2>4. /\ all \in Seq(Tokens) /\ Len(all) = 1 + Len(new)
        /\ \A j \in 1 .. 1 + Len(new) : all[j] = IF j = 1 THEN start ELSE new[j - 1]
    BY <2>2
  <2>5. AtMark(all)
    <3> SUFFICES ASSUME NEW j \in 1 .. Len(all) PROVE Spot(all[j]) = Mark
      BY DEF AtMark
    <3>1. CASE j = 1
      BY <2>3, <2>4, <3>1
    <3>2. CASE j # 1
      <4>1. j - 1 \in 1 .. Len(new) /\ all[j] = new[j - 1]
        BY <2>4, <3>2
      <4> QED BY <4>1 DEF AtMark
    <3> QED BY <3>1, <3>2
  <2> HIDE DEF all
  <2> QED BY <2>1, <2>4, <2>5
<1>2. CASE ~(wanted /\ StartsMapping)
  BY <1>2 DEF OpenMapping
<1> QED BY <1>1, <1>2

\* Nothing emitted.
LEMMA NothingAtMark ==
    ASSUME ScannerTypeOK, UNCHANGED tokens
    PROVE  \E new \in Seq(Tokens) : Emit(new) /\ AtMark(new)
<1>1. <<>> \in Seq(Tokens) /\ AtMark(<<>>)
  BY DEF AtMark
<1>2. Emit(<<>>)
  BY DEF Emit, ScannerTypeOK
<1> QED BY <1>1, <1>2

\* A lexeme read.
LEMMA ReadAdvances ==
    ASSUME ScannerTypeOK, More, index > 0, MoveTo(line, index + 1), text' = text,
           NEW new \in Seq(Tokens), Emit(new), AtMark(new) \/ UpToMark(new)
    PROVE  Advances
<1>1. line \in line .. Len(text) /\ index + 1 \in Nat \ {0} /\ index <= index + 1
  BY DEF ScannerTypeOK, More, IsText
<1>2. ~Before(Mark', Mark)
  BY <1>1, MovesForward
<1> QED BY <1>2 DEF Advances

\* The steps that emit nothing.
LEMMA QuietAdvances ==
    ASSUME ScannerTypeOK, MarkerInFlow \/ FlowLine \/ RefuseFlowLine \/ RefuseLexeme \/ Comment
    PROVE  Advances
<1>1. CASE MarkerInFlow \/ RefuseFlowLine \/ RefuseLexeme
  <2>1. UNCHANGED <<text, line, index, tokens>>
    BY <1>1 DEF MarkerInFlow, RefuseFlowLine, RefuseLexeme, Refuse, position
  <2> QED BY <2>1, MovesLittle, NothingAtMark DEF Advances
<1>2. CASE FlowLine
  <2>1. UNCHANGED <<text, line, tokens>> /\ index = 0 /\ index' = 1 /\ line \in 1 .. Len(text)
    BY <1>2 DEF FlowLine, Begins, More, ScannerTypeOK
  <2> QED BY <2>1, MovesLittle, NothingAtMark DEF Advances
<1>3. CASE Comment
  <2>1. UNCHANGED <<text, tokens>> /\ More /\ index > 0 /\ MoveTo(line, index + 1)
    BY <1>3 DEF Comment, Reads
  <2> QED BY <2>1, NothingAtMark, ReadAdvances
<1> QED BY <1>1, <1>2, <1>3

\* At the start of a line, tokens are of its first column.
LEMMA StartAtMark ==
    ASSUME ScannerTypeOK, line \in 1 .. Len(text), index = 0
    PROVE  /\ Mark = <<line, 1>>
           /\ \A type \in TokenTypes : /\ <<Token(type, line, 1, line)>> \in Seq(Tokens)
                                       /\ AtMark(<<Token(type, line, 1, line)>>)
           /\ \A n \in Nat : BlockEnds(n, line) \in Seq(Tokens) /\ AtMark(BlockEnds(n, line))
<1>1. line \in Nat /\ Mark = <<line, 1>>
  BY DEF Mark, MarkAt
<1>2. ASSUME NEW type \in TokenTypes
      PROVE  /\ Token(type, line, 1, line) \in Tokens
             /\ Spot(Token(type, line, 1, line)) = Mark
  <2>1. Token(type, line, 1, line) \in Tokens
    BY <1>1, TokenTyped
  <2>2. Spot(Token(type, line, 1, line)) = Mark
    BY <1>1 DEF Token, Spot
  <2> QED BY <2>1, <2>2
<1>3. ASSUME NEW type \in TokenTypes
      PROVE  <<Token(type, line, 1, line)>> \in Seq(Tokens) /\ AtMark(<<Token(type, line, 1, line)>>)
  <2> DEFINE x == Token(type, line, 1, line)
  <2>1. x \in Tokens /\ Spot(x) = Mark
    BY <1>2
  <2> HIDE DEF x
  <2>2. <<x>> \in Seq(Tokens) /\ AtMark(<<x>>)
    BY <2>1 DEF AtMark
  <2> QED BY <2>2 DEF x
<1>4. ASSUME NEW n \in Nat PROVE BlockEnds(n, line) \in Seq(Tokens) /\ AtMark(BlockEnds(n, line))
  <2> DEFINE e == Token("BlockEnd", line, 1, line)
  <2>1. e \in Tokens /\ Spot(e) = Mark
    BY <1>2 DEF TokenTypes
  <2>2. BlockEnds(n, line) = [i \in 1 .. n |-> e]
    BY DEF BlockEnds
  <2> HIDE DEF e
  <2> QED BY <2>1, <2>2 DEF AtMark
<1> QED BY <1>1, <1>3, <1>4

\* A document marker, and the ends at the start of a line.
LEMMA LineAdvances ==
    ASSUME ScannerTypeOK, Marker \/ BlockLine
    PROVE  Advances
<1>1. line \in 1 .. Len(text) /\ index = 0 /\ text' = text
  BY DEF Marker, BlockLine, Begins, More, ScannerTypeOK
<1>2. CASE Marker
  <2> DEFINE type == CASE Current[1] = "%" -> "YamlDirective"
                       [] Current[1] = "---" -> "DocumentStart"
                       [] OTHER -> "DocumentEnd"
  <2>1. type \in TokenTypes
    BY DEF TokenTypes
  <2>2. Emit(<<Token(type, line, 1, line)>>) /\ MoveTo(line, 2)
    BY <1>2 DEF Marker
  <2> HIDE DEF type
  <2>3. <<Token(type, line, 1, line)>> \in Seq(Tokens) /\ AtMark(<<Token(type, line, 1, line)>>)
    BY <1>1, <2>1, StartAtMark
  <2>4. ~Before(Mark', Mark)
    <3>1. line \in line .. Len(text) /\ 2 \in Nat \ {0} /\ index <= 2
      BY <1>1 DEF ScannerTypeOK, IsText
    <3> QED BY <1>1, <2>2, <3>1, MovesForward
  <2> QED BY <2>2, <2>3, <2>4 DEF Advances
<1>3. CASE BlockLine
  <2>1. PICK n \in Nat : Emit(BlockEnds(n, line))
    BY <1>3, BlockLineKeeps
  <2>2. line' = line /\ index' \in {index, 1}
    BY <1>3 DEF BlockLine
  <2>3. ~Before(Mark', Mark)
    BY <1>1, <2>2, MovesLittle
  <2>4. BlockEnds(n, line) \in Seq(Tokens) /\ AtMark(BlockEnds(n, line))
    BY <1>1, StartAtMark
  <2> QED BY <2>1, <2>3, <2>4 DEF Advances
<1> QED BY <1>2, <1>3

\* The lexemes that make one token, and perhaps open a mapping for it.
LEMMA IndicatorAdvances ==
    ASSUME ScannerTypeOK,
           OpenFlow \/ CloseFlow \/ Comma \/ Colon \/ QuestionMark \/ Name \/ Quoted
    PROVE  Advances
<1>1. More /\ index > 0 /\ MoveTo(line, index + 1) /\ text' = text
  BY DEF OpenFlow, CloseFlow, Comma, Colon, QuestionMark, Name, Quoted, Reads
<1>2. CASE CloseFlow \/ Comma \/ Colon
  <2>1. PICK type \in TokenTypes : Emit(<<Here(type)>>)
    <3>1. CASE CloseFlow
      <4>1. Current[index] \in {"[", "]", "{", "}"} /\ Emit(<<Here(Bracket(Current[index]))>>)
        BY <3>1 DEF CloseFlow, Reads
      <4> QED BY <4>1, BracketTyped, PlainTypes
    <3>2. CASE Comma \/ Colon
      BY <3>2 DEF Comma, Colon, TokenTypes
    <3> QED BY <1>2, <3>1, <3>2
  <2> QED BY <1>1, <2>1, HereAtMark, ReadAdvances
<1>3. CASE OpenFlow \/ QuestionMark \/ Name \/ Quoted
  <2>1. PICK type \in TokenTypes : \E wanted : OpenMapping(wanted, <<Here(type)>>)
    <3>1. CASE OpenFlow
      <4>1. /\ Current[index] \in {"[", "]", "{", "}"}
            /\ OpenMapping(KeyAhead, <<Here(Bracket(Current[index]))>>)
        BY <3>1 DEF OpenFlow, Reads
      <4> QED BY <4>1, BracketTyped, PlainTypes
    <3>2. CASE QuestionMark
      BY <3>2 DEF QuestionMark, TokenTypes
    <3>3. CASE Quoted
      BY <3>3 DEF Quoted, TokenTypes
    <3>4. CASE Name
      <4>1. Current[index] \in {"&", "!", "*"} /\ OpenMapping(KeyAhead, <<Here(NameToken(Current[index]))>>)
        BY <3>4 DEF Name, Reads
      <4> QED BY <4>1, NameTokenTyped, PlainTypes
    <3> QED BY <1>3, <3>1, <3>2, <3>3, <3>4
  <2>2. PICK all \in Seq(Tokens) : Emit(all) /\ AtMark(all)
    BY <1>1, <2>1, HereAtMark, OpenMappingAtMark
  <2> QED BY <1>1, <2>2, ReadAdvances
<1> QED BY <1>2, <1>3

\* A `- `: the sequence right behind it starts where the scanner stands after it.
LEMMA DashAdvances ==
    ASSUME ScannerTypeOK, Dash
    PROVE  Advances
<1> DEFINE nested == index < Len(Current) /\ Current[index + 1] = "-"
           start == Here("BlockSequenceStart")
           entry == Here("BlockEntry")
           inner == Token("BlockSequenceStart", line, ColumnAt(line, index + 1), line)
<1>1. PICK c : Emit((IF c THEN <<start>> ELSE <<>>) \o <<entry>> \o (IF nested THEN <<inner>> ELSE <<>>))
  BY Zenon DEF Dash
<1>2. /\ More /\ index > 0 /\ MoveTo(line, index + 1) /\ text' = text
      /\ line \in 1 .. Len(text) /\ line \in Nat /\ index \in Nat
  BY DEF Dash, Reads, More, ScannerTypeOK
<1>3. /\ start \in Tokens /\ start.type = "BlockSequenceStart" /\ Spot(start) = Mark
      /\ entry \in Tokens /\ entry.type = "BlockEntry" /\ Spot(entry) = Mark
  <2>1. "BlockSequenceStart" \in TokenTypes /\ "BlockEntry" \in TokenTypes
    BY DEF TokenTypes
  <2>2. AtMark(<<start>>) /\ AtMark(<<entry>>)
    BY <1>2, <2>1, HereAtMark
  <2> QED BY <1>2, <2>1, <2>2, HereTyped DEF AtMark
<1>4. inner \in Tokens /\ inner.type = "BlockSequenceStart" /\ Spot(inner) = <<line, ColumnAt(line, index + 1)>>
  <2>1. "BlockSequenceStart" \in TokenTypes /\ ColumnAt(line, index + 1) \in Nat
    BY <1>2, HereTyped DEF TokenTypes
  <2>2. inner \in Tokens /\ inner.type = "BlockSequenceStart"
    BY <1>2, <2>1, TokenTyped
  <2> QED BY <2>2 DEF Spot, Token
<1>5. nested => Spot(inner) = Mark'
  <2> SUFFICES ASSUME nested PROVE Spot(inner) = Mark'
    OBVIOUS
  <2>1. line' = line /\ index' = index + 1
    <3>1. index + 1 <= Len(text[line].lexemes)
      <4>1. Len(text[line].lexemes) \in Nat
        BY <1>2, LineTyped
      <4> QED BY <1>2, <4>1 DEF Current
    <3> QED BY <1>2, <3>1 DEF MoveTo
  <2> QED BY <1>2, <1>4, <2>1 DEF Mark, MarkAt, ColumnAt
<1> HIDE DEF nested, start, entry, inner
<1>6. ~Before(Mark', Mark)
  <2>1. line \in line .. Len(text) /\ index + 1 \in Nat \ {0} /\ index <= index + 1
    BY <1>2 DEF IsText, ScannerTypeOK
  <2> QED BY <1>2, <2>1, MovesForward
<1>7. nested => ~Before(Spot(inner), Spot(inner))
  <2>1. Spot(inner) \in Spots
    BY <1>4, SpotTyped
  <2> QED BY <2>1, BeforeOrders
<1> DEFINE new == (IF c THEN <<start>> ELSE <<>>) \o <<entry>> \o (IF nested THEN <<inner>> ELSE <<>>)
<1>8. new \in Seq(Tokens) /\ \A j \in 1 .. Len(new) : new[j] \in {start, entry} \/ (nested /\ new[j] = inner)
  <2> DEFINE S == {x \in {start, entry, inner} : x = inner => nested \/ x = start \/ x = entry}
             first == IF c THEN <<start>> ELSE <<>>
             second == IF nested THEN <<inner>> ELSE <<>>
  <2>1. <<start>> \in Seq(S) /\ <<entry>> \in Seq(S) /\ <<>> \in Seq(S)
    OBVIOUS
  <2>2. first \in Seq(S)
    BY <2>1
  <2>3. second \in Seq(S)
    <3>1. CASE nested
      BY <3>1
    <3>2. CASE ~nested
      BY <2>1, <3>2
    <3> QED BY <3>1, <3>2
  <2>4. S \in SUBSET Tokens
    BY <1>3, <1>4
  <2>5. \A x \in S : x \in {start, entry} \/ (nested /\ x = inner)
    OBVIOUS
  <2> HIDE DEF S, first, second
  <2>6. (first \o <<entry>>) \o second \in Seq(S)
    BY <2>1, <2>2, <2>3
  <2>7. new = first \o <<entry>> \o second
    BY DEF first, second
  <2> HIDE DEF new
  <2>8. new \in Seq(S)
    BY <2>6, <2>7
  <2> QED BY <2>4, <2>5, <2>8
<1> HIDE DEF new
<1>9. UpToMark(new)
  <2> SUFFICES ASSUME NEW j \in 1 .. Len(new)
               PROVE  new[j].type \notin Named /\ ~Before(Mark', Spot(new[j]))
    BY DEF UpToMark
  <2> QED BY <1>3, <1>4, <1>5, <1>6, <1>7, <1>8 DEF Named
<1> QED BY <1>1, <1>2, <1>8, <1>9, ReadAdvances DEF new

\* A plain scalar: one token, where it starts; the scanner stands behind its end.
LEMMA PlainScalarAdvances ==
    ASSUME ScannerTypeOK, PlainScalar
    PROVE  Advances
<1> DEFINE wanted == InBlock /\ MappingAhead
           end == ScalarEnd(wanted /\ StartsMapping)
           scalar == Token("Scalar", line, Column, end.line)
<1>1. More /\ index > 0 /\ line \in 1 .. Len(text) /\ text' = text
  BY DEF PlainScalar, Reads, More, ScannerTypeOK
<1>2. \/ OpenMapping(wanted, <<>>) /\ UNCHANGED position
      \/ OpenMapping(wanted, <<scalar>>) /\ MoveTo(end.line, end.index)
  BY Zenon DEF PlainScalar
<1>3. /\ end.line \in line .. Len(text) /\ end.index \in Nat \ {0}
      /\ end.line \in Nat
      /\ end.line = line => index <= end.index
  BY <1>1, ScalarEndTyped
<1> HIDE DEF wanted, end
<1>4. CASE OpenMapping(wanted, <<>>) /\ UNCHANGED position
  <2>1. <<>> \in Seq(Tokens) /\ AtMark(<<>>)
    BY DEF AtMark
  <2>2. PICK all \in Seq(Tokens) : Emit(all) /\ AtMark(all)
    BY <1>1, <1>4, <2>1, OpenMappingAtMark
  <2>3. ~Before(Mark', Mark)
    BY <1>1, <1>4, MovesLittle DEF position
  <2> QED BY <2>2, <2>3 DEF Advances
<1>5. CASE OpenMapping(wanted, <<scalar>>) /\ MoveTo(end.line, end.index)
  <2>1. scalar \in Tokens /\ Spot(scalar) = Mark
    <3>1. line \in Nat /\ Column \in Nat /\ "Scalar" \in TokenTypes /\ index # 0
      BY <1>1, HereTyped DEF TokenTypes, ScannerTypeOK
    <3>2. scalar \in Tokens
      BY <1>3, <3>1, TokenTyped
    <3> QED BY <3>1, <3>2 DEF Spot, Token, Mark, MarkAt, Column
  <2> HIDE DEF scalar
  <2>2. <<scalar>> \in Seq(Tokens) /\ AtMark(<<scalar>>)
    BY <2>1 DEF AtMark
  <2>3. PICK all \in Seq(Tokens) : Emit(all) /\ AtMark(all)
    BY <1>1, <1>5, <2>2, OpenMappingAtMark
  <2>4. ~Before(Mark', Mark)
    BY <1>1, <1>3, <1>5, MovesForward
  <2> QED BY <2>3, <2>4 DEF Advances
<1> QED BY <1>2, <1>4, <1>5

\* The end of the text: its tokens are not in order, but no words or anchors.
LEMMA EndOfInputAdvances ==
    ASSUME ScannerTypeOK, EndOfInput
    PROVE  Advances
<1> DEFINE open == Len(compact_sequence_indents) + Len(indent_stack) - 1
           at == Len(text)
           e == Token("BlockEnd", at, 1, at)
           x == Token("StreamEnd", at, 1, at)
           new == BlockEnds(open, at) \o <<x>>
<1>1. /\ text' = text /\ line' = line /\ index' = index /\ Emit(new)
      /\ line = at + 1 /\ index = 0 /\ at \in Nat
  BY DEF EndOfInput, position, ScannerTypeOK, IsText
<1>2. open \in Nat
  <2>1. Len(compact_sequence_indents) \in Nat /\ Len(indent_stack) \in Nat \ {0}
    BY DEF ScannerTypeOK
  <2> QED BY <2>1
<1>3. Mark' = <<at + 1, 1>>
  BY <1>1 DEF Mark, MarkAt
<1>4. /\ e \in Tokens /\ e.type = "BlockEnd" /\ Spot(e) = <<at, 1>>
      /\ x \in Tokens /\ x.type = "StreamEnd" /\ Spot(x) = <<at, 1>>
  BY <1>1, TokenTyped DEF Token, TokenTypes, Spot
<1>5. BlockEnds(open, at) = [i \in 1 .. open |-> e]
  BY DEF BlockEnds
<1>6. ~Before(<<at + 1, 1>>, <<at, 1>>)
  BY <1>1 DEF Before
<1>7. ~Before(Mark', Mark)
  BY <1>1, MovesLittle
<1> HIDE DEF e, x, open, at
<1>8. new \in Seq({e, x})
  <2>1. BlockEnds(open, at) \in Seq({e, x}) /\ <<x>> \in Seq({e, x})
    BY <1>2, <1>5
  <2> QED BY <2>1
<1> HIDE DEF new
<1>9. UpToMark(new) /\ new \in Seq(Tokens)
  BY <1>3, <1>4, <1>6, <1>8 DEF UpToMark, Named
<1> QED BY <1>1, <1>7, <1>9 DEF Advances

\* Every step of the scanner advances.
LEMMA StepAdvances ==
    ASSUME ScannerTypeOK, ScannerNext
    PROVE  Advances
<1>1. CASE MarkerInFlow \/ FlowLine \/ RefuseFlowLine \/ RefuseLexeme \/ Comment
  BY <1>1, QuietAdvances
<1>2. CASE Marker \/ BlockLine
  BY <1>2, LineAdvances
<1>3. CASE OpenFlow \/ CloseFlow \/ Comma \/ Colon \/ QuestionMark \/ Name \/ Quoted
  BY <1>3, IndicatorAdvances
<1>4. CASE Dash
  BY <1>4, DashAdvances
<1>5. CASE PlainScalar
  BY <1>5, PlainScalarAdvances
<1>6. CASE EndOfInput
  BY <1>6, EndOfInputAdvances
<1> QED BY <1>1, <1>2, <1>3, <1>4, <1>5, <1>6 DEF ScannerNext

OrderInv == ScannerTypeOK /\ Reached /\ Sorted

\* A new scanner stands at its first token.
LEMMA OrderInitInv == text \in Texts /\ ScannerInit => OrderInv
<1> SUFFICES ASSUME text \in Texts, ScannerInit PROVE OrderInv
  OBVIOUS
<1> DEFINE start == Token("StreamStart", 1, 1, 1)
<1>1. ScannerTypeOK
  BY ScannerInitInv DEF ScannerInv
<1>2. tokens = <<start>> /\ Spot(start) = <<1, 1>> /\ Mark = <<1, 1>>
  BY DEF ScannerInit, Mark, MarkAt, Spot, Token
<1>3. ~Before(<<1, 1>>, <<1, 1>>)
  BY DEF Before
<1> HIDE DEF start
<1>4. DOMAIN tokens = {1} /\ tokens[1] = start
  BY <1>2
<1> QED BY <1>1, <1>2, <1>3, <1>4 DEF OrderInv, Reached, Sorted

\* A step of the scanner keeps the order.
LEMMA OrderStepInv == OrderInv /\ [ScannerNext]_scanner => OrderInv'
<1> SUFFICES ASSUME OrderInv, [ScannerNext]_scanner PROVE OrderInv'
  OBVIOUS
<1>1. CASE ScannerNext
  BY <1>1, StepKeeps, KeepsInvariant, StepAdvances, AdvancesKeep DEF OrderInv
<1>2. CASE UNCHANGED scanner
  BY <1>2 DEF OrderInv, ScannerTypeOK, Reached, Sorted, Mark, MarkAt, ColumnAt, scanner, position, indents
<1> QED BY <1>1, <1>2

\* Whatever the text, the anchors, words and aliases of the scanner's output stand in the
\* order of the text, and no token of another type before one of them is beyond it.
THEOREM TokensAlwaysSorted == ScannerSpec => []Sorted
<1>1. ScannerSpec => []OrderInv
  BY OrderInitInv, OrderStepInv, PTL DEF ScannerSpec
<1> QED BY <1>1, PTL DEF OrderInv
=============================================================================
