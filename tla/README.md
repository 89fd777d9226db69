# rust-yaml in TLA+

TLA+ models of rust-yaml, TLC runs that check them on small instances, and
proofs for the TLA+ proof system (TLAPS) that hold for every instance. Paths
such as `src/composer.rs` are paths of the repository.

## 1. The system

A load is a pipeline that is pulled from its end:

    text -> scanner -> tokens -> parser -> events -> composer -> values -> constructor -> caller

Everything runs on the caller's thread (only `streaming_async.rs` yields). The way
back, `dump`, is one call of the emitter for each document. The streaming parsers
and the three other composers stand beside this pipeline and share its
interfaces. There is no shared state between threads and nothing is persisted.
What makes the system hard is the protocol between stages: every stage buffers,
looks ahead, and keeps state across calls, documents and errors, and two ways of
driving the first stages (eager and lazy) show different things through the same
interface.

| component | state it keeps | operations | hard behaviour | correct when |
|---|---|---|---|---|
| `Yaml` (`yaml.rs`) | configuration | `load`, `load_all`, `dump`, `dump_with_comments`, `dump_all` | stops at the first `None` | every document of the stream is returned, or an error |
| `SafeConstructor` (`constructor.rs`) | the composer | `construct`, `check_data`, validation, safety rules | delegates to the composer and refuses afterwards | as above |
| `BasicComposer` (`composer.rs`) | anchors, tracker, alias stack, depth, version | `check_document`, `compose_document`, `compose_node` (recursive), `compose_sequence`, `compose_mapping`, `process_merge_key`, alias arm, `reset` | early `?` returns in the middle of bookkeeping; loops that peek what may not be there; anchors across documents | the value is the one the events denote; budgets hold across calls, errors and `reset` |
| limits (`limits.rs`) | counters | charge and compare | counters stay raised after a refusal and across documents | nothing is built that was not charged |
| `BasicParser` (`parser/mod.rs`) | events, cursor, state stack, pending anchor and tag, tokens | `check_event`, `peek_event`, `get_event`, `process_token` | eager and lazy generation; events inserted behind the fact; block collections closed by hand at document boundaries | events are balanced, one root node per document |
| `BasicScanner` (`scanner/mod.rs`) | position, tokens, indentation stack, flow level, simple keys | `check_token`, `peek_token`, `get_token`, `scan_all_tokens` | indentation, look-ahead for mappings, tabs, flow context | closing tokens match opening tokens |
| resolver, versions | none that lasts | look-ups | the meaning of a scalar depends on the version of the document | the version in force is the document's own |
| emitter (`emitter.rs`) | indentation, shared values and their anchors, the writer | `emit`, `emit_commented`, `emit_with_style`, `emit_commented_value_public`, `analyze_shared_values` | anchors are numbered in hash order; a write that fails leaves its state behind; `yaml.rs` puts documents one after the other | what is written can be loaded and is the same value |
| `StreamingYamlParser` (`streaming_enhanced.rs`) | buffer, queue of events, state, context | `next` of the iterator, `parse_next` | a chunk may end in the middle of anything; the buffer is drained as it is parsed | what is delivered is every piece of the text once and in order; iteration ends |
| `AsyncStreamingParser` (`streaming_async.rs`) | buffer, queue, state | `poll_next`, `parse_next`, `process_yaml_stream` | a last line without its end; two ways of telling that it is over | as above, and polling ends |
| `StreamingParser` (`parser/streaming.rs`) with `ZeroScanner` (`zerocopy.rs`) | batch of events, stack of states, depth | `get_event`, `next_batch` | events are made ahead in batches, the depth is looked at in between | nothing twice, depth counts the open collections |
| `MmapYamlReader` (`streaming_async.rs`) | position in a mapped file | `try_read_chunk`, `read_chunk`, `reset` | a chunk must not end inside a character; an error must not move the position | the chunks are the file |
| alternative composers (`composer_optimized.rs`, `composer_borrowed.rs`, `composer_comments.rs`) | those of the composer, reduced | those of the composer | drift from the basic composer; lazily made events | same values as the basic composer |
| representer, serializer, tags and schemas, serde, zero-copy values | none that lasts | conversions, look-ups | none of protocol | |

`PROJECT.json` lists the components with their status and, under `hazards`, the
places of this code that tests hardly reach, each with the properties that
cover it or the reason why none does yet.

## 2. Modules

| module | what it is | code |
|---|---|---|
| `Values` | values as labelled trees; complexity and depth; key insertion | `value.rs`, helpers of `composer.rs` |
| `Limits` | the limits and the tracker | `limits.rs` |
| `EventStream` | the parser as its user sees it: a cursor over a stream that is generated while it is read, eagerly or lazily, with errors | the `Parser` interface in `parser/mod.rs` |
| `Composer` | the composer and its callers as a state machine; type invariant and first safety properties | `composer.rs`, `yaml.rs`, `constructor.rs` |
| `ComposerMC` | what only TLC evaluates: recursive definitions of the measures, liveness, a statement of section 6 | |
| `ComposerState` | the fields and helpers that the three other composers share | `composer_*.rs` |
| `OptimizedComposer`, `BorrowedComposer`, `CommentComposer` | `ReducedAllocComposer`, `ZeroCopyComposer`, `CommentPreservingComposer` | `composer_optimized.rs`, `composer_borrowed.rs`, `composer_comments.rs` |
| `DenotationMC` | an independent evaluator of event streams, and all four composers compared with it | |
| `Scanner` | from lines of lexemes to tokens: indentation, look-ahead for keys, flow level, markers, quotes, comments | `scanner/mod.rs` and its helpers |
| `Parser` | from tokens to events: one action per token type, over the events made so far | `process_token` and its helpers in `parser/mod.rs` |
| `FrontEnd` | scanner, parser and the consumer that calls `get_event`, with the eager or the lazy driver between them | `parser/mod.rs` |
| `TextsMC` | the front end on every small text of an alphabet | |
| `TreesMC` | the front end on texts written down from trees, compared with the trees | |
| `Emitter` | from a value to the lines of a text, on a writer that may fail | `emitter.rs` |
| `DumpMC` | a caller that dumps, and the front end that loads what it has written | `yaml.rs`, `emitter.rs` |
| `ChunkParser`, `LineParser`, `BatchParser` | the streaming parsers by chunks, by lines and by batches | `streaming_enhanced.rs`, `streaming_async.rs`, `parser/streaming.rs` with `zerocopy.rs` |
| `MmapReader` | the reader of mapped files over the bytes of a file | `streaming_async.rs` |
| `Streams` | the four of them side by side: cases of a text and how it is read, and the properties they share | |
| `StreamsMC` | the small texts and files on which they are run | |
| `ValuesProofs`, `EventStreamProofs`, `ComposerProofs` | theorems about the composer and their proofs | |
| `CollectionProofs`, `FoldProofs` | lemmas on `Min`, `Max`, counts of the members of a sequence, `FlattenSeq`, and on `FoldLeft` with any operator | |
| `ScannerProofs`, `ParserProofs` | theorems about the scanner, and about scanner and parser together | |
| `StreamProofs` | theorems about the streaming parsers and the mapped reader | |

### Values and events

A value is a function from paths to labels; `<<>>` is the root and child `i` of
the node at `p` is at `p \o <<i>>`. Sequences are labelled `SEQ`, mappings `MAP`
(children: key, value, key, value, in insertion order), anything else is a
scalar. Recursion over values becomes quantification over paths, so that the
same definitions serve TLC and TLAPS. Contents of scalars are members of a
small set; the ones that the composer treats specially are kept: `<<`, the empty
scalar, `=`, and `yes` for all booleans of YAML 1.1. Tags appear where they
change control: `BadScalars` are contents that `apply_tag` refuses.

`EventStream` generates its stream one event at a time. As long as no error has
passed (`~broken`) the events follow the grammar the parser is meant to
produce: balanced, one root per document, values for keys, aliases only to
known anchors. This grammar is the *assumption* the composer makes about the
parser. After an error the parser has lost a token and may emit anything, so
anything follows. `cached` says whether the event at the cursor has been
generated: `peek_event` sees nothing else, which is the difference between the
lazy and the eager parser that the composer's loops feel.

### The composer's state machine

| model | code |
|---|---|
| `frames` | the recursion of `compose_sequence` and `compose_mapping`: items so far, anchor, key waiting for its value |
| `pc` | `"header"`, `"footer"`: the loops of `compose_document`; `"node"`: before a `compose_node` in a loop; `"again"`: `compose_node` calling itself after a boundary event; `"return"`: a node has returned `result`; `"merge"`: inside `process_merge_key`; `"idle"`: outside all calls |
| `anchors`, `tracker`, `alias_expansion_stack`, `current_depth`, `yaml_version` | the fields of the same names |
| `docs`, `outcome`, `calls` | what the client has, whether its call is over, how many calls it has made |
| `failed`, `materialized` | history: an error since the last `reset`; nodes cloned through aliases since then |

One action is one arm of `compose_node`, one iteration of a loop or one return;
an error is the action `Fail` inside the arm that raises it, which drops all
frames and leaves every field as it is at that point, as `?` does. `Callers`
holds the callers: `"load"`, `"load_all"` (both through `SafeConstructor`, whose
size checks follow every composition), and `"direct"`, one that holds the
composer and calls `compose_document` and `reset` in any order, also after
errors.

### The other composers

They are written as recursive operators from a composer to a composer, one for
each method, which keep what the method returns in `value` and an error in
`failed`. They run over the finished stream that a `load_all` of the state
machine has consumed (`trace` in `DenotationMC`), so that every stream on which
the basic composer is checked is also theirs. What is left of laziness is which
events `peek_event` shows: `visible`. An event made from the token of the event
before it may be there already, all others are not; the runs try every choice
by kind of event.

### Texts, tokens, events

A text is a sequence of lines, a line an indentation and a sequence of lexemes:
the indicators, and classes of text (`"s"` a plain word, `"q"` a quoted one, `"&"`
an anchor, `"*"` an alias, `"!"` a tag, `"%"` a %YAML directive, `"#"` a comment,
`"#:"` one with a colon in it). A lexeme fills `Slot` columns with its blanks, so
that the columns the code compares (indentations, "same line", "before the key")
come out without counting characters; `Slot > 3` keeps an indentation of 2 or 3
between two of them. All anchors are one name: which name it is, the front end
only asks to refuse an alias before any anchor.

`Scanner` has the code's fields (`indent_stack`, `compact_sequence_indents`,
`current_indent`, `flow_level`, `tokens`) and one action per arm of the scan
loop; what the code finds by walking its tokens backwards or its input forwards
(`check_active_mapping_at_level`, the look-aheads for `:`) are operators over
`tokens` and `text`. `Parser` keeps the fields of `BasicParser` in one record,
`parser`, since almost every arm touches many of them, and has one action per
token type, with the state stack, the pending properties and the events
inserted behind the fact. Helpers that walk the events backwards to find out
what is open are folds over the events.

`FrontEnd` puts a consumer behind them. The eager driver scans and parses all
before the first event is asked for; the lazy one processes a token only when
`get_event` is out of events, and then scans the rest of the text at once. An
error ends the behaviour; what a parser yields after an error is what
`EventStream` leaves arbitrary. `Grammatical` ties the two halves together:
what the front end delivers is read as a stream of `EventStream` (`INSTANCE ...
WITH`), the grammar on which the composer's properties rest.

### Dumping

An emitter is the record of the struct's fields and of the writer of the current
call. A method is an operator from an emitter to an emitter; every write may be
refused (`room`), after which nothing more happens, as with `?`: indentation and
shared values stay as they are at that point. The order in which a `HashMap`
yields the shared values is chosen by the step that makes the call. What is
written are lines of lexemes with their contents, so that `DumpMC` can give the
same text to `Scanner` and `Parser` and then put contents back on the events. One
step of the default indentation is one `Slot`.

The methods of the trait begin with a `reset`. `emit_commented_value_public`, which
`dump_with_comments` calls on a new emitter, does not, and looks for no shared
values; on an emitter that has been used it finds the indentation and the shared
values that the last call has left, and it is the only way to a shared value as a
root (`emit_value`, `emit_mapping_with_anchor`). `call` says how the text was
written, and `call.stale` whether such leftovers have to do with it.

### Streams

The streaming parsers are models over characters: where a chunk ends matters to
the character. Each event carries the first and the last position it was made
of, which is history the code does not keep and the properties are about. An
action is one pass of the loop of `parse_document_content`, one line, or one
batch; the reader hands over the next chunk or line between them. `MmapReader`
has bytes by what UTF-8 makes of them: a continuation, an invalid one, or the
first of a character of 1 to 3 bytes.

`Streams` puts them beside one another. `ChunkCases`, `LineCases` and `BatchCases` are
sets of texts, each with the option its parser is made with (the chunk size; polled
or called back; characters or tokens, ahead in batches or not), and `Files` is the
set of mapped files. `CasesAssumption` asks only that they are sequences, with options
of their types; `BatchAssumption` that the thresholds are natural numbers.

## 3. Runs

| run | instance | shows |
|---|---|---|
| `load` | four families of streams: all small ones (`load_all`, two documents, two versions, an anchor, four nodes); those with `<<` and refused scalars on any place; those that an error of scanner or parser cuts (`load`); merging ones (two anchored mappings sharing keys, then a third mapping) | `DocumentsDenoteEvents`: a successful load returns for every document what its events denote, merge precedence included; `EveryDocumentOnce`: a successful `load_all` has read its stream to the end and returns a value for each document that begins in it; `DocumentsCharged`: what is returned was charged; `MeasuresAgree`: the closed forms of the model are what the work lists compute; `OptimizedAgrees`, `BorrowedAgrees`, `CommentedAgrees`: the other composers return the same, with and without `reset` in between; `OthersWithinLimits`: with tight limits they clone no more than allowed and leave no bookkeeping behind; `Terminates`: the call returns, whatever the events |
| `direct` | a caller of the composer: lazy parser with one document of four nodes, eager parser with two documents of three nodes, one fault, three calls, all limits 1 to 4 | `TypeOK`, `DepthAccounting`, `TrackingClean`, `AliasBudget`, `CallsReturn` across failed calls, `reset`, and the arbitrary events after a fault |
| `texts` | every text over the alphabets block (two lines of three lexemes of words, `-`, `:`, `?`, `---`, anchors, aliases), flow (words, `:`, `[`, `]`, `,`, `?`), markers (three lines of two lexemes of words, `:`, `[`, anchors, `---`, `...`, `%YAML`) and comments (words, quoted words, `-`, `:`, `#`) | `IndentsAccounted`: the blocks open in the tokens are the entries of the two stacks; `BracketsAccounted`: `flow_level` is what the tokens have open, never less than nothing, and nothing at a document marker; `WordsInOrder`; `AnchorsMeetNodes`; `Balanced`: of what is accepted, every collection ends by the end of its own kind; `DocumentsFramed`: no node outside a document, no document in another; `EagerDeliversOnce`: the insertions of the parser never come behind the consumer; `TypeOK` |
| `trees` | texts of all trees of two levels of collections, two wide, with words, quoted words, empty nodes, aliases and properties, in block, compact, `? key` and flow style; chains of four levels; pairs of documents with all mixtures of directives and markers; the same with a comment on and above each line | `RoundTrip`: eager and lazy, the tree comes back; `Grammatical` |
| `dump` | values of up to three levels, parts shared and not, with every order of the anchors, with and without anchors, version and comments, by each of the four methods of an emitter, after at most one call that failed at any of its writes or succeeded, and by `dump_all` on pairs | `DumpLoads`: the text loads and is the same values, but for stale texts of `emit_commented_value_public`, and with another style but for mappings of several lines behind a dash; `SharedWrittenOnce`: of equal collections only the first is written out, by the three methods of the trait |
| `streams` | texts of up to four or five pieces (words, blanks, line ends, dashes, colons, brackets, names, quotes, block scalars, markers), in parts of chunks of 2, every read as short as it likes, and in whole chunks of 3 and 5 (whole ones of 2 to 8 with colons, of 8 for flow), lines polled and called back, batches of characters and of tokens; files of up to five bytes with sizes 0 to 3 | `SpansInOrder`: no character is parsed twice or out of order; `NothingLost`: by chunks and lines, no letter is drained without an event but those of `Dropped`; `Framed`, `AnchorsStay`: documents do not nest and their context ends with them; `DepthCounts`; `CompleteAtEnd`; `ReadsFile`, `NeverSplits`; `ReadingEnds`: reading chunks and lines ends; `TypeOK` |

`alias_stack_leak`, `lazy_insert`, `nested`, `comments`, `indentation` and
`quoted` expect a violation (section 6).

### Bounds

The bounds are chosen by what has to fit. Aliases of aliases need three nodes
(`[&a [s], *a, ...]` and a fourth for the second alias); the cumulative
counters need two documents; `reset` after an error and a call behind it need
three calls; a stale expansion stack needs an alias refused in one call and the
same alias in the next. A limit of 1 or 2 lies between the first and the last
step of every such story. Merge precedence needs two sources with a common key
and an explicit key on either side, seven nodes that `MergingStreams` fixes so
that the bound on free nodes stays small. In `load` the limits of the basic
composer are out of reach, refusing is the question of `direct`; the other
composers run a second time there with limits of 1 and 2.

For the front end, three lexemes are a key and a value, a dash in a dash, a
question mark before a key; two lines are the least on which an indentation
opens or closes anything, and the indentations are below, between and at the
column of a second lexeme. Three lines are a document, a marker and what comes
behind. Deeper interplay (a compact sequence in a mapping in a sequence, and
what each closes) does not fit such texts; that is what `trees` is for, where
only texts that mean something are written, but up to four levels deep. The two
instances answer different questions: what is guaranteed of any text, and what
is understood of a good one. `texts` is eager, since the two drivers take the
same steps over the same tokens; what the consumer of the lazy one is given is
the question of `trees` and of `lazy_insert`.

For `dump`, a third level is the least on which an indentation is both taken and
given back around a sibling. `Room = 40` is more than any text needs; the call
before (`MaxEarlier = 1`), on one of a few values (`FewValues`: those that share parts,
and those that hold the same parts in other places), fails at any of its writes or
goes through. One such call is enough for the methods of the trait, whose `reset`
clears what it has left but for the style; of `emit_commented_value_public` longer
histories are not run.
`Styles` are the default and twice as much.

`Balanced` has a precondition (no `-` or `---` in the text), and `AnchorsMeetNodes`
lets an anchor at the end of a document pass the marker to the next one, for the
reasons in section 6.

For `streams`, parts of chunks of 2 are one or two characters in any mixture: they
cut everywhere, at uneven distances, as a reader may that gives less than it is asked
for; whole chunks of 3 and 5 leave every piece whole at least once. Texts with colons
and with flow collections come in whole chunks only, where it can be told which ones
a loop does not end on. The thresholds of the code are scaled down:
`LongBuffer` is 3 for a buffer of 100 characters, `BatchSize`, `TokenBatch` and
`TargetSize` are 2 for 16 characters, 4 tokens and 8 events, `MaxNesting` is 1:
they only decide how often a loop stops, and 2 is enough to stop within a token,
between two and behind the last. A character has one byte in the model of chunks.
Texts on which a loop does not end are left out by name (`ColonsKept`,
`BracketsClosed`, `EndsInDocument`); section 6 lists them.

`CHECK_DEADLOCK` is not switched off anywhere. For the composer the state in
which the caller is through is the explicit step `Terminated`, for the streams
`Stop`. For the front end a behaviour can only end in `answer`, which requires an
error or the end of the stream: no deadlock means that every text is either
refused or accepted, and none is left with a token no arm handles.

### Fairness

`WF(Next)` for the composer (`WF(TraceNext)` in `load`): the program keeps
running. A call is a sequential computation which never waits, so that some
enabled step is always taken; nothing is assumed about which. Liveness
(`Terminates`, `CallsReturn`) then says that every cycle of the code's loops
consumes an event. A direct caller may still stop calling; `CallsReturn` speaks
of calls that have begun.

`WF(Reading)` for chunks and lines: a consumer that iterates goes on until it is
told to stop, as the loops of `process_yaml_stream` and of any `for` do.
`ReadingEnds` then says that every pass of the inner loops drains the buffer. It is
about chunks and lines only, and not about the texts on which it fails: colons that
begin a buffer, brackets that nothing closes, and for `process_yaml_stream` every
text that does not end in an open document at the end of a line (section 6). For
batches, for the mapped reader and for the front end no fairness is stated:
evaluating ENABLED for their actions is too expensive for TLC. Their positions only
advance, and no deadlock says that none of them gets stuck; that the consumers of
batches, of `check_event` or of `next_batch`, come to an end is not checked.

## 4. Proofs

`ComposerProofs` proves, for all limits, names, scalars, versions, clients,
stream bounds and for both parsers (no finiteness of anything is assumed but
the assumptions `LimitsAssumption`, `StreamAssumption`, `ComposerAssumption`,
which TLC evaluates on every run):

* `TypeCorrect`: `Spec => []TypeOK`
* `AliasBudgetHolds`: `Spec => []AliasBudget`
* `DepthAccounted`: `Spec => []DepthAccounting`
* `TrackingStaysClean`: `Spec => []TrackingClean`
* `EveryDocumentRead`: `Spec => []EveryDocumentOnce`
* `EverythingCharged`: `Spec => []DocumentsCharged`

The first four follow from one inductive invariant,

    IInv == TypeOK /\ DepthCovers /\ Charged /\ AliasBudget /\ DepthAccounting /\ TrackingClean

* `Charged` (`materialized <= tracker.total_alias_nodes`) is why the budget
  holds: the charge comes before the clone, is never taken back, and a value of
  `n` nodes is charged `2n - 1 >= n` (lemma `ComplexityCoversNodes`; it needs the
  value to be a non-empty finite tree, hence the trees in `TypeOK`).
* `DepthCovers` (`current_depth >= Len(frames)`) keeps `current_depth` from going
  below zero after an error, when `DepthAccounting` says nothing any more.
* `TypeOK` says that every value is a tree whatever the events were. Its proof
  uses the lemmas of `ValuesProofs` (building a node from trees, and taking a
  child or inserting an entry, give trees again) and of `EventStreamProofs`
  (consuming an event gives a parser again).

There is one lemma for each group of actions of `Next` (`CallTyped`,
`FrameTyped`, `NodeTyped`, `ReturningTyped`), with one step per action; the other
conjuncts only depend on what a step does to the counters, which `StepEffects`
states once for all actions.

`EveryDocumentRead` needs to know where in the grammar of the stream the composer is,
which no field of it says. `LoadInv` adds to `IInv`, for a `load_all` with an eager
parser that no error has passed:

* `Intact(parser)`: every event is shown by `peek_event` and fits the constructs that
  are open before it (`LegalExpected`, `IntactFollowers`).
* `Aligned`: the constructs the parser has open are those of the collections under
  construction (`Mirror(frames)`), or these with one node completed while a value is
  on its way to its collection. `MirrorPush`, `MirrorPop`, `MirrorServe` and `MirrorKeeps`
  are the steps of that correspondence.
* `Len(docs) + parser.documents + Unfinished = MaxDocuments`: a document that has
  begun is with the client or under construction.

So no loop and no node meets an event of another construct (`NextFits`,
`NothingMissing`: `NoNode` and `ReturnNone` cannot be taken), the loop behind the node
consumes the `DocumentEnd`, and a `None` comes only at the end of the stream. An
error of eager parsing is `Unreported` until the first call takes it. The hypothesis that
the parser is eager and unbroken is what the code needs: a lazy parser hides documents
from `check_document`, and of a text the scanner refuses there are no events (section 6).

`EverythingCharged` counts the nodes that are on their way to the client. `ChargeInv` says
that the documents together with what is `Held` have at most as many nodes below their
roots as `complexity_score`. Held are the entries and the pending key of every open
collection (`OpenNodes`), the value just returned (`Inner`), and the paths of a merged
value that `process_merge_key` has not passed (`Unmerged`). A step `Pays` when what is
held grows by no more than what it charges:

* an element or an entry is charged for the roots that come under a parent, everything
  below them is held already (`AddItemPays`); that `IndexMap::insert` replaces one value
  at most needs the keys of a mapping to differ (`EntriesApart`, `InsertCounts`);
* an accepted alias is charged more than its copy holds (`AliasScore`);
* a merge charges nothing. Each entry it inserts is made of paths that were not passed
  before and are passed now (`EntryCounts`, for a mapping and for a sequence of
  mappings), so a merge never inserts more than its source was charged for.

A direct caller is left out: its `reset` forgets the score and not the documents.

`StreamProofs` proves of the streaming parsers, for every text of any characters, every
chunk size (0 included) and every number of characters a read gives of a chunk, every
batch size and nesting limit, and for both ways to read lines and batches:

* `StreamsTypeOK`: `Spec => []TypeOK`; `taken <= read <= Len(text)`, and every event is
  of characters of the text
* `StreamsInOrder`: `Spec => []SpansInOrder`
* `StreamsLoseNothing`: `Spec => []NothingLost`. What may be missing is a predicate of
  the text (`Dropped`). For chunks: what stands behind `#` up to the end of the line, behind
  `[` or `{` up to the first `]` or `}`, behind `&` up to the end of the name. For lines: a
  line without a colon, and one that begins with `#`, behind blanks or the dots of an end
  marker. A sign inside a word or quotes counts as well, although the code keeps
  what is there; what stands on later lines and behind the closing bracket is covered
* `StreamsAreFramed`: `Spec => []Framed`
* `StreamsKeepAnchors`: `Spec => []AnchorsStay`
* `BatchDepthCounts`: `Spec => []DepthCounts`
* `LinesCompleteAtEnd`: `Spec => []CompleteAtEnd`

These hold on all texts, also on those that are left out of the run because a loop does not
end on them: an endless loop delivers nothing twice either. None is inductive. `StreamInv`
is an invariant for each kind of parser (`ChunkInv`, `LineInv`, `BatchInv`, `ReaderInv`), and
these say the following of the events delivered together with those still queued:

* `Spans`: they are in order and of characters that are taken. "In order" alone does not
  survive a step; that all events are behind the point of draining does
  (`SpansAppend`: an event of characters behind that point can be added).
* `Phase`: the state field tells where in the frame the events are: nothing yet in
  `Initial`, a document open in `InDocument`, none open between documents. The code
  never compares the two; each `DocumentStart` and `DocumentEnd` moves both.
* `ChunkKept`, `LineKept`: a letter that is drained is covered by an event, or dropped
  (`DroppedByChunks`, `DroppedByLines`); `StandsBehind` carries a sign to what is drained
  with it. For lines the proof also needs `LineHead`: what is drained of a line that is
  not drained whole are the dots of an end marker.
* `Anchored`, and `NameBehind` as long as `pending_anchor` is set: behind the name no
  document has ended, which is what the reset of the context at a `DocumentEnd` is for.
* `depth = Len(state_stack)`, and `depth` at most `MaxNesting + BatchSize` (`BatchLimit`): a
  batch opens at most one collection for each turn, and begins only within the limit.

A handler is a composition of helpers which either move the parser on or emit one event
(`ChunkMoves`, `ChunkEmits`, `LineEmits`, `BatchEmits`); there is a lemma for each handler
made of these, and `ChunkGood`, `LineGood` or `BatchGood` is what each of them keeps. A
batch is a fold over its turns: `FoldProofs` is instantiated with the turn of characters,
of tokens and of a whole batch, and `FoldAppend` and `FoldInvariant` carry `BatchGood` from turn
to turn.

Of the mapped reader it proves, for every file and every set of chunk sizes
(`SizesAssumption`: sizes are natural numbers, zero included), errors and resets
in between:

* `ChunksAreTheFile`: `ReaderSpec => []ReadsFile`, the chunks are the file up to
  the position
* `ValidFilesAreRead`: `ReaderSpec => []NeverSplits`, of valid UTF-8 no chunk
  ends inside a character and none is found malformed

Here the two properties with the type invariant are inductive together (`ReaderInv`):
a chunk of valid bytes from one boundary to another is valid (lemma
`SliceValid`), the position is always at a boundary because only a whole chunk
moves it, and a prefix with the slice behind it is a longer prefix
(`PrefixGrows`).

`ScannerProofs` proves, for every text (no bound on lines, lexemes or
indentations; `Texts` is any set of sequences of lines) and every `Slot` above 3:

* `ScannerTypes`: `ScannerSpec => []ScannerTypeOK`
* `IndentsAlwaysAccounted`: `ScannerSpec => []IndentsAccounted`
* `BracketsAlwaysAccounted`: `ScannerSpec => []BracketsAccounted`
* `TokensAlwaysSorted`: `ScannerSpec => []Sorted`: no token before an anchor, a word or
  an alias in the output is beyond it in the text

The first two are inductive together. The account rests on what each arm emits:
`Balance` (block starts less ends) adds up under concatenation, and every action
adds to the two stacks what it adds to the balance (`Keeps`, one lemma per
action). That `indent_stack` is never empty and starts with indentation 0, which the
code never checks where it takes `last()`, is part of the type invariant; it holds
because pops look for an entry at or below a column (`PopToTyped`). For
the brackets every action is shown to emit tokens that are no brackets and then
at most one that is, with `flow_level` moved by as much (`Emits`); a marker is read
outside brackets only, so that the depth at a document's border is 0.

The positions of the tokens are not sorted as they come: the `StreamEnd` and the ends of
blocks before it stand at the beginning of the last line, behind that line's own tokens,
and the start of a nested block sequence is emitted ahead, at the column of its dash.
`Sorted` is what holds of the tokens `AnchorsMeetNodes` is about. It is inductive with
`Reached` (no token is beyond the place where the scanner stands): anchors, words and
aliases are emitted at that place, the others up to the place the step moves to, and no
step moves it back (`Advances`, one lemma per action).

`ParserProofs` proves of scanner and parser together, for every text, for the
eager and the lazy parser, and for every moment at which `get_event` is called:

* `FrontEndTypes`: `FrontEndSpec => []TypeOK`; `token_index` and `event_index` stay
  within the tokens and events there are
* `DocumentsAlwaysFramed`: `FrontEndSpec => []DocumentsFramed`
* `WordsAlwaysInOrder`: `FrontEndSpec => []WordsInOrder`
* `AnchorsAlwaysMeetNodes`: `FrontEndSpec => []AnchorsMeetNodes`
* `EagerAlwaysDeliversOnce`: `FrontEndSpec => []EagerDeliversOnce`
* `FrontEndAccounts`: the accounts of the scanner hold in the composition

None of these is inductive. The invariant is

    FrontInv == TypeOK /\ OrderInv /\ IndentsAccounted /\ BracketInv /\ ParserInv /\ ConsumerInv

where `OrderInv` is the scanner's order of tokens, and `ParserInv` says what the parser nowhere writes down:

* `Shaped`: whether a document is open in the events is told by the state alone
  (none in `StreamStart`, `StreamEnd` and `ImplicitDocumentStart`, one in all others), and
  only states of an open document are on the state stack, so that no
  `state_stack.pop()` can leave the document.
* Before a document no bracket is open in the tokens taken. This is where the
  scanner is needed: `]` and `}` append their event without looking whether a document
  has begun, and do so inside one only because the scanner reads no bracket
  that closes nothing and no marker inside brackets.
* The words of the tokens taken are the words of the events made, at every token and
  not only at the end. Events are appended at the end, or inserted before a
  node, and what is inserted is a start of a mapping: no word passes another
  (`WrapFromSteps`, `WordsTail`). `WordsInOrder` is this at the last token.
* Of the tokens taken and the events made (`Met`), there are as many anchors as nodes
  with one, and one more while an anchor waits; no word or alias stands between the
  n-th anchor and the n-th such node, nor behind the anchor that waits. A helper
  leaves the waiting anchor or hands it to one node at the token (`Hands`); a scalar
  always takes it, an alias and a second anchor are refused while it waits
  (`Refuses`), so it is never replaced. With the tokens in order (`InOrder`) the next
  token cannot come between earlier ones. `AnchorsMeetNodes` is this at the last token.
* `StreamStart` is left with the first token, `StreamEnd` reached with the last.

`ConsumerInv` says of the eager parser that nothing is handed out before the last token
is taken, which is why no insertion, nor the shift of a node that follows from it, comes
behind `event_index`. Of the lazy parser this is false (`lazy_insert`).

The arms of `process_token` are compositions of a few helpers. Each helper has a
lemma (it adds events inside a document and stays there: `Steps`), each arm has
one made of these (it arrives in a document with the words it had, or with one more,
and at most one node more with the waiting anchor: `Arrives`, `SameAndWord`; the arms
at a border of a document: `Moves`), and `FrontStepInv` puts together the arms, the
scanner's step and `get_event`. For the
insertion in front of a node that `OpenInlineKey` makes, the proof needs that the
walk over the events finds that node inside the open document (`LevelsOpened`).

Left to TLC:

* liveness and ENABLED, for which the prover has no rule: `Terminates`, `CallsReturn`,
  `ReadingEnds`;
* whatever is defined by recursion over data: `MeasuresAgree`, `DocumentsDenoteEvents`,
  the other composers (`OptimizedAgrees`, `BorrowedAgrees`, `CommentedAgrees`,
  `OthersWithinLimits`), `RoundTrip`, `DumpLoads`, `SharedWrittenOnce`. Folds (`FoldLeft`)
  are within reach by way of `FoldProofs`, which builds their function;
* `Balanced` and `Grammatical`, which say more of the parser's state stack than `FrontInv`:
  that it fits the collections open, which the guesses of the code make true case
  by case, is checked on the small texts only.

## 5. Not modelled

Error texts, positions and layout. Of the scanner: characters, tabs, blank lines,
quoted scalars of several lines, block scalars, `%TAG`, and its limits on strings
and bytes. Of values: tags other than through `BadScalars`; a numeric scalar is a
content like any other. Of the emitter: indentation by tabs, `%TAG`, the style of
quotes and the characters that `needs_quoting` looks at (`NeedsQuoting` is a set). Of `CommentPreservingComposer`: which
comments it attaches (`get_comments_for_position` picks from a `HashMap`) and
`RoundTripConstructor` around it, which only passes calls on. The other composers
meet intact streams, not those after an error. Of the streaming parsers:
statistics, positions, errors of the reader, characters of several bytes
(`from_utf8_lossy` on one that a read cuts), and of batches of tokens the errors of
the scanner. `ReducedAllocComposer` clones the value of an alias, behind an `Rc`,
before it charges it; `cloned` counts the clones it keeps. What the scanner has
pushed in the turn that refuses a quote is not in the tokens.

The width of counters: `usize` counters cannot be exhausted by an input that fits
in memory. Recursion depth of the Rust stack: `max_depth` bounds it. Components
with the status `not_modelled` (tags and schemas, representer, serializer, serde,
errors, command line, test drivers, disabled optimizations) are conversions or
reports without protocol; each has its reason in `PROJECT.json`.

## 6. Where the code and the words about it disagree

Six runs end in a counterexample to what a comment, a test or the documentation
says.

| run | statement | what the code does |
|---|---|---|
| `alias_stack_leak` | "Clean up tracking" (`composer.rs`) | an alias refused by a limit stays on `alias_expansion_stack`; later aliases to it are "cyclic" until `reset` |
| `lazy_insert` | "Get the next event, consuming it" (`parser/mod.rs`) | for `? s :` the lazy parser inserts `MappingStart` before an event it has delivered; the next call delivers that event again, and never the `MappingStart` |
| `nested` | "Odd child count → last key has no value yet" (`parser/mod.rs`) | `close_open_collections` does not count a collection it closes as a value, so that a key whose value is a collection gets an empty node more at `---` |
| `comments` | "Skip empty lines and comments" (`scanner/mod.rs`) | a comment at the margin closes the collections around it; a colon in a comment makes the word before it a key |
| `indentation` | "Parse → serialize → parse with data consistency" (`README.md`), "Base indentation" (`yaml.rs`) | with four columns the second entry of a mapping behind a dash is out of line, and the text is refused |
| `quoted` | "Quoted to prevent parsing as boolean" (`tests/comment_preservation_tests.rs`) | `CommentPreservingComposer` ignores the style of a scalar: `'true'` is a boolean |

The same models show more of the kind when the statement on the left is added
as an invariant. They are kept as notes, without a run:

| statement | what the code does | seen with |
|---|---|---|
| `check_document`: "Check if there are more documents available" (`composer.rs`) | with lazy parsing it sees only generated events | two documents |
| "maximum nesting depth of a value structure" (`composer.rs`) | `calculate_structure_depth` skips mapping keys | a sequence as a key |
| "`nodes` is the node count of the resolved value" (`limits.rs`) | the alias arm passes the complexity score, `2n - 1` for `n` nodes | any alias to a collection |
| "Maximum number of items in a collection", "of anchors in a document" (`limits.rs`) | one counter for all collections and documents until `reset` | two collections, two documents |
| "`]` is only valid inside an open flow sequence" (`scanner/mod.rs`) | the scanner counts brackets, `[ }` is scanned to its end | `[ }` |
| "a document has exactly one root node" (`parser/mod.rs`) | the arms of flow collections, aliases and `:` do not ask for a second root | `-`, then `[ ]` |
| "Flush any still-open block collections so the event stream is balanced before -DOC" (`parser/mod.rs`) | `indent_stack` and `state_stack` outlive the document: the ends of its blocks arrive in the next one | `- :`, then `--- -` |
| "Odd child count → last key has no value yet. Spec says emit implicit empty scalar" (`parser/mod.rs`) | `BlockEntry` in a mapping value ends the mapping without it | `- :`, then `-` |
| "a stand-alone anchor or tag at end-of-stream produces a document" (`parser/mod.rs`) | not behind `---`: the anchor is lost | `--- &a` |
| "YAML version persists across documents" (`parser/mod.rs`) | `DocumentStart` takes the version out of the parser | `%YAML`, `---`, `---` |
| "Proper document boundaries with `---`" (`README.md`) | an indented root is compared with the columns of the document before | a nested sequence, `---`, an indented `- s` |
| an inline anchor "belongs to that key" (`parser/mod.rs`) | the empty value of the key before it takes the anchor | `s :`, then `&a s :` |
| "Store current style and temporarily update" (`emitter.rs`) | the style of `emit_with_style` stays when its directives or its last line fail | `StyleRestored` of `DumpMC` |
| "Active YAML spec version for the current document." (`composer_optimized.rs`) | a `DocumentStart` that `peek_event` does not show is passed over without its version; `composer_borrowed.rs` does the same | `OptimizedAgrees` without `VersionsKnown` |
| "If there was a scanning error, store it for later propagation" (`parser/mod.rs`) | `load_all` on a text the scanner refuses: without events `check_document` is false, the stored error is never taken, and the answer is one `Null` | `outcome = "ok" => ~parser.scanning_error` with a fault and `load_all` |
| "guarantees forward progress" (`streaming_async.rs`) | not with a chunk size of 0 | sizes with 0 |

This is why `Balanced` is checked on texts without dashes and markers, and why the
pairs of documents in `trees` have no nested collections in the first one: the
statements are true there, and false elsewhere.

It also bounds what the composer's results mean. `DocumentsDenoteEvents` and
`DocumentsCharged` rest on the grammar of `EventStream`, which the front end
keeps for the texts of `trees` and breaks for the texts above. `EveryDocumentRead`
is about intact streams. The other theorems about the composer do not rest on the
grammar: after a fault `EventStream` emits arbitrary events, and they hold over those
as well.

Things the models follow which no sentence of the repository contradicts, but
which a reader of the properties has to know:

* `StreamingYamlParser`: the end of a chunk cuts words, scalars and comments in
  two; a chunk that yields no event ends the iteration; a line end behind `...`
  starts an implicit document; block collections, and the stream, are never
  ended; characters of several bytes at the end of a chunk are replaced
  (`from_utf8_lossy`). A buffer that begins with `:` yields empty scalars without
  end, and an open bracket with a line end but no closer behind it is waited for
  without end.
* `AsyncStreamingParser`: polling ends at the first line that yields no event;
  `process_yaml_stream` does not end while anything is left in the buffer, such
  as a last line without its end or a text without `---`.
* `StreamingParser`: `next_batch` is empty once the stream has ended, even if
  events are left, and drops the events it has collected when the next one
  fails; the character after a blank is skipped with zero copy; from tokens,
  `StreamEnd` is made twice; `new_zero_copy` with `use_zero_copy` off ends at once.
* `ReducedAllocComposer` and `ZeroCopyComposer`: on a fresh lazy parser
  `check_document` is false, and a call may return `None` between two documents;
  an alias refused by a limit leaves the name on the stack, or `alias_depth`
  raised. `ZeroCopyComposer` knows no merge keys and charges no anchors.
* `CommentPreservingComposer`: stream and document events count as depth, a root
  is at depth 3; a merge key with a value that is no mapping is ignored.
* `emit_commented_value_public` on an emitter that has been used: a value with parts an
  earlier call has anchored is written with aliases to anchors that are not in the
  text; a shared root is anchored, the first item of a sequence below the anchor
  indented twice if a failed call has left an indentation. `dump_with_comments` makes an
  emitter for each call and has none of this; it writes shared parts in full, whatever
  `emit_anchors` says.
* `needs_quoting` does not ask for quotes around `.inf`, `0x1F`, `---`, `<<` and
  `=`; the values of `dump` have no such scalar.

## 7. Plan

Done: the composer with its callers, the denotation and the proofs about them, that
`load_all` reads every document and returns nothing that was not charged included;
scanner, parser and front end with quoted words and comments, and the proofs
that words keep their order, anchors their nodes and documents their frame; the emitter,
composed with the front end; the streaming parsers and the mapped reader with their
proofs; the other composers. What could come next:

1. What is left to prove about the front end: that the levels of the events are
   balanced (`Balanced`).
2. That the closed forms of `Values` are bounds of one another.
3. Block scalars and quoted scalars over several lines; `%TAG`; the limits of the
   scanner.
4. Hash and equality of keys; the schemas; the comments that
   `CommentPreservingComposer` attaches.
