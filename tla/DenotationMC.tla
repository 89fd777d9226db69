---------------------------- MODULE DenotationMC ----------------------------
(***************************************************************************)
(* What a stream of events means, written independently of the composer,   *)
(* and the composer checked against it: a load returns, for every document *)
(* of the stream, the value its events denote.                             *)
(*                                                                         *)
(* `trace` remembers the events consumed.  A denoted value is a scalar     *)
(* content, a sequence of values, or a mapping as a set of entries.        *)
(* Merge keys: an explicit key beats every merged one wherever it stands,  *)
(* the last of two equal explicit keys wins, and of several merged sources *)
(* the first one that has the key.                                         *)
(*                                                                         *)
(* The streams come in families: every small stream, and larger ones that  *)
(* begin with two mappings to merge from.                                  *)
(***************************************************************************)
EXTENDS ComposerMC

CONSTANT Families    \* the families of streams

VARIABLES
    trace,     \* the events consumed
    family     \* which streams

\* A family: who loads them and the errors that may cut them; the events they
\* begin with, at each position a set; the contents and anchors behind those;
\* the bounds on nodes and documents.
Family(client_, faults, opening, scalars, names, nodes, documents) ==
    [client |-> client_, faults |-> faults, opening |-> opening, scalars |-> scalars,
     names |-> names, nodes |-> nodes, documents |-> documents]

SmallStreams == Family("load_all", 0, <<>>, {"s", "yes"}, {"a"}, 4, 2)

\* Merge keys on anything, and scalars the version or the client refuses.
RefusedStreams == Family("load_all", 0, <<>>, {"s", MergeKey, "="}, {"a"}, 4, 1)

CutStreams == Family("load", 1, <<>>, {"s", MergeKey, "="}, {"a"}, 3, 2)

\* [ &a {s: s}, &b {s: t, t: s}, {
MergingStreams ==
    LET scalar(s) == {Event("Scalar", NoAnchor, s)}
        mapping(name) == {Event("MappingStart", name, "")}
        end == {Mark("MappingEnd")}
    IN  Family("load_all", 0,
               <<{Mark("StreamStart")}, {Event("DocumentStart", NoAnchor, "1.2")},
                 {Event("SequenceStart", NoAnchor, "")},
                 mapping("a"), scalar("s"), scalar("s"), end,
                 mapping("b"), scalar("s"), scalar("t"), scalar("t"), scalar("s"), end,
                 mapping(NoAnchor)>>,
               {"s", "t", MergeKey}, {}, MaxNodes, 1)

LoadedFamilies == {SmallStreams, RefusedStreams, CutStreams, MergingStreams}

\* The event at the cursor is one the family allows at this position.
Allows(p, position) ==
    /\ p.next.type = "DocumentStart" => MaxDocuments - p.documents < family.documents
    /\ IF position \in DOMAIN family.opening THEN p.next \in family.opening[position]
       ELSE /\ p.next.type = "Scalar" => p.next.value \in family.scalars \cup {""}
            /\ p.next.type # "Alias" => p.next.anchor \in family.names \cup {NoAnchor}

ParsersOf(f) ==
    {[p EXCEPT !.nodes = f.nodes] : p \in IF f.faults = 0 THEN {NewParser(TRUE, 0)} ELSE NewParsers}

TraceInit ==
    /\ family \in Families
    /\ parser \in ParsersOf(family)
    /\ Allows(parser, 1)
    /\ ComposerInit
    /\ caller = family.client
    /\ trace = <<>>

TraceNext ==
    /\ Next
    /\ trace' = IF parser' = parser \/ parser.scanning_error
                THEN trace ELSE Append(trace, parser.next)
    /\ Allows(parser', Len(trace') + 1)
    /\ UNCHANGED family

traced == <<vars, trace, family>>

TraceSpec == TraceInit /\ [][TraceNext]_traced /\ WF_traced(TraceNext)

-----------------------------------------------------------------------------
\* Denoted values.

Scalar(content) == [kind |-> "scalar", content |-> content, items |-> <<>>, entries |-> {}]
Sequence(items) == [kind |-> "sequence", content |-> "", items |-> items, entries |-> {}]
Mapping(entries) == [kind |-> "mapping", content |-> "", items |-> <<>>, entries |-> entries]

Entry(k, v) == [key |-> k, value |-> v]
KeysOf(entries) == {e.key : e \in entries}

\* The mapping that a list of key-value pairs denotes.
MappingOf(pairs) ==
    LET isMerge(i) == pairs[i].key = Scalar(MergeKey)
        explicit == {i \in DOMAIN pairs : ~isMerge(i)}
        last == {i \in explicit : \A j \in explicit : pairs[j].key = pairs[i].key => j <= i}
        sources == FlattenSeq([i \in DOMAIN pairs |->
                       IF ~isMerge(i) THEN <<>>
                       ELSE IF pairs[i].value.kind = "sequence" THEN pairs[i].value.items
                       ELSE <<pairs[i].value>>])
        merged == {i_e \in UNION {{<<i, e>> : e \in sources[i].entries} : i \in DOMAIN sources} :
                       /\ \A j \in explicit : pairs[j].key # i_e[2].key
                       /\ \A j \in 1 .. i_e[1] - 1 : i_e[2].key \notin KeysOf(sources[j].entries)}
    IN  Mapping({pairs[i] : i \in last} \cup {i_e[2] : i_e \in merged})

\* Reading one node at position i: the value, the position behind it and what
\* the anchors stand for there.  Under the name Dangling `env` keeps whether an
\* alias of an unknown name was read.
Read(value, next, env) == [value |-> value, next |-> next, env |-> env]

Undefined == Scalar("undefined")
Dangling == "dangling"
NoAnchors == [n \in Names \cup {Dangling} |-> Undefined]

Bind(r, name) ==
    IF name = NoAnchor THEN r ELSE [r EXCEPT !.env = [@ EXCEPT ![name] = r.value]]

ReadAlias(i, name, env) ==
    Read(env[name], i + 1,
         IF env[name] = Undefined THEN [env EXCEPT ![Dangling] = Scalar(name)] ELSE env)

RECURSIVE ReadNode(_, _, _), ReadItems(_, _, _)

ReadNode(i, version, env) ==
    LET event == trace[i]
        inner == ReadItems(i + 1, version, env)
        n == Len(inner.value)
    IN  CASE event.type = "Alias" -> ReadAlias(i, event.anchor, env)
          [] event.type = "Scalar" ->
                Bind(Read(Scalar(compose_scalar(event.value, version)), i + 1, env), event.anchor)
          [] event.type = "SequenceStart" ->
                Bind(Read(Sequence(inner.value), inner.next, inner.env), event.anchor)
          [] event.type = "MappingStart" ->
                Bind(Read(MappingOf([j \in 1 .. n \div 2 |->
                                       Entry(inner.value[2 * j - 1], inner.value[2 * j])]),
                          inner.next, inner.env), event.anchor)

\* The nodes up to the matching end event, which is passed.
ReadItems(i, version, env) ==
    IF trace[i].type \in {"SequenceEnd", "MappingEnd"} THEN Read(<<>>, i + 1, env)
    ELSE LET first == ReadNode(i, version, env)
             others == ReadItems(first.next, version, first.env)
         IN  [others EXCEPT !.value = <<first.value>> \o @]

RECURSIVE ReadDocuments(_, _, _)

\* The roots of the documents from position i on, as they were read.  A reader
\* that forgets begins every document without anchors.
ReadDocuments(i, env, forgets) ==
    IF i > Len(trace) THEN <<>>
    ELSE IF trace[i].type # "DocumentStart" THEN ReadDocuments(i + 1, env, forgets)
    ELSE LET root == ReadNode(i + 1, trace[i].value, env)
         IN  <<root>> \o ReadDocuments(root.next, IF forgets THEN NoAnchors ELSE root.env, forgets)

RECURSIVE Meaning(_)

\* The denoted value a composed tree stands for.
Meaning(v) ==
    LET kids == [i \in 1 .. Arity(v) |-> Meaning(Child(v, i))]
    IN  CASE Label(v) = SEQ -> Sequence(kids)
          [] Label(v) = MAP ->
                Mapping({Entry(kids[2 * j - 1], kids[2 * j]) : j \in 1 .. Len(kids) \div 2})
          [] OTHER -> Scalar(Label(v))

-----------------------------------------------------------------------------
\* A load_all that succeeds has consumed the whole stream and returns one
\* value for each document in it, the value its events denote; a stream
\* without documents gives one Null.  An anchor stays visible in the
\* documents that follow (the parser never forgets it), and a redefinition
\* holds from where it is made.
DocumentsDenoteEvents ==
    outcome = "ok" =>
        LET roots == ReadDocuments(1, NoAnchors, FALSE)
        IN  [i \in DOMAIN docs |-> Meaning(docs[i])]
            = IF roots = <<>> THEN <<Scalar(Null)>> ELSE [i \in DOMAIN roots |-> roots[i].value]

-----------------------------------------------------------------------------
(***************************************************************************)
(* The other composers read the streams that load_all has read.  The two   *)
(* with a lazy parser see an event before they ask for it only if it comes *)
(* from the token of the event before it, and even then perhaps not.       *)
(***************************************************************************)
Optimized == INSTANCE OptimizedComposer
Borrowed == INSTANCE BorrowedComposer
Commented == INSTANCE CommentComposer

\* Their limits when they are met.
TightOptimized == INSTANCE OptimizedComposer WITH MaxTotalAliasNodes <- 1, MaxDepth <- 2
TightBorrowed == INSTANCE BorrowedComposer WITH MaxTotalAliasNodes <- 1, MaxDepth <- 2
TightCommented == INSTANCE CommentComposer WITH MaxTotalAliasNodes <- 1

\* The positions with events of these types that a lazy parser may show.
ShownOf(types) ==
    {i \in 2 .. Len(trace) : trace[i].type \in types /\ SameToken(trace[i - 1], trace[i])}

Ends == {"SequenceEnd", "MappingEnd"}
Visibilities ==
    {ShownOf(UNION kinds) : kinds \in SUBSET {Ends, {"DocumentStart"}, {"DocumentEnd"}}}

\* A client calls compose_document, perhaps with a reset in between, until an
\* error or until the parser has no more events: the composer after each call.
RECURSIVE ByOptimized(_, _), ByBorrowed(_, _), ByCommented(_)

OptimizedThen(c, resets) ==
    <<c>> \o ByOptimized(IF resets THEN Optimized!reset(c) ELSE c, resets)
ByOptimized(c, resets) ==
    IF c.failed \/ ~Optimized!HasEvent(c) THEN <<>>
    ELSE OptimizedThen(Optimized!compose_document(c), resets)

BorrowedThen(c, resets) ==
    <<c>> \o ByBorrowed(IF resets THEN Borrowed!reset(c) ELSE c, resets)
ByBorrowed(c, resets) ==
    IF c.failed \/ ~Borrowed!HasEvent(c) THEN <<>>
    ELSE BorrowedThen(Borrowed!compose_document(c), resets)

CommentedThen(c) == <<c>> \o ByCommented(c)
ByCommented(c) ==
    IF c.failed \/ ~Commented!HasEvent(c) THEN <<>> ELSE CommentedThen(Commented!compose_document(c))

\* The calls return the documents, one after the other, up to the first one with
\* a dangling alias, which is an error.  A call may return None in between.
Agree(calls_, roots) ==
    LET bad == {i \in DOMAIN roots : roots[i].env[Dangling] # Undefined}
        good == {i \in DOMAIN roots : \A j \in bad : i < j}
        returned == SelectSeq(calls_, LAMBDA c : c.value # NoValue)
    IN  /\ [i \in DOMAIN returned |-> Meaning(returned[i].value)]
           = [i \in good |-> roots[i].value]
        /\ Last(calls_).failed <=> bad # {}

\* A document whose start the lazy composers see has its version taken; what
\* they do not see must be the version they have anyway.
VersionsKnown(visible) ==
    \A i \in DOMAIN trace : trace[i].type = "DocumentStart" =>
        i \in visible \/ \A j \in 1 .. i : trace[j].type = "DocumentStart" => trace[j].value = "1.2"

LoadedAll == outcome = "ok" /\ family.client = "load_all"

\* ReducedAllocComposer returns what the events denote, each document once and in
\* order, whether or not its lazy parser shows it the ends of collections and
\* documents, and with a reset between the documents as well.
OptimizedAgrees ==
    LoadedAll => \A visible \in Visibilities, resets \in BOOLEAN :
        VersionsKnown(visible) =>
            Agree(ByOptimized(Optimized!NewComposer(trace, visible), resets),
                  ReadDocuments(1, NoAnchors, resets))

\* So does ZeroCopyComposer, which knows no merge keys.
BorrowedAgrees ==
    LoadedAll /\ (\A i \in DOMAIN trace : trace[i].value # MergeKey) =>
        \A visible \in Visibilities, resets \in BOOLEAN :
            VersionsKnown(visible) =>
                Agree(ByBorrowed(Borrowed!NewComposer(trace, visible), resets),
                      ReadDocuments(1, NoAnchors, resets))

\* CommentPreservingComposer does under all versions, and every document begins
\* without anchors.
CommentedAgrees ==
    LoadedAll => Agree(ByCommented(Commented!NewComposer(trace, DOMAIN trace)),
                       ReadDocuments(1, NoAnchors, TRUE))

\* The first documents of the stream under limits that are met.
FirstCalls ==
    {TightOptimized!compose_document(TightOptimized!NewComposer(trace, {})),
     TightBorrowed!compose_document(TightBorrowed!NewComposer(trace, {})),
     TightCommented!compose_document(TightCommented!NewComposer(trace, DOMAIN trace))}

\* None of the three clones more nodes than max_total_alias_nodes, and a call that
\* succeeds leaves neither depth nor names of aliases behind for the next one.
OthersWithinLimits ==
    LoadedAll => \A c \in FirstCalls :
        /\ c.cloned <= 1
        /\ ~c.failed => /\ c.current_depth = 0 /\ c.tracker.alias_depth = 0
                        /\ c.alias_expansion_stack = <<>>

-----------------------------------------------------------------------------
\* A statement of the repository that the code does not keep.

QuotedStreams == Family("load_all", 0, <<>>, {"'true'"}, {}, 2, 1)
QuotedFamilies == {QuotedStreams}

\* "Quoted to prevent parsing as boolean" (tests/comment_preservation_tests.rs):
\* CommentPreservingComposer returns the text of a quoted scalar as a string.
QuotedStaysText ==
    LoadedAll /\ (\A i \in DOMAIN trace : trace[i].type = "Scalar" => trace[i].value = Commented!Quoted) =>
        LET calls_ == ByCommented(Commented!NewComposer(trace, DOMAIN trace))
        IN  \A i \in DOMAIN calls_ : \A p \in DOMAIN calls_[i].value :
                calls_[i].value[p] # Commented!Text(Commented!Quoted)
=============================================================================
