----------------------------- MODULE ComposerMC -----------------------------
(* Composer with the properties that only TLC evaluates. *)
EXTENDS Composer

-----------------------------------------------------------------------------
\* A caller that holds the composer: streams of one document from a lazy parser,
\* and of two with fewer nodes from an eager one.
DirectInit ==
    /\ ComposerInit
    /\ parser \in {IF p.eager THEN [p EXCEPT !.nodes = 3] ELSE [p EXCEPT !.documents = 1] :
                      p \in NewParsers}

DirectSpec == DirectInit /\ [][Next]_vars /\ WF_vars(Next)

-----------------------------------------------------------------------------
\* The work lists of calculate_value_complexity and calculate_structure_depth,
\* node by node.

RECURSIVE ScoreOf(_), DepthOf(_)

ScoreOf(v) ==
    LET n == Arity(v)
    IN  FoldLeft(LAMBDA total, i : total + ScoreOf(Child(v, i)), 1 + n, [i \in 1 .. n |-> i])

DepthOf(v) ==
    LET visited == {i \in 1 .. Arity(v) : Label(v) = MAP => i % 2 = 0}
    IN  FoldLeft(LAMBDA depth, i : LET below == 1 + DepthOf(Child(v, i))
                                   IN  IF i \in visited /\ below > depth THEN below ELSE depth,
                 1, [i \in 1 .. Arity(v) |-> i])

\* The closed forms of Values are what the work lists compute, for every value
\* the composer ever returns.
MeasuresAgree ==
    result # NoValue =>
        /\ calculate_value_complexity(result) = ScoreOf(result)
        /\ calculate_structure_depth(result) = DepthOf(result)

-----------------------------------------------------------------------------
\* load and load_all return: every call consumes at least one event.
Terminates == <>(outcome # "running")

\* Every call of compose_document comes back to its caller, over any events
\* and errors.
CallsReturn == (pc # "idle") ~> (pc = "idle")

-----------------------------------------------------------------------------
\* Statements of the repository that the code does not keep.

\* "Clean up tracking" (src/composer.rs): once a call is over, no alias is
\* being expanded.
AliasesCleanedUp == pc = "idle" => alias_expansion_stack = <<>>
=============================================================================
