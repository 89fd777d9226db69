------------------------------- MODULE Limits -------------------------------
(***************************************************************************)
(* src/limits.rs: the configured limits and the ResourceTracker that       *)
(* charges a document against them.  A charging method of the code adds to *)
(* a counter and then compares it: the counter stays raised when the       *)
(* comparison fails.  Here each method is the operator that returns the    *)
(* tracker after the addition, and Within... is the comparison.            *)
(*                                                                         *)
(* bytes_processed and check_string_length serve the scanner and are not   *)
(* part of this tracker.  Counters are natural numbers: usize is wider     *)
(* than any input that fits in memory, and max_total_alias_nodes saturates.*)
(***************************************************************************)
EXTENDS Naturals

CONSTANTS
    MaxDepth,             \* Limits.max_depth
    MaxAnchors,           \* Limits.max_anchors
    MaxAliasDepth,        \* Limits.max_alias_depth
    MaxCollectionSize,    \* Limits.max_collection_size
    MaxComplexityScore,   \* Limits.max_complexity_score
    MaxTotalAliasNodes    \* Limits.max_total_alias_nodes

ASSUME LimitsAssumption ==
    {MaxDepth, MaxAnchors, MaxAliasDepth, MaxCollectionSize,
     MaxComplexityScore, MaxTotalAliasNodes} \subseteq Nat

Trackers ==
    [current_depth : Nat, max_depth_seen : Nat, anchor_count : Nat, alias_depth : Nat,
     complexity_score : Nat, collection_items : Nat, total_alias_nodes : Nat]

NewTracker ==
    [current_depth |-> 0, max_depth_seen |-> 0, anchor_count |-> 0, alias_depth |-> 0,
     complexity_score |-> 0, collection_items |-> 0, total_alias_nodes |-> 0]

check_depth(t, depth) ==
    [t EXCEPT !.current_depth = depth,
              !.max_depth_seen = IF @ >= depth THEN @ ELSE depth]
WithinDepth(t) == t.current_depth <= MaxDepth

add_anchor(t) == [t EXCEPT !.anchor_count = @ + 1]
WithinAnchors(t) == t.anchor_count <= MaxAnchors

\* enter_alias compares before it adds.
CanEnterAlias(t) == t.alias_depth + 1 <= MaxAliasDepth
enter_alias(t) == [t EXCEPT !.alias_depth = @ + 1]
exit_alias(t) == [t EXCEPT !.alias_depth = IF @ > 0 THEN @ - 1 ELSE @]

add_collection_item(t) == [t EXCEPT !.collection_items = @ + 1]
WithinItems(t) == t.collection_items <= MaxCollectionSize

add_complexity(t, score) == [t EXCEPT !.complexity_score = @ + score]
WithinComplexity(t) == t.complexity_score <= MaxComplexityScore

add_alias_materialization(t, nodes) == [t EXCEPT !.total_alias_nodes = @ + nodes]
WithinAliasNodes(t) == t.total_alias_nodes <= MaxTotalAliasNodes
=============================================================================
