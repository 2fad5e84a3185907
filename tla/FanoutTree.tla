------------------------------ MODULE FanoutTree ------------------------------
(***************************************************************************)
(* How the key space of a node is divided among its children: the fanout   *)
(* tree of src/core/alex_fanout_tree.h.  Level l of it divides the space   *)
(* into 2^l parts of one size; a node <<l, i>> is part i of level l, and   *)
(* the nodes in use become the children.                                   *)
(*                                                                         *)
(* Keys are their positions in a space of Span cells, so that a prediction *)
(* is a division.  A boundary between parts is found in the array by       *)
(* lower_bound of a double; those in low came out smaller than the key     *)
(* just before them.  (Levels scale a boundary by a power of two: it is    *)
(* rounded alike on all.)  Costs are left open: whatever they decide may   *)
(* happen.                                                                 *)
(*                                                                         *)
(* Bounds: fanouts up to 2^MaxLevel, in place of max_fanout.               *)
(***************************************************************************)
EXTENDS Integers, Sequences, FiniteSets

CONSTANTS
    Span,     \* the cells: a power of two
    MaxLevel,
    Load,     \* the sets of keys divided
    Low       \* the sets of boundaries rounded down

ASSUME SpanIsDivisible ==
    /\ MaxLevel \in Nat \ {0} /\ Span \in Nat \ {0} /\ Span % 2^MaxLevel = 0
    /\ {} \notin Load /\ \A load \in Load : load \subseteq 0 .. (Span - 1)

VARIABLES
    values, \* the keys divided
    low,
    method, \* bottom_up, top_down; whole_level: after a level of the fallback;
            \* existing: the keys of a data node that is to be split
    use,    \* the nodes of the tree in use
    depth,  \* best_level
    level, pair, merged, \* the merge loop: level, pair of nodes, any merge yet
    phase

fanoutVars == <<values, low, method, use, depth, level, pair, merged, phase>>

NodesOf(l) == {<<l, i>> : i \in 0 .. (2^l - 1)}
Width(l) == Span \div 2^l

InitFanout ==
    /\ values \in Load /\ low \in Low
    /\ method \in {"bottom_up", "top_down", "existing"}
    /\ use = IF method = "top_down" THEN {<<0, 0>>} ELSE {}
    /\ depth = 0 /\ level = 0 /\ pair = 0 /\ merged = FALSE
    /\ phase = IF method = "top_down" THEN "growing" ELSE "levels"

\* Fault: no look at the keys that were rounded across the boundary.
BoundaryUncorrected(cell) ==
    Cardinality({k \in values : k < IF cell \in low THEN cell - 1 ELSE cell})

\* The start of a part in the array.  compute_level moves on over the keys
\* predicted to be before it, the others do not.
Boundary(cell) ==
    IF method \in {"bottom_up", "whole_level"}
    THEN Cardinality({k \in values : k < cell})
    ELSE Cardinality({k \in values : k < IF cell \in low THEN cell - 1 ELSE cell})

left_boundary(n) == IF n[2] = 0 THEN 0 ELSE Boundary(n[2] * Width(n[1]))
right_boundary(n) ==
    IF n[2] = 2^n[1] - 1 THEN Cardinality(values)
    ELSE Boundary((n[2] + 1) * Width(n[1]))
num_keys(n) == right_boundary(n) - left_boundary(n)

\* The level of least cost, all of its nodes in use.
ChooseLevel(best_level) ==
    /\ phase = "levels"
    /\ depth' = best_level /\ level' = best_level
    /\ use' = NodesOf(best_level)
    /\ phase' = "merging"
    /\ UNCHANGED <<values, low, method, pair, merged>>

Left == <<level, 2 * pair>>
Right == <<level, (2 * pair) + 1>>
Parent == <<level - 1, pair>>

\* Fault: a node merged below counts as a pair of nodes in use.
OneIsUsed == Left \in use \/ Right \in use

BothAreUsed == Left \in use /\ Right \in use

\* One turn of merge_nodes_upwards.  A merge that leaves the root alone never
\* pays: its saving would be what the chosen level costs less than the root.
MergePair ==
    /\ phase = "merging" /\ level >= 1
    /\ \/ /\ BothAreUsed /\ level > 1
          /\ use' = (use \ {Left, Right}) \cup {Parent}
       \/ /\ ~(BothAreUsed /\ num_keys(Parent) = 0)
          /\ UNCHANGED use
    /\ LET any == merged \/ use' # use
       IN  IF pair + 1 < 2^(level - 1)
           THEN pair' = pair + 1 /\ merged' = any /\ UNCHANGED level
           ELSE /\ pair' = 0 /\ merged' = FALSE
                /\ level' = IF any THEN level - 1 ELSE 0
    /\ UNCHANGED <<values, low, method, depth, phase>>

EndMerging ==
    /\ phase = "merging" /\ level = 0
    /\ phase' = "collected"
    /\ UNCHANGED <<values, low, method, use, depth, level, pair, merged>>

\* One turn of find_best_fanout_top_down: nodes of the last level that are
\* worth it are split, and put back into use if the pointers cost more.
Grow ==
    /\ phase = "growing"
    /\ LET last == {n \in use : n[1] = level}
       IN  \E split \in SUBSET {n \in last : num_keys(n) > 0} :
               LET halves == {<<level + 1, (2 * n[2]) + h>> : n \in split, h \in {0, 1}}
               IN  \/ /\ split # {} /\ level < MaxLevel
                      /\ use' = (use \ split) \cup halves
                      /\ level' = level + 1
                      /\ UNCHANGED <<phase, depth>>
                   \/ /\ use' = (use \ split) \cup last
                      /\ phase' = "collected" /\ depth' = level
                      /\ UNCHANGED level
    /\ UNCHANGED <<values, low, method, pair, merged>>

\* The nodes in use by where they start.  (Two that start together would come in
\* either order; here the greater one comes first.)
collect_used_nodes(nodes, max_level) ==
    LET Start(n) == n[2] * 2^(max_level - n[1])
        Before(m, n) == Start(m) < Start(n) \/ (Start(m) = Start(n) /\ m[1] < n[1])
    IN  [j \in 1 .. Cardinality(nodes) |->
            CHOOSE n \in nodes : Cardinality({m \in nodes : Before(m, n)}) = j - 1]

NextFanout ==
    \/ \E best_level \in 0 .. MaxLevel : ChooseLevel(best_level)
    \/ MergePair \/ EndMerging \/ Grow

-----------------------------------------------------------------------------
(* Properties.                                                             *)

\* "used_fanout_tree_nodes" is taken as a partition by all its users: in their
\* order, the nodes collected take up the fanout and the array from end to end,
\* none twice, none left out; and a fanout of more than one divides.
UsedNodesPartition ==
    phase = "collected" =>
        LET s == collect_used_nodes(use, depth)
            Start(n) == n[2] * 2^(depth - n[1])
            End(n) == (n[2] + 1) * 2^(depth - n[1])
        IN  /\ Start(s[1]) = 0 /\ left_boundary(s[1]) = 0
            /\ \A j \in 2 .. Len(s) :
                   /\ Start(s[j]) = End(s[j - 1])
                   /\ left_boundary(s[j]) = right_boundary(s[j - 1])
            /\ End(s[Len(s)]) = 2^depth
            /\ right_boundary(s[Len(s)]) = Cardinality(values)
            /\ depth > 0 => Len(s) > 1
=============================================================================
