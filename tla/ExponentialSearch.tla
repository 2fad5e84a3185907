------------------------- MODULE ExponentialSearch -------------------------
(***************************************************************************)
(* The searches of a data node, loop iteration by loop iteration: from the *)
(* slot m where the model predicts a key, upper_bound() and lower_bound()  *)
(* double a bound away from m until they have passed the answer, and then  *)
(* do a binary search in what the bound leaves.  Both run the same loops   *)
(* and differ only in which slots lie Beyond the key.                      *)
(*                                                                         *)
(* The node is reduced to the fields the searches read.                    *)
(***************************************************************************)
EXTENDS GappedArray

CONSTANT Capacity  \* the data capacities considered

ASSUME CapacityIsPositive == Capacity \subseteq Nat \ {0}

VARIABLES
    node,    \* data_capacity_ and key_slots_
    op,      \* which of the two searches runs
    key,     \* the key sought
    m,       \* the predicted slot
    phase,   \* the loop the search is in
    bound,   \* how far from m the first loop has got
    l, r     \* what is left to the second loop: [l, r)

vars == <<node, op, key, m, phase, bound, l, r>>

Nodes ==
    UNION {{d \in [data_capacity_ : {cap},
                   key_slots_ : [0 .. (cap - 1) -> Key \cup {kEndSentinel_}]] :
                Ascending(d)} : cap \in Capacity}

\* What a search may run in: Nodes, whatever the capacity.
SortedArray(d) ==
    /\ d.data_capacity_ \in Nat \ {0}
    /\ d.key_slots_ \in [Slots(d) -> Key \cup {kEndSentinel_}]
    /\ Ascending(d)

\* Fault: the comparison of lower_bound in both searches.
BeyondOrEqual(i) == node.key_slots_[i] >= key

\* The slots greater than the key, or no less than it.
Beyond(i) ==
    IF op = "upper_bound"
    THEN node.key_slots_[i] > key
    ELSE node.key_slots_[i] >= key

\* A search as it starts, after predict_position() has clamped m.
Init ==
    /\ node \in Nodes
    /\ op \in {"upper_bound", "lower_bound"}
    /\ key \in Key
    /\ m \in Slots(node)
    /\ phase = "doubling"
    /\ bound = 1
    /\ l = 0 /\ r = 0

\* Fault: doubles past the start of the array.
SizeOfWholeArray == node.data_capacity_

\* How far the search can get from m: to the left of a slot beyond the key,
\* to the right of any other.
size == IF Beyond(m) THEN m ELSE node.data_capacity_ - m

\* The slot bound steps from m lies on the same side of the answer as m.
SameSide == IF Beyond(m) THEN Beyond(m - bound) ELSE ~Beyond(m + bound)

Double ==
    /\ phase = "doubling"
    /\ bound < size /\ SameSide
    /\ bound' = 2 * bound
    /\ UNCHANGED <<node, op, key, m, phase, l, r>>

\* Fault: leaves out the slot at half the bound.
RangeTooNarrow ==
    IF Beyond(m)
    THEN <<m - Smaller(bound, size), m - (bound \div 2) - 1>>
    ELSE <<m + (bound \div 2), m + Smaller(bound, size)>>

\* What the doubling leaves: between the last two bounds, or the array's end.
LeftToSearch ==
    IF Beyond(m)
    THEN <<m - Smaller(bound, size), m - (bound \div 2)>>
    ELSE <<m + (bound \div 2), m + Smaller(bound, size)>>

StartBinarySearch ==
    /\ phase = "doubling"
    /\ ~(bound < size /\ SameSide)
    /\ l' = LeftToSearch[1] /\ r' = LeftToSearch[2]
    /\ phase' = "halving"
    /\ UNCHANGED <<node, op, key, m, bound>>

mid == l + (r - l) \div 2

\* Fault: keeps the middle slot in the range.
HalveKeepingMid ==
    /\ phase = "halving"
    /\ l < r
    /\ IF Beyond(mid) THEN r' = mid /\ l' = l ELSE l' = mid /\ r' = r
    /\ UNCHANGED <<node, op, key, m, phase, bound>>

Halve ==
    /\ phase = "halving"
    /\ l < r
    /\ IF Beyond(mid) THEN r' = mid /\ l' = l ELSE l' = mid + 1 /\ r' = r
    /\ UNCHANGED <<node, op, key, m, phase, bound>>

Return ==
    /\ phase = "halving"
    /\ l >= r
    /\ phase' = "done"
    /\ UNCHANGED <<node, op, key, m, bound, l, r>>

Next == Double \/ StartBinarySearch \/ Halve \/ Return

\* One thread runs the loops, and nothing in them blocks.
Spec == Init /\ [][Next]_vars /\ WF_vars(Next)

-----------------------------------------------------------------------------
(* Properties.                                                             *)

Answer == IF op = "upper_bound" THEN upper_bound(node, key)
                                ELSE lower_bound(node, key)

\* The answer is never lost: the doubling has not passed it by more than one
\* doubling, and the halving keeps it in [l, r].
IInv ==
    /\ SortedArray(node)
    /\ op \in {"upper_bound", "lower_bound"}
    /\ key \in Key
    /\ m \in Slots(node)
    /\ phase \in {"doubling", "halving", "done"}
    /\ bound \in Nat /\ bound >= 1
    /\ l \in Int /\ r \in Int
    /\ phase = "doubling" =>
           IF Beyond(m)
           THEN bound \div 2 <= m /\ Answer <= m - bound \div 2
           ELSE m + bound \div 2 < node.data_capacity_
                /\ m + bound \div 2 <= Answer
    /\ phase # "doubling" =>
           /\ 0 <= l /\ l <= Answer /\ Answer <= r
           /\ r <= node.data_capacity_
    /\ phase = "done" => l >= r

\* Whatever the prediction, a search ends with the same answer: the one the
\* comments promise ("the first position greater than key", "no less than
\* key", "in range [0, data_capacity]").
SearchIsExact == phase = "done" => l = Answer

\* The searches read only slots of the array: neither loop steps over an end,
\* although the bound doubles and r may be data_capacity_.
ReadsStayInArray ==
    /\ phase = "doubling" /\ bound < size
           => (IF Beyond(m) THEN m - bound ELSE m + bound) \in Slots(node)
    /\ phase = "halving" /\ l < r => mid \in Slots(node)

\* Every search returns: both loops make progress in every iteration.
SearchReturns == <>(phase = "done")
=============================================================================
