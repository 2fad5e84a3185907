--------------------------------- MODULE Rmi ---------------------------------
(***************************************************************************)
(* The tree of ALEX at rest: model nodes that route a key to one of their  *)
(* child pointers, data nodes ("leaves") chained in key order, and the     *)
(* lookups that walk them: classes AlexNode and AlexModelNode of           *)
(* src/core/alex_nodes.h, get_leaf and correct_traversal_path of           *)
(* src/core/alex.h.                                                        *)
(*                                                                         *)
(* A tree t is a record: nodes maps an address to a node, fresh is the     *)
(* next address to allocate, key_domain_min_ and key_domain_max_ are       *)
(* istats_'s.  The superroot has address 0 and the root as its one child.  *)
(*                                                                         *)
(* A linear model with slope 1/width is a start and a width, so key k is   *)
(* at position (k - start) / width.  Arithmetic is exact except for keys   *)
(* that lie on the boundary of two buckets: there the rounding of doubles  *)
(* may put the prediction below or above the boundary, and the boundary's  *)
(* own value above the key.  A model's rounding names these keys.          *)
(***************************************************************************)
EXTENDS Integers, FiniteSets, SequencesExt

CONSTANTS
    Key,        \* keys, integers
    kLowest,    \* the least value of the key type
    kMax,       \* the greatest value of the key type
    max_fanout, \* derived_params_.max_fanout
    Misrounded  \* the keys for which doubles may round

ASSUME KeysAreWithinTheType ==
    /\ Key \subseteq Int /\ kLowest \in Int /\ kMax \in Int
    /\ \A k \in Key : kLowest < k /\ k < kMax
ASSUME MisroundedAreKeys == Misrounded \subseteq Key
ASSUME FanoutIsAPowerOfTwo == \E n \in 1 .. 10 : max_fanout = 2^n

Superroot == 0
NoNode == -1

\* Keys predicted just below a boundary they are on, just above it, and keys
\* that are less than the computed value of the boundary.
Roundings ==
    {r \in [below : SUBSET Misrounded, above : SUBSET Misrounded,
            late : SUBSET Misrounded] : r.below \cap r.above = {}}

NewDataNode(keys, level, duplication_factor) ==
    [is_leaf_ |-> TRUE, level_ |-> level,
     duplication_factor_ |-> duplication_factor, keys |-> keys,
     prev_leaf_ |-> NoNode, next_leaf_ |-> NoNode]

NewModelNode(level, duplication_factor, start, width, num_children, rounding) ==
    [is_leaf_ |-> FALSE, level_ |-> level,
     duplication_factor_ |-> duplication_factor, start |-> start,
     width |-> width, rounding |-> rounding, num_children_ |-> num_children,
     children_ |-> [i \in 0 .. num_children - 1 |-> NoNode]]

Root(t) == t.nodes[Superroot].children_[0]
Leaves(t) == {i \in DOMAIN t.nodes : t.nodes[i].is_leaf_}
Keys(t) == UNION {t.nodes[i].keys : i \in Leaves(t)}

\* The child pointers of a node come in runs of Repeats equal ones.
Repeats(n) == 2^n.duplication_factor_
RunStart(bucketID, repeats) == bucketID - (bucketID % repeats)

first_key(leaf) == IF leaf.keys = {} THEN kMax ELSE Min(leaf.keys)
last_key(leaf) == IF leaf.keys = {} THEN kLowest ELSE Max(leaf.keys)

-----------------------------------------------------------------------------
\* Prediction of a key's bucket; clamped to a child pointer by Bucket.
OnBoundary(n, key) == (key - n.start) % n.width = 0

Predict(n, key) ==
    (key - n.start) \div n.width
        - (IF OnBoundary(n, key) /\ key \in n.rounding.below THEN 1 ELSE 0)

Bucket(n, key) ==
    LET p == Predict(n, key)
    IN  IF p < 0 THEN 0
        ELSE IF p >= n.num_children_ THEN n.num_children_ - 1 ELSE p

\* Fault: upper_bound in place of lower_bound.
NotAfterBoundary(n, key, bucketID) == key <= n.start + bucketID * n.width

\* Whether lower_bound of the boundary before the bucket is behind the key.
BeforeBoundary(n, key, bucketID) ==
    LET boundary == n.start + bucketID * n.width
    IN  key < boundary \/ (key = boundary /\ key \in n.rounding.late)

-----------------------------------------------------------------------------
\* A traversal path is a sequence of pairs of a model node and a child
\* pointer.  Descent is the part of it from a node down to a leaf's parent,
\* taking in each model node the bucket that it picks.
Step(node, bucketID) == [node |-> node, bucketID |-> bucketID]

Models(t) == DOMAIN t.nodes \ Leaves(t)

Descent(t, from, picks) ==
    LET descent[i \in DOMAIN t.nodes] ==
            IF t.nodes[i].is_leaf_ THEN << >>
            ELSE <<Step(i, picks[i])>> \o descent[t.nodes[i].children_[picks[i]]]
    IN  descent[from]

LeftMost(t) == [i \in Models(t) |-> 0]
RightMost(t) == [i \in Models(t) |-> t.nodes[i].num_children_ - 1]
Buckets(t, key) == [i \in Models(t) |-> Bucket(t.nodes[i], key)]

ChildOf(t, step) == t.nodes[step.node].children_[step.bucketID]
LeafOf(t, path) == ChildOf(t, Last(path))

PathFromTop(t, picks) == <<Step(Superroot, 0)>> \o Descent(t, Root(t), picks)

first_data_node(t) == LeafOf(t, PathFromTop(t, LeftMost(t)))
last_data_node(t) == LeafOf(t, PathFromTop(t, RightMost(t)))

\* correct_traversal_path: the path to the leaf left or right of the one that
\* takes `repeats` pointers at the end of path.  The code climbs with
\* "tn = traversal_path.back()", where tn is a reference to the element just
\* popped, so the ancestor it stops at keeps its bucketID.
correct_traversal_path(t, path, repeats, left) ==
    LET repeatsAt(i) ==
            IF i = Len(path) THEN repeats
            ELSE Repeats(t.nodes[path[i + 1].node])
        start(i) == RunStart(path[i].bucketID, repeatsAt(i))
        end(i) == start(i) + repeatsAt(i)
        atEdge(i) ==
            IF left THEN start(i) = 0
            ELSE end(i) = t.nodes[path[i].node].num_children_
        turn == Max({i \in 1 .. Len(path) : ~atEdge(i)})
        bucketID == IF left THEN start(turn) - 1 ELSE end(turn)
    IN  IF turn = Len(path)
        THEN [path EXCEPT ![turn].bucketID = bucketID]
        ELSE SubSeq(path, 1, turn)
                \o (IF left
                    THEN Descent(t, ChildOf(t, Step(path[turn].node, bucketID)), RightMost(t))
                    ELSE Descent(t, ChildOf(t, Step(path[turn].node, bucketID)), LeftMost(t)))

\* get_leaf looks at the neighbour of the leaf it reached if the prediction is
\* within a relative tolerance of an integer; around 0 only 0 itself is.
WithinTolerance(n, key) ==
    /\ OnBoundary(n, key)
    /\ \/ key > n.start
       \/ key = n.start /\ key \notin n.rounding.below \cup n.rounding.above

\* get_leaf with ALEX_SAFE_LOOKUP: the leaf and the traversal path.
get_leaf(t, key) ==
    LET path == PathFromTop(t, Buckets(t, key))
        leaf == LeafOf(t, path)
        prev == t.nodes[leaf].prev_leaf_
        next == t.nodes[leaf].next_leaf_
        parent == t.nodes[Last(path).node]
        below == key \in parent.rounding.below
        checked == Len(path) > 1 /\ WithinTolerance(parent, key)
        Corrected(left) ==
            correct_traversal_path(t, path, Repeats(t.nodes[leaf]), left)
    IN  IF checked /\ ~below /\ prev # NoNode /\ last_key(t.nodes[prev]) >= key
        THEN [leaf |-> prev, path |-> Corrected(TRUE)]
        ELSE IF checked /\ below /\ next # NoNode /\ first_key(t.nodes[next]) <= key
        THEN [leaf |-> next, path |-> Corrected(FALSE)]
        ELSE [leaf |-> leaf, path |-> path]

\* Fault: the last pointer is out of reach.
childBeforeLast(t, node, key) ==
    LET n == t.nodes[node]
    IN  n.children_[Min({Bucket(n, key), n.num_children_ - 2})]

\* get_child_node: by the prediction alone.
get_child_node(t, node, key) ==
    t.nodes[node].children_[Bucket(t.nodes[node], key)]

-----------------------------------------------------------------------------
\* Assignments to members of a node.
WithNode(t, i, n) ==
    [t EXCEPT !.nodes = [j \in DOMAIN @ |-> IF j = i THEN n ELSE @[j]]]

\* Fault: only the first pointer of a run is set.
RedirectedOnce(t, node, start, end, child) ==
    WithNode(t, node, [t.nodes[node] EXCEPT !.children_[start] = child])

\* Points a run of child pointers at a node.
Redirected(t, node, start, end, child) ==
    WithNode(t, node,
        [t.nodes[node] EXCEPT !.children_ =
            [b \in DOMAIN @ |-> IF start <= b /\ b < end THEN child ELSE @[b]]])

Deleted(t, node) == [t EXCEPT !.nodes = [i \in DOMAIN @ \ {node} |-> @[i]]]

=============================================================================
