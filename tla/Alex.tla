--------------------------------- MODULE Alex ---------------------------------
(***************************************************************************)
(* An index of unique keys under any sequence of inserts and erasures:     *)
(* class Alex of src/core/alex.h.                                          *)
(*                                                                         *)
(* An insert that its leaf declines takes several steps, one for each turn *)
(* of the loop that splits the leaf and tries again; op is its state in    *)
(* between.  Which leaf declines, and how deep a fanout tree it is split   *)
(* by, hangs on costs, so any outcome of these is allowed.  The same holds *)
(* for the counters of keys outside the domain, by which an insert expands *)
(* the root.                                                               *)
(*                                                                         *)
(* Bounds: a leaf declines only while its parent's buckets can be halved,  *)
(* and below MaxLevel; the root is expanded above MinLevel.                *)
(***************************************************************************)
EXTENDS RmiUpdates

CONSTANTS
    Load,                    \* the sets of keys that are loaded in bulk
    Policies,                \* experimental_params_: how leaves are split
    MinLevel,                \* bound: the level of a root that is not expanded
    MaxLevel                 \* bound: the level of a leaf that is not split

ASSUME LoadsAreSetsOfKeys ==
    \A keys \in Load :
        /\ keys \subseteq Key /\ IsFiniteSet(keys) /\ Cardinality(keys) >= 2
        /\ (Max(keys) - Min(keys)) % 4 = 0 \* bound: models of integers
ASSUME ParametersAreValid ==
    /\ Policies \subseteq [method : 0 .. 2, upwards : BOOLEAN]
    /\ \A policy \in Policies : policy.upwards => policy.method # 2
    /\ MinLevel \in Int /\ MaxLevel \in Int

VARIABLES
    tree, \* the tree
    op,   \* the insert that was declined, or Idle
    ret   \* the last call, its key and its answer

vars == <<tree, op, ret>>

Answer(call, key, count) == [call |-> call, key |-> key, count |-> count]
Pending == Answer("pending", 0, 0)
Idle == [key |-> kLowest]

\* Fanout trees by depth: the ones that bulk_load may use, and the ones that
\* find_best_fanout_existing_node may choose.
FanoutTrees ==
    {[depth |-> 1, factors |-> <<0, 0>>]}
    \cup {[depth |-> 2, factors |-> f] :
             f \in {<<1, 0, 0>>, <<0, 0, 1>>, <<0, 0, 0, 0>>}}

ChosenTrees(fail, method) ==
    IF fail = 1 /\ method = 2 THEN FanoutTrees
    ELSE {f \in FanoutTrees : f.depth = 1}

-----------------------------------------------------------------------------
\* A root leaf below its superroot.
RootLeaf(keys, least, greatest) ==
    [nodes |-> [i \in 0 .. 1 |->
                   IF i = Superroot
                   THEN [NewModelNode(-1, 0, 0, 1, 1, [below |-> {}, above |-> {}, late |-> {}])
                            EXCEPT !.children_ = [b \in {0} |-> 1]]
                   ELSE NewDataNode(keys, 0, 0)],
     fresh |-> 2, key_domain_min_ |-> least, key_domain_max_ |-> greatest]

\* The constructor's empty root leaf, or what bulk_load builds of at least two
\* keys: a root leaf, or a model node with one level of leaves.  Deeper trees
\* arise by splits.
Empty == RootLeaf({}, kMax, kLowest)

Loaded(keys) == update_superroot_key_domain(RootLeaf(keys, kMax, kLowest))

Init ==
    /\ \/ tree = Empty
       \/ \E keys \in Load : tree = Loaded(keys)
       \/ \E keys \in Load, f \in FanoutTrees, rounding \in Roundings :
              tree = split_downwards(Loaded(keys), Superroot, 0, f.factors, rounding)
    /\ op = Idle
    /\ ret = Answer("bulk_load", 0, 0)

-----------------------------------------------------------------------------
\* An insert expands the root when enough keys are outside the key domain.
Expanded(key) ==
    IF \/ tree.nodes[Root(tree)].is_leaf_
       \/ tree.nodes[Root(tree)].level_ <= MinLevel THEN {tree}
    ELSE IF key > tree.key_domain_max_
    THEN {tree} \cup {expand_root(tree, key, FALSE, r) : r \in Roundings}
    ELSE IF key < tree.key_domain_min_
    THEN {tree} \cup {expand_root(tree, key, TRUE, r) : r \in Roundings}
    ELSE {tree}

WithKeys(t, leaf, keys) == WithNode(t, leaf, [t.nodes[leaf] EXCEPT !.keys = keys])

\* AlexDataNode::insert, when the leaf takes the key or has it.
Accepts(t, leaf, key) ==
    /\ tree' = WithKeys(t, leaf, t.nodes[leaf].keys \cup {key})
    /\ op' = Idle
    /\ ret' = Answer("insert", key, IF key \in t.nodes[leaf].keys THEN 0 ELSE 1)

\* Bound on the leaves that are split: they have two keys, and all buckets on
\* the path, or what the root leaf spans, can be halved twice.
CanSplit(t, leaf, parent, path) ==
    /\ Cardinality(t.nodes[leaf].keys) >= 2
    /\ t.nodes[leaf].level_ < MaxLevel
    /\ IF parent = Superroot
       THEN (Max(t.nodes[leaf].keys) - Min(t.nodes[leaf].keys)) % 4 = 0
       ELSE \A i \in {parent} \cup {path[j].node : j \in 2 .. Len(path)} :
                i \in DOMAIN t.nodes => t.nodes[i].width % 4 = 0

\* The leaf gives up with a fail code: 1 when it is full and costs too much, 2
\* when its cost is catastrophic, which alone is possible in a leaf that was
\* just built.  Code 3, of a full leaf of the greatest size, is treated as 2
\* is.  The leaf does not look whether it has the key.
Declines(t, leaf, parent, path, key, policy, codes) ==
    /\ CanSplit(t, leaf, parent, path)
    /\ \E fail \in codes :
           op' = [key |-> key, policy |-> policy, fail |-> fail,
                  leaf |-> leaf, parent |-> parent, path |-> path]
    /\ tree' = t
    /\ ret' = Pending

Insert(key) ==
    /\ op = Idle
    /\ \E t \in Expanded(key) : Accepts(t, get_leaf(t, key).leaf, key)

DeclinedInsert(key) ==
    /\ op = Idle
    /\ \E t \in Expanded(key) :
           LET found == get_leaf(t, key)
           IN  \E policy \in Policies :
                   Declines(t, found.leaf, Last(found.path).node,
                            IF policy.upwards THEN found.path ELSE << >>,
                            key, policy, {1, 2})

-----------------------------------------------------------------------------
\* One turn of the loop in insert.  All start by renewing the key domain when
\* the root is a leaf.
Prepared == IF op.parent = Superroot THEN update_superroot_key_domain(tree) ELSE tree

Retries(t, leaf, parent, path) ==
    \/ Accepts(t, leaf, op.key)
    \/ Declines(t, leaf, parent, path, op.key, op.policy, {2})

\* Fanout tree depth 0: the leaf is resized and its model trained anew.
Retrain ==
    /\ op # Idle
    /\ op.fail = 1 /\ op.policy.method # 0
    /\ Retries(Prepared, op.leaf, op.parent, op.path)

\* The bucket to split is predicted, whatever leaf declined.
BucketToSplit == Bucket(Prepared.nodes[op.parent], op.key)

\* The path, of use only to splits upwards, is used again in each turn, though
\* it stays the one to the leaf that declined first, while these splits delete
\* nodes on it and all splits move or replace the leaf.  When it has a deleted
\* node, or leads a split upwards to another leaf, the model stops: the code
\* reads freed memory, or splits that leaf, or takes a model node for a leaf.
PathHasDeletedNode == \E i \in DOMAIN op.path : op.path[i].node \notin DOMAIN tree.nodes

ShouldSplitUpwards ==
    best_split_propagation(Prepared, op.path) > Prepared.nodes[Superroot].level_

\* Without splits upwards, a leaf is split downwards when its parent would
\* have too many pointers or is the superroot; with them, when that is cheapest.
SplitDownwards ==
    /\ op # Idle
    /\ \E f \in ChosenTrees(op.fail, op.policy.method), rounding \in Roundings :
           LET p == Prepared.nodes[op.parent]
               dup == Prepared.nodes[op.leaf].duplication_factor_
           IN  /\ IF op.policy.upwards THEN ~PathHasDeletedNode /\ ~ShouldSplitUpwards
                  ELSE \/ p.num_children_ * 2^f.depth > max_fanout * 2^dup
                       \/ p.level_ = Prepared.nodes[Superroot].level_
               /\ LET t == split_downwards(Prepared, op.parent, BucketToSplit,
                                           f.factors, rounding)
                  IN  Retries(t, get_child_node(t, tree.fresh, op.key), tree.fresh, op.path)

SplitSideways ==
    /\ op # Idle
    /\ ~op.policy.upwards
    /\ \E f \in ChosenTrees(op.fail, op.policy.method) :
           LET p == Prepared.nodes[op.parent]
               dup == Prepared.nodes[op.leaf].duplication_factor_
           IN  /\ p.num_children_ * 2^f.depth <= max_fanout * 2^dup
               /\ p.level_ # Prepared.nodes[Superroot].level_
               /\ LET t == split_sideways(Prepared, op.parent, BucketToSplit,
                                          f.depth, f.factors)
                  IN  Retries(t, get_child_node(t, op.parent, op.key), op.parent, op.path)

SplitUpwards ==
    /\ op # Idle
    /\ op.policy.upwards /\ ~PathHasDeletedNode
    /\ ShouldSplitUpwards /\ LeafOf(Prepared, op.path) = op.leaf
    /\ LET s == split_upwards(Prepared, best_split_propagation(Prepared, op.path), op.path)
       IN  Retries(s.t, get_child_node(s.t, s.parent, op.key), s.parent, op.path)

-----------------------------------------------------------------------------
\* An empty leaf is merged, though the key was not there.
Erased(t, leaf, key) ==
    LET left == WithKeys(t, leaf, t.nodes[leaf].keys \ {key})
    IN  IF left.nodes[leaf].keys = {} THEN merge(left, leaf, key) ELSE left

\* erase, and erase_one of a unique key, look the key up; erase(Iterator) has
\* the leaf that the key is in.
Erase(key) ==
    /\ op = Idle
    /\ \E leaf \in {get_leaf(tree, key).leaf}
                     \cup {i \in Leaves(tree) : key \in tree.nodes[i].keys} :
           /\ tree' = Erased(tree, leaf, key)
           /\ ret' = Answer("erase", key, IF key \in tree.nodes[leaf].keys THEN 1 ELSE 0)
    /\ UNCHANGED op

Next ==
    \/ Retrain \/ SplitDownwards \/ SplitSideways \/ SplitUpwards
    \/ \E key \in Key : Insert(key) \/ DeclinedInsert(key) \/ Erase(key)

Spec == Init /\ [][Next]_vars

-----------------------------------------------------------------------------
\* Every pointer leads to a node on a greater level: nothing that a split, a
\* merge or an expansion deletes is left in reach, and a split upwards, which
\* finds its top node by level, finds it, though merges leave the level of a
\* leaf that moves up as it was.
TypeOK ==
    /\ ret \in [call : {"bulk_load", "pending", "insert", "erase"},
                key : Key \cup {0}, count : 0 .. 1]
    /\ op = Idle \/ (op.key \in Key /\ op.fail \in 1 .. 2 /\ op.leaf \in Leaves(tree))
    /\ \A i \in DOMAIN tree.nodes :
           LET n == tree.nodes[i]
           IN  IF n.is_leaf_
               THEN n.keys \subseteq Key
               ELSE /\ n.children_ \in [0 .. n.num_children_ - 1 -> DOMAIN tree.nodes \ {0}]
                    /\ \A b \in DOMAIN n.children_ :
                           tree.nodes[n.children_[b]].level_ > n.level_

\* AlexModelNode::validate_structure: the pointers to a child are as many as
\* its duplication factor says and start at a multiple of that number.  All
\* splits and merges find a child's other pointers by this.
PointersRepeatByDuplicationFactor ==
    \A i \in DOMAIN tree.nodes \ Leaves(tree) :
        LET n == tree.nodes[i]
        IN  \A b \in DOMAIN n.children_ :
                LET repeats == Repeats(tree.nodes[n.children_[b]])
                    start == RunStart(b, repeats)
                IN  {c \in DOMAIN n.children_ : n.children_[c] = n.children_[b]}
                        = start .. start + repeats - 1

\* The chain that iterators follow has the leaves of the tree, in its order,
\* in both directions, and no other leaf is allocated: where the pointers of a
\* node change from one child to the next, the last leaf below the one and the
\* first leaf below the other are neighbours, however deep each of them is.
\* Each split, merge and expansion relinks a chain that crosses parents.
LeafBelow(i, picks) ==
    IF tree.nodes[i].is_leaf_ THEN i ELSE LeafOf(tree, Descent(tree, i, picks))

ChainFollowsTree ==
    /\ tree.nodes[first_data_node(tree)].prev_leaf_ = NoNode
    /\ tree.nodes[last_data_node(tree)].next_leaf_ = NoNode
    /\ \A i \in Models(tree) : \A b \in DOMAIN tree.nodes[i].children_ \ {0} :
           LET children == tree.nodes[i].children_
               last == LeafBelow(children[b - 1], RightMost(tree))
               first == LeafBelow(children[b], LeftMost(tree))
           IN  children[b - 1] # children[b] =>
                   /\ tree.nodes[last].next_leaf_ = first
                   /\ tree.nodes[first].prev_leaf_ = last
    /\ \A leaf \in Leaves(tree) :
           \E i \in Models(tree) : \E b \in DOMAIN tree.nodes[i].children_ :
               tree.nodes[i].children_[b] = leaf

\* A lookup of a key ends in the leaf that has it (the comment on get_leaf).
KeysAreRouted ==
    \A leaf \in Leaves(tree) : \A key \in tree.nodes[leaf].keys :
        get_leaf(tree, key).leaf = leaf

\* A model node divides what its pointers in the parent divide, and the root
\* the key domain: splits and expansions compute the models apart.
ModelsCoverTheirBuckets ==
    /\ LET root == tree.nodes[Root(tree)]
       IN  root.is_leaf_
            \/ /\ root.start = tree.key_domain_min_
               /\ root.start + root.num_children_ * root.width = tree.key_domain_max_
    /\ \A i \in DOMAIN tree.nodes \ (Leaves(tree) \cup {Superroot}) :
           LET n == tree.nodes[i]
           IN  \A b \in DOMAIN n.children_ :
                   LET child == tree.nodes[n.children_[b]]
                   IN  child.is_leaf_
                        \/ /\ child.start = n.start + RunStart(b, Repeats(child)) * n.width
                           /\ child.num_children_ * child.width = Repeats(child) * n.width

\* What a declined insert tries next is where a lookup of the key goes, and is
\* below the node it takes for its parent.
InsertIsTriedWhereLookupsGo ==
    op # Idle =>
        LET found == get_leaf(tree, op.key)
        IN  op.leaf = found.leaf /\ op.parent = Last(found.path).node

\* The whole index is a set of keys: splits, merges and expansions neither
\* lose nor double a key, and every call answers by the set.
KS == INSTANCE KeySet WITH keys <- Keys(tree)
IsKeySet == KS!Spec

\* The comment in split_upwards: the entries of the traversal path go stale,
\* "which is fine because we no longer use them".
StalePathIsNotUsed == (op # Idle /\ op.policy.upwards) => ~PathHasDeletedNode

\* The comments in get_leaf and on correct_traversal_path: the path that comes
\* with a leaf leads to it, "the leaf node that is to the left or right of the
\* current leaf node" included.  A merge works on what it leads to.
PathLeadsToLeaf ==
    \A key \in Key :
        LET found == get_leaf(tree, key)
        IN  LeafOf(tree, found.path) = found.leaf

\* The comment on insert: "Insert does not happen if duplicates are not allowed
\* and duplicate is found".
KeysAreInOneLeaf ==
    \A i, j \in Leaves(tree) :
        i # j => tree.nodes[i].keys \cap tree.nodes[j].keys = {}
=============================================================================
