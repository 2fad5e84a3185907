------------------------------ MODULE RmiUpdates ------------------------------
(***************************************************************************)
(* The changes that an index makes to its tree: splits of a full leaf      *)
(* downwards, sideways and upwards, merges of an emptied leaf, expansion   *)
(* of the root, each as a function from a tree to a tree (src/core/alex.h).*)
(*                                                                         *)
(* A data node is the set of its keys: where they lie in its gapped array  *)
(* is the business of module GappedArray.  Of the fanout tree's decision a *)
(* split has the depth and, in key order, the log of how many buckets each *)
(* new leaf takes ("factors").                                             *)
(***************************************************************************)
EXTENDS Rmi

\* The bucket after each new leaf's, for leaves laid out from start on.
Ends(start, factors) ==
    LET ends[j \in 0 .. Len(factors)] ==
            IF j = 0 THEN start ELSE ends[j - 1] + 2^factors[j]
    IN  ends

TotalFanout(factors) == Ends(0, factors)[Len(factors)]

\* Fault: the leaf after the old one keeps its link to it.
link_only_before(t, old, leaves) ==
    LET id(j) == t.fresh + j - 1
        prev == t.nodes[old].prev_leaf_
        linked(j) ==
            [leaves[j] EXCEPT
                !.prev_leaf_ = IF j = 1 THEN prev ELSE id(j - 1),
                !.next_leaf_ = IF j = Len(leaves) THEN t.nodes[old].next_leaf_
                               ELSE id(j + 1)]
    IN  [t EXCEPT
            !.nodes = [i \in DOMAIN t.nodes \cup {id(j) : j \in DOMAIN leaves} |->
                          IF i = prev THEN [t.nodes[i] EXCEPT !.next_leaf_ = id(1)]
                          ELSE IF i < t.fresh THEN t.nodes[i]
                          ELSE linked(i - t.fresh + 1)],
            !.fresh = @ + Len(leaves)]

\* link_data_nodes: new leaves take the place of an old one in the chain, at
\* the next free addresses.
link_data_nodes(t, old, leaves) ==
    LET id(j) == t.fresh + j - 1
        prev == t.nodes[old].prev_leaf_
        next == t.nodes[old].next_leaf_
        linked(j) ==
            [leaves[j] EXCEPT
                !.prev_leaf_ = IF j = 1 THEN prev ELSE id(j - 1),
                !.next_leaf_ = IF j = Len(leaves) THEN next ELSE id(j + 1)]
        neighbour(i) ==
            IF i = prev THEN [t.nodes[i] EXCEPT !.next_leaf_ = id(1)]
            ELSE IF i = next THEN [t.nodes[i] EXCEPT !.prev_leaf_ = id(Len(leaves))]
            ELSE t.nodes[i]
    IN  [t EXCEPT
            !.nodes = [i \in DOMAIN t.nodes \cup {id(j) : j \in DOMAIN leaves} |->
                          IF i < t.fresh THEN neighbour(i)
                          ELSE linked(i - t.fresh + 1)],
            !.fresh = @ + Len(leaves)]

\* Fault: the last leaf ends at its last bucket, too.
PartsWithin(n, keys, ends, count) ==
    [j \in 1 .. count |->
        {k \in keys : /\ \A i \in 1 .. j - 1 : Predict(n, k) >= ends[i]
                      /\ Predict(n, k) < ends[j]}]

\* Which keys go to which of the leaves that end at the given buckets of n: up
\* to lower_bound of the end's value, and on while the prediction is before
\* the end.
Parts(n, keys, ends, count) ==
    LET goesBefore(k, end) == BeforeBoundary(n, k, end) \/ Predict(n, k) < end
    IN  [j \in 1 .. count |->
            {k \in keys : /\ \A i \in 1 .. j - 1 : ~goesBefore(k, ends[i])
                          /\ j = count \/ goesBefore(k, ends[j])}]

\* create_two_new_data_nodes and create_new_data_nodes: leaves for the keys of
\* an old leaf, as children of parent from a bucket on.
create_new_data_nodes(t, old, parent, start, factors) ==
    LET n == t.nodes[parent]
        count == Len(factors)
        ends == Ends(start, factors)
        parts == Parts(n, t.nodes[old].keys, ends, count)
        leaves == [j \in 1 .. count |->
                      NewDataNode(parts[j], n.level_ + 1, factors[j])]
        leafOf(b) == CHOOSE j \in 1 .. count : ends[j - 1] <= b /\ b < ends[j]
        adopted ==
            [n EXCEPT !.children_ = [b \in DOMAIN @ |->
                IF start <= b /\ b < ends[count] THEN t.fresh + leafOf(b) - 1 ELSE @[b]]]
    IN  WithNode(link_data_nodes(t, old, leaves), parent, adopted)

-----------------------------------------------------------------------------
\* Fault: the children keep their duplication factors.
expandKeepingFactors(t, node, log2_expansion_factor) ==
    LET n == t.nodes[node]
        factor == 2^log2_expansion_factor
    IN  [t EXCEPT !.nodes[node] =
            [n EXCEPT
                !.width = @ \div factor,
                !.num_children_ = @ * factor,
                !.children_ = [i \in 0 .. n.num_children_ * factor - 1 |->
                                  n.children_[i \div factor]]]]

\* Fault: the model is not expanded with the pointers.
expandPointers(t, node, log2_expansion_factor) ==
    LET n == t.nodes[node]
        factor == 2^log2_expansion_factor
        children == {n.children_[i] : i \in DOMAIN n.children_}
        wider == [n EXCEPT
                    !.num_children_ = @ * factor,
                    !.children_ = [i \in 0 .. n.num_children_ * factor - 1 |->
                                      n.children_[i \div factor]]]
    IN  [t EXCEPT !.nodes =
            [i \in DOMAIN @ |->
                IF i = node THEN wider
                ELSE IF i \in children
                THEN [@[i] EXCEPT !.duplication_factor_ = @ + log2_expansion_factor]
                ELSE @[i]]]

\* AlexModelNode::expand: more pointers to each child of a node.
Wider(n, factor) ==
    [n EXCEPT
        !.width = @ \div factor,
        !.num_children_ = @ * factor,
        !.children_ = [i \in 0 .. n.num_children_ * factor - 1 |->
                          n.children_[i \div factor]]]

expand(t, node, log2_expansion_factor) ==
    LET n == t.nodes[node]
    IN  [t EXCEPT !.nodes =
            [i \in DOMAIN t.nodes |->
                IF i = node THEN Wider(n, 2^log2_expansion_factor)
                ELSE IF i \in Range(n.children_)
                THEN [t.nodes[i] EXCEPT !.duplication_factor_ = @ + log2_expansion_factor]
                ELSE t.nodes[i]]]

\* update_superroot_key_domain: the key domain is what the root leaf spans.
\* The superroot's model is set to it and used only right after that, so the
\* model is not kept: DomainModel is what split_downwards finds.
update_superroot_key_domain(t) ==
    LET least == first_key(t.nodes[first_data_node(t)])
        greatest == last_key(t.nodes[last_data_node(t)])
    IN  [t EXCEPT !.key_domain_min_ = least, !.key_domain_max_ = greatest]

DomainModel(t) ==
    [t.nodes[Superroot] EXCEPT !.start = t.key_domain_min_,
                               !.width = t.key_domain_max_ - t.key_domain_min_]

\* split_downwards: a model node, at the next free address, takes the place of
\* a leaf and divides its key space among new leaves.
split_downwards(t, parent, bucketID, factors, rounding) ==
    LET p == IF parent = Superroot THEN DomainModel(t) ELSE t.nodes[parent]
        leaf == p.children_[bucketID]
        repeats == Repeats(t.nodes[leaf])
        start == RunStart(bucketID, repeats)
        fanout == TotalFanout(factors)
        new_node ==
            NewModelNode(t.nodes[leaf].level_, t.nodes[leaf].duplication_factor_,
                         p.start + start * p.width, (repeats * p.width) \div fanout,
                         fanout, rounding)
        allocated == [t EXCEPT !.nodes = [i \in DOMAIN @ \cup {t.fresh} |->
                                       IF i = t.fresh THEN new_node ELSE @[i]], !.fresh = @ + 1]
        split == create_new_data_nodes(allocated, leaf, t.fresh, 0, factors)
        placed == Redirected(Deleted(split, leaf), parent,
                             start, start + repeats, t.fresh)
    IN  IF parent = Superroot
        THEN WithNode(placed, Superroot,
                      [placed.nodes[Superroot] EXCEPT !.level_ = new_node.level_ - 1])
        ELSE placed

\* split_sideways: new leaves share the leaf's pointers, of which the parent
\* gets more when they are too few.
split_sideways(t, parent, bucketID, depth, factors) ==
    LET leaf == t.nodes[parent].children_[bucketID]
        dup == t.nodes[leaf].duplication_factor_
        more == IF depth > dup THEN depth - dup ELSE 0
        extra == IF dup > depth THEN dup - depth ELSE 0
        expanded == IF more > 0 THEN expand(t, parent, more) ELSE t
        start == RunStart(bucketID * 2^more, 2^(dup + more))
    IN  Deleted(create_new_data_nodes(expanded, leaf, parent, start,
                                      [j \in DOMAIN factors |-> factors[j] + extra]),
                leaf)

-----------------------------------------------------------------------------
\* best_split_propagation: the level to split up to, by the pointers it costs.
\* A model node's own size is ten pointers.
base_cost == 10

best_split_propagation(t, path) ==
    LET n(i) == t.nodes[path[i].node]
        redundant(i) == t.nodes[ChildOf(t, path[i])].duplication_factor_ > 0
        possible(i) == redundant(i) \/ n(i).num_children_ < max_fanout
        stop_cost(i) == IF redundant(i) THEN 0 ELSE n(i).num_children_ + base_cost
        split_cost(i) ==
            IF n(i).num_children_ <= 2 THEN 0 ELSE n(i).num_children_ \div 2 + base_cost
        cost(i) == FoldLeft(LAMBDA c, j : c + split_cost(j), stop_cost(i),
                            [j \in 1 .. Len(path) - i |-> i + j])
        best == CHOOSE i \in 1 .. Len(path) :
                    /\ possible(i)
                    /\ \A j \in 1 .. Len(path) :
                           possible(j) => \/ cost(i) < cost(j)
                                          \/ cost(i) = cost(j) /\ i >= j
    IN  IF t.nodes[Root(t)].is_leaf_ THEN t.nodes[Superroot].level_
        ELSE n(best).level_

\* One node on the way up of split_upwards, s.left and s.right being what its
\* child on the path was split into.  The half with that child is doubled into
\* a node of the same fanout, the other half becomes a node or, if it is one
\* child, that child is pulled up.
SplitThrough(s, step) ==
    LET n == s.t.nodes[step.node]
        half == n.num_children_ \div 2
        double_left_half == step.bucketID < half
        from == IF double_left_half THEN 0 ELSE half
        rest == half - from
        doubled == s.t.fresh
        pulled == n.children_[rest]
        pull_up == Repeats(s.t.nodes[pulled]) = half
        kept == IF pull_up THEN pulled ELSE s.t.fresh + 1
        repeats == Repeats(s.t.nodes[s.left])
        start == RunStart(2 * (step.bucketID - from), 2 * repeats)
        doubledNode ==
            [n EXCEPT !.start = @ + from * n.width,
                      !.width = @ \div 2,
                      !.children_ = [i \in DOMAIN @ |->
                          IF i \in start .. start + repeats - 1 THEN s.left
                          ELSE IF i \in start + repeats .. start + 2 * repeats - 1 THEN s.right
                          ELSE @[from + i \div 2]]]
        keptNode ==
            [n EXCEPT !.start = @ + rest * n.width,
                      !.num_children_ = half,
                      !.children_ = [i \in 0 .. half - 1 |-> @[rest + i]]]
        doubledChildren == {n.children_[from + i] : i \in 0 .. half - 1}
        after(i) ==
            IF i = doubled THEN doubledNode
            ELSE IF i = kept
            THEN IF pull_up THEN [s.t.nodes[i] EXCEPT
                                    !.level_ = n.level_,
                                    !.duplication_factor_ = n.duplication_factor_]
                 ELSE keptNode
            ELSE IF i \in doubledChildren
            THEN [s.t.nodes[i] EXCEPT !.duplication_factor_ = @ + 1]
            ELSE s.t.nodes[i]
    IN  [t |-> [s.t EXCEPT
                    !.nodes = [i \in (DOMAIN @ \ {step.node}) \cup {doubled, kept} |-> after(i)],
                    !.fresh = @ + 2],
         left |-> IF double_left_half THEN doubled ELSE kept,
         right |-> IF double_left_half THEN kept ELSE doubled,
         new_parent |-> IF s.new_parent = NoNode THEN doubled ELSE s.new_parent]

\* The leaf divided, and all nodes on the path but those up to the top one.
\* Unlike the other splits this one takes the leaf from the traversal path, and
\* does not look at predictions to divide the keys.
SplitAlong(t, path, top) ==
    LET parent == t.nodes[Last(path).node]
        leaf == LeafOf(t, path)
        old == t.nodes[leaf]
        run == RunStart(Last(path).bucketID, Repeats(old))
        middle == parent.start + run * parent.width
                    + (Repeats(old) * parent.width) \div 2
        leftKeys == {k \in old.keys :
                        k < middle \/ (k = middle /\ k \in parent.rounding.late)}
        halves == <<NewDataNode(leftKeys, old.level_, old.duplication_factor_),
                    NewDataNode(old.keys \ leftKeys, old.level_, old.duplication_factor_)>>
    IN  FoldLeft(LAMBDA s, i : SplitThrough(s, path[Len(path) + 1 - i]),
                 [t |-> Deleted(link_data_nodes(t, leaf, halves), leaf),
                  left |-> t.fresh, right |-> t.fresh + 1,
                  new_parent |-> NoNode],
                 [i \in 1 .. Len(path) - top |-> i])

\* split_upwards: the tree, and the parent of the two new leaves.
split_upwards(t, stop_propagation_level, path) ==
    LET top == Max({i \in 1 .. Len(path) :
                       t.nodes[path[i].node].level_ <= stop_propagation_level})
        split == SplitAlong(t, path, top)
        node == path[top].node
        full == split.t.nodes[split.left].duplication_factor_ = 0
        expanded ==
            IF full THEN expand(split.t, node, 1)
            ELSE [split.t EXCEPT !.nodes = [i \in DOMAIN @ |->
                     IF i \in {split.left, split.right}
                     THEN [@[i] EXCEPT !.duplication_factor_ = @ - 1] ELSE @[i]]]
        bucketID == path[top].bucketID * (IF full THEN 2 ELSE 1)
        repeats == 2 * Repeats(expanded.nodes[split.left])
        start == RunStart(bucketID, repeats)
        mid == start + repeats \div 2
    IN  [t |-> Redirected(Redirected(expanded, node, start, mid, split.left),
                          node, mid, start + repeats, split.right),
         parent |-> IF split.new_parent = NoNode THEN node ELSE split.new_parent]

-----------------------------------------------------------------------------
\* expand_root: the key domain grows by a power of two to one side, so that it
\* has the key and all others that were clamped to the outermost leaf.  These
\* move to new leaves, one for each size of the old domain.  Assumed: the new
\* domain lies within the key type.
pow_2_round_up(n) == 2^(CHOOSE i \in 0 .. n : 2^i >= n /\ \A j \in 0 .. i - 1 : 2^j < n)

DomainSize(t) == t.key_domain_max_ - t.key_domain_min_

OutermostNode(t, expand_left) == IF expand_left THEN first_data_node(t) ELSE last_data_node(t)

\* expansion_factor.
ExpansionFactor(t, key, expand_left) ==
    LET out == t.nodes[OutermostNode(t, expand_left)]
        key_difference ==
            IF expand_left THEN t.key_domain_min_ - Min({key, first_key(out)})
            ELSE Max({key, last_key(out)}) - t.key_domain_max_
    IN  pow_2_round_up((key_difference + 2 * DomainSize(t) - 1) \div DomainSize(t))

\* The root with more pointers, or a new root above it; n of its pointers lead
\* to the old nodes, and n to each of the new leaves, which are numbered from
\* the old domain outwards.
CanGrow(t, factor) == t.nodes[Root(t)].num_children_ * factor <= max_fanout

FirstNewLeaf(t, factor) == IF CanGrow(t, factor) THEN t.fresh ELSE t.fresh + 1

PointersToEach(t, factor) == IF CanGrow(t, factor) THEN t.nodes[Root(t)].num_children_ ELSE 1

ExpandedRoot(t, expand_left, factor, rounding) ==
    LET r == t.nodes[Root(t)]
        n == PointersToEach(t, factor)
        bare == IF CanGrow(t, factor)
                THEN [r EXCEPT !.num_children_ = n * factor]
                ELSE NewModelNode(r.level_ - 1, 0, r.start, r.width * r.num_children_,
                                  factor, rounding)
        group(b) == IF expand_left THEN factor - 1 - b \div n ELSE b \div n
    IN  [bare EXCEPT
            !.start = IF expand_left THEN @ - (factor - 1) * n * bare.width ELSE @,
            !.children_ = [b \in 0 .. n * factor - 1 |->
                IF group(b) > 0 THEN FirstNewLeaf(t, factor) + group(b) - 1
                ELSE IF CanGrow(t, factor) THEN r.children_[b % n] ELSE Root(t)]]

expand_root(t, key, expand_left, rounding) ==
    LET domain_size == DomainSize(t)
        outermost_node == OutermostNode(t, expand_left)
        out == t.nodes[outermost_node]
        factor == ExpansionFactor(t, key, expand_left)
        new_domain_min ==
            IF expand_left THEN t.key_domain_max_ - factor * domain_size
            ELSE t.key_domain_min_
        new_domain_max ==
            IF expand_left THEN t.key_domain_max_
            ELSE t.key_domain_min_ + factor * domain_size
        node == IF CanGrow(t, factor) THEN Root(t) ELSE t.fresh
        firstLeaf == FirstNewLeaf(t, factor)
        n == PointersToEach(t, factor)
        leaf(g) == firstLeaf + g - 1
        filled == ExpandedRoot(t, expand_left, factor, rounding)
        \* Keys of the outermost leaf beyond the old domain by g domains.
        beyond(k, g) ==
            IF expand_left THEN k < t.key_domain_min_ - g * domain_size
            ELSE k >= t.key_domain_max_ + g * domain_size
        moved(g) == {k \in out.keys : beyond(k, g - 1) /\ (g < factor - 1 => ~beyond(k, g))}
        outward(g) == IF g < factor - 1 THEN leaf(g + 1) ELSE NoNode
        inward(g) == IF g > 1 THEN leaf(g - 1) ELSE outermost_node
        newLeaf(g) ==
            [NewDataNode(moved(g), filled.level_ + 1,
                         CHOOSE d \in 0 .. n : 2^d = n) EXCEPT
                !.prev_leaf_ = IF expand_left THEN outward(g) ELSE inward(g),
                !.next_leaf_ = IF expand_left THEN inward(g) ELSE outward(g)]
        trimmed ==
            [out EXCEPT
                !.keys = {k \in @ : IF expand_left
                                    THEN k < new_domain_min \/ k >= t.key_domain_min_
                                    ELSE k < t.key_domain_max_ \/ k > new_domain_max},
                !.prev_leaf_ = IF expand_left THEN leaf(1) ELSE @,
                !.next_leaf_ = IF expand_left THEN @ ELSE leaf(1)]
        nodes ==
            [i \in DOMAIN t.nodes \cup {node} \cup {leaf(g) : g \in 1 .. factor - 1} |->
                IF i = Superroot
                THEN [t.nodes[i] EXCEPT !.children_ = [b \in {0} |-> node],
                                        !.level_ = filled.level_ - 1]
                ELSE IF i = node THEN filled
                ELSE IF i = outermost_node THEN trimmed
                ELSE IF i \in DOMAIN t.nodes THEN t.nodes[i]
                ELSE newLeaf(i - firstLeaf + 1)]
    IN  [t EXCEPT
            !.nodes = nodes,
            !.fresh = firstLeaf + factor - 1,
            !.key_domain_min_ = new_domain_min,
            !.key_domain_max_ = new_domain_max]

-----------------------------------------------------------------------------
\* merge, of a leaf without keys that a lookup of key led to.  One step: the
\* leaf at s.pos of the path joins the leaf its run of pointers is paired with,
\* or takes its parent's place when it is the only child; s.pos is 0 at the end.
MergeStep(s, path) ==
    LET parent == path[s.pos].node
        p == s.t.nodes[parent]
        leaf == s.t.nodes[s.leaf]
        repeats == Repeats(leaf)
        bucketID == path[s.pos].bucketID
        start == RunStart(bucketID, repeats)
        adjacent_to_right == bucketID % (2 * repeats) = bucketID % repeats
        sibling == p.children_[IF adjacent_to_right THEN start + repeats ELSE start - 1]
        canJoin == /\ leaf.keys = {}
                   /\ repeats < p.num_children_
                   /\ s.t.nodes[sibling].is_leaf_
                   /\ s.t.nodes[sibling].duplication_factor_ = leaf.duplication_factor_
        outer == IF adjacent_to_right THEN leaf.prev_leaf_ ELSE leaf.next_leaf_
        relinked(i) ==
            IF i = sibling
            THEN IF adjacent_to_right
                 THEN [s.t.nodes[i] EXCEPT !.duplication_factor_ = @ + 1,
                                           !.prev_leaf_ = outer]
                 ELSE [s.t.nodes[i] EXCEPT !.duplication_factor_ = @ + 1,
                                           !.next_leaf_ = outer]
            ELSE IF i = outer
            THEN IF adjacent_to_right
                 THEN [s.t.nodes[i] EXCEPT !.next_leaf_ = sibling]
                 ELSE [s.t.nodes[i] EXCEPT !.prev_leaf_ = sibling]
            ELSE s.t.nodes[i]
        joined == Redirected([s.t EXCEPT !.nodes = [i \in DOMAIN @ |-> relinked(i)]],
                             parent, start, start + repeats, sibling)
        above == path[s.pos - 1]
        upper == RunStart(above.bucketID, Repeats(p))
        kept == WithNode(s.t, s.leaf,
                         [leaf EXCEPT !.duplication_factor_ = p.duplication_factor_])
        raised == Redirected(Deleted(kept, parent),
                             above.node, upper, upper + Repeats(p), s.leaf)
    IN  IF canJoin
        THEN [s EXCEPT !.t = Deleted(joined, s.leaf), !.leaf = sibling]
        ELSE IF repeats # p.num_children_ THEN [s EXCEPT !.pos = 0]
        ELSE IF parent = Root(s.t)
        THEN [s EXCEPT !.t = WithNode(raised, Superroot, [raised.nodes[Superroot] EXCEPT
                                                            !.level_ = leaf.level_ - 1]),
                       !.pos = 0]
        ELSE [s EXCEPT !.t = raised, !.pos = @ - 1]

merge(t, leaf, key) ==
    LET found == get_leaf(t, key)
        path ==
            IF t.nodes[found.leaf].prev_leaf_ = leaf
            THEN correct_traversal_path(t, found.path, Repeats(t.nodes[leaf]), TRUE)
            ELSE IF t.nodes[found.leaf].next_leaf_ = leaf
            THEN correct_traversal_path(t, found.path, Repeats(t.nodes[leaf]), FALSE)
            ELSE found.path
        turns[n \in 0 .. Cardinality(DOMAIN t.nodes)] ==
            IF n = 0 THEN [t |-> t, leaf |-> leaf, pos |-> Len(path)]
            ELSE LET s == turns[n - 1]
                 IN  IF s.pos = 0 THEN s ELSE MergeStep(s, path)
    IN  IF Len(path) = 1 THEN t ELSE turns[Cardinality(DOMAIN t.nodes)].t

=============================================================================
