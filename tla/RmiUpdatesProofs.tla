--------------------------- MODULE RmiUpdatesProofs ---------------------------
(***************************************************************************)
(* Theorems about changes of a tree, for all keys and fanouts, when models *)
(* predict exactly: splits downwards and sideways (SplitDownwardsIsSplit,  *)
(* SplitSidewaysIsSplit), changes to the keys of a leaf and of a root      *)
(* leaf's key domain, and merges (MergeIsMerged), however far they go,     *)
(* keep a tree well-formed and its keys.                                   *)
(***************************************************************************)
EXTENDS RmiProofs

-----------------------------------------------------------------------------
\* What a split downwards makes once it knows the model node to make.
SplitBelow(t, p, leaf, n, start, end, factors) ==
    LET placed == Redirected(Deleted(create_new_data_nodes(Allocated(t, n), leaf, t.fresh, 0, factors),
                                     leaf),
                             p, start, end, t.fresh)
    IN  IF p = Superroot
        THEN WithNode(placed, Superroot,
                      [placed.nodes[Superroot] EXCEPT !.level_ = n.level_ - 1])
        ELSE placed

\* A split downwards divides the leaf below the model node that came between.
LEMMA SplitBelowIsDivision ==
    ASSUME NEW t, NEW parent, NEW first, NEW from, NEW to,
           WellFormed(t, parent, first, from, to),
           NEW leaf \in Leaves(t), NEW p, parent[leaf] = p,
           NEW n, IsModel(n), NEW x \in Nat, n.num_children_ = 2^x,
           NEW start, NEW end, NEW ti,
           IsInterposed(t, ti, p, leaf, t.fresh, x, start, end),
           ti.nodes[t.fresh].start = n.start, ti.nodes[t.fresh].width = n.width,
           ti.nodes[t.fresh].level_ = n.level_,
           n.duplication_factor_ = t.nodes[leaf].duplication_factor_,
           p = Superroot => ti.nodes[Superroot].level_ = n.level_ - 1,
           NEW factors, NEW ends, NEW count, ends = Ends(0, factors), count = Len(factors),
           AreRuns(ends, factors, count), ends[count] = 2^x
    PROVE  IsDivision(ti, SplitBelow(t, p, leaf, n, start, end, factors),
                      leaf, t.fresh, ends, factors, count)
<1> DEFINE m == t.fresh
           A == Allocated(t, n)
           B == Deleted(create_new_data_nodes(A, leaf, m, 0, factors), leaf)
           C == Redirected(B, p, start, end, m)
           top == [C.nodes[Superroot] EXCEPT !.level_ = n.level_ - 1]
           D == IF p = Superroot THEN WithNode(C, Superroot, top) ELSE C
<1>1. /\ IsTree(t) /\ HasRuns(t, parent, first)
      /\ parent \in [Nodes(t) -> Models(t)] /\ first \in [Nodes(t) -> Nat]
      /\ IsChained(t, from, to)
  BY WellFormedParts DEF WellFormed
<1>2. /\ m \in Nat /\ Superroot \in Models(t)
      /\ \A i \in DOMAIN t.nodes : i \in Nat /\ i < m
      /\ \A i : i \in Leaves(t) <=> i \in DOMAIN t.nodes /\ t.nodes[i].is_leaf_
      /\ \A i : i \in Models(t) <=> i \in DOMAIN t.nodes /\ ~t.nodes[i].is_leaf_
  BY <1>1, NodeFacts DEF Leaves, Models
<1>3. p \in Models(t) /\ m \notin DOMAIN t.nodes /\ p # m /\ leaf # m /\ leaf # p /\ m # Superroot
  <2>1. leaf \in Nodes(t)
    BY <1>1, NodeFacts
  <2>2. p \in Models(t) /\ p # leaf
    BY <1>1, <1>2, <2>1
  <2>3. m \notin DOMAIN t.nodes
    BY <1>2
  <2> QED
    BY <1>2, <2>2, <2>3
<1>4. /\ IsTree(A) /\ DOMAIN A.nodes = DOMAIN t.nodes \cup {m} /\ A.fresh = m + 1
      /\ A.key_domain_min_ = t.key_domain_min_ /\ A.key_domain_max_ = t.key_domain_max_
      /\ A.nodes[m] = n
      /\ \A j \in DOMAIN t.nodes : A.nodes[j] = t.nodes[j]
  BY <1>1, AllocatedFacts
<1>5. n.is_leaf_ = FALSE /\ n.num_children_ \in Nat /\ n.num_children_ > 0 /\ n.level_ \in Int
      /\ n.rounding = Exact /\ n.start \in Int /\ n.width \in Nat
  <2>1. /\ n.is_leaf_ \in {FALSE} /\ n.num_children_ \in Nat \ {0} /\ n.level_ \in Int
        /\ n.rounding \in {Exact} /\ n.start \in Int /\ n.width \in Nat \ {0}
    BY DEF IsModel
  <2>2. n.is_leaf_ = FALSE /\ n.rounding = Exact
    BY <2>1
  <2>3. n.num_children_ \in Nat /\ n.num_children_ > 0 /\ n.width \in Nat
    BY <2>1
  <2> QED
    BY <2>1, <2>2, <2>3
<1> HIDE DEF A
<1>6. Leaves(A) = Leaves(t) /\ Models(A) = Models(t) \cup {m}
  <2>1. /\ \A i : i \in Leaves(A) <=> i \in DOMAIN A.nodes /\ A.nodes[i].is_leaf_
        /\ \A i : i \in Models(A) <=> i \in DOMAIN A.nodes /\ ~A.nodes[i].is_leaf_
    BY DEF Leaves, Models
  <2>2. ASSUME NEW i PROVE i \in Leaves(A) <=> i \in Leaves(t)
    BY <1>2, <1>3, <1>4, <1>5, <2>1
  <2>3. ASSUME NEW i PROVE i \in Models(A) <=> i \in Models(t) \/ i = m
    BY <1>2, <1>3, <1>4, <1>5, <2>1
  <2> QED
    BY <2>2, <2>3
<1>7. /\ t.nodes[leaf].prev_leaf_ = NoNode \/ t.nodes[leaf].prev_leaf_ \in Leaves(t)
      /\ t.nodes[leaf].next_leaf_ = NoNode \/ t.nodes[leaf].next_leaf_ \in Leaves(t)
  BY <1>1 DEF IsChained
<1>8. A.nodes[leaf] = t.nodes[leaf] /\ m \in Models(A) /\ leaf \in Leaves(A)
  BY <1>2, <1>4, <1>6
<1>9. \A j : NewLeaf(A, j) = NewLeaf(ti, j)
  <2>1. ti.fresh = m + 1
    BY DEF IsInterposed
  <2> QED
    BY <1>4, <2>1 DEF NewLeaf
<1>10. /\ IsTree(B)
       /\ DOMAIN B.nodes = (DOMAIN A.nodes \ {leaf}) \cup {NewLeaf(A, j) : j \in 1 .. count}
       /\ B.key_domain_min_ = A.key_domain_min_
       /\ B.key_domain_max_ = A.key_domain_max_
       /\ \A i \in Models(A) : i # m => B.nodes[i] = A.nodes[i]
       /\ B.nodes[m].is_leaf_ = FALSE
       /\ B.nodes[m].level_ = A.nodes[m].level_
       /\ B.nodes[m].duplication_factor_ = A.nodes[m].duplication_factor_
       /\ B.nodes[m].start = A.nodes[m].start
       /\ B.nodes[m].width = A.nodes[m].width
       /\ B.nodes[m].num_children_ = A.nodes[m].num_children_
       /\ \A b \in 0 .. A.nodes[m].num_children_ - 1 :
              \A j \in 1 .. count : ends[j - 1] <= b /\ b < ends[j] =>
                  B.nodes[m].children_[b] = NewLeaf(A, j)
       /\ \A i \in Leaves(A) \ {leaf} :
             /\ B.nodes[i].is_leaf_
             /\ B.nodes[i].level_ = A.nodes[i].level_
             /\ B.nodes[i].duplication_factor_ = A.nodes[i].duplication_factor_
             /\ B.nodes[i].keys = A.nodes[i].keys
             /\ B.nodes[i].next_leaf_ =
                    IF i = A.nodes[leaf].prev_leaf_ THEN NewLeaf(A, 1)
                    ELSE A.nodes[i].next_leaf_
             /\ B.nodes[i].prev_leaf_ =
                    IF i = A.nodes[leaf].next_leaf_ /\ i # A.nodes[leaf].prev_leaf_
                    THEN NewLeaf(A, count) ELSE A.nodes[i].prev_leaf_
       /\ \A j \in 1 .. count :
             /\ B.nodes[NewLeaf(A, j)].is_leaf_
             /\ B.nodes[NewLeaf(A, j)].level_ = A.nodes[m].level_ + 1
             /\ B.nodes[NewLeaf(A, j)].duplication_factor_ = factors[j]
             /\ B.nodes[NewLeaf(A, j)].keys
                    = Part(A.nodes[m], A.nodes[leaf].keys, ends, count, j)
             /\ B.nodes[NewLeaf(A, j)].prev_leaf_ =
                    IF j = 1 THEN A.nodes[leaf].prev_leaf_ ELSE NewLeaf(A, j - 1)
             /\ B.nodes[NewLeaf(A, j)].next_leaf_ =
                    IF j = count THEN A.nodes[leaf].next_leaf_ ELSE NewLeaf(A, j + 1)
  <2>1. /\ IsTree(A) /\ leaf \in Leaves(A) /\ m \in Models(A) /\ m # Superroot
        /\ A.nodes[leaf].prev_leaf_ = NoNode \/ A.nodes[leaf].prev_leaf_ \in Leaves(A)
        /\ A.nodes[leaf].next_leaf_ = NoNode \/ A.nodes[leaf].next_leaf_ \in Leaves(A)
    BY <1>3, <1>4, <1>6, <1>7, <1>8
  <2> HIDE DEF m
  <2>2. IsReplaced(A, B, leaf, m, ends, factors, count)
    BY <2>1, CreatedFacts
  <2> HIDE DEF B
  <2> QED
    BY <2>2 DEF IsReplaced
<1> HIDE DEF B
<1>11. /\ p \in Models(B) /\ p \in Models(A) /\ p \in DOMAIN B.nodes
       /\ B.nodes[p] = t.nodes[p]
  <2>1. p \in DOMAIN t.nodes /\ ~t.nodes[p].is_leaf_
    BY <1>2, <1>3
  <2>2. p \in Models(A) /\ p \in DOMAIN A.nodes /\ p # leaf /\ p # m
    BY <1>3, <1>4, <1>6, <2>1
  <2>3. B.nodes[p] = t.nodes[p] /\ p \in DOMAIN B.nodes
    BY <1>4, <1>10, <2>1, <2>2
  <2> QED
    BY <2>1, <2>2, <2>3 DEF Models, Leaves
<1>12. /\ IsTree(C) /\ DOMAIN C.nodes = DOMAIN B.nodes
       /\ C.key_domain_min_ = B.key_domain_min_ /\ C.key_domain_max_ = B.key_domain_max_
       /\ \A j \in DOMAIN B.nodes : j # p => C.nodes[j] = B.nodes[j]
       /\ ~C.nodes[p].is_leaf_
       /\ C.nodes[p].level_ = B.nodes[p].level_
       /\ C.nodes[p].duplication_factor_ = B.nodes[p].duplication_factor_
       /\ C.nodes[p].start = B.nodes[p].start
       /\ C.nodes[p].width = B.nodes[p].width
       /\ C.nodes[p].num_children_ = B.nodes[p].num_children_
       /\ \A b \in 0 .. B.nodes[p].num_children_ - 1 :
              C.nodes[p].children_[b] =
                  IF start <= b /\ b < end THEN m ELSE B.nodes[p].children_[b]
  <2>1. m \in Int
    BY <1>2
  <2> HIDE DEF m
  <2> QED
    BY <1>10, <1>11, <2>1, RedirectedFacts
<1> HIDE DEF C
<1>13. /\ IsModel(C.nodes[Superroot]) /\ C.nodes[Superroot].num_children_ = 1
       /\ Superroot \in DOMAIN C.nodes
  BY <1>12 DEF IsTree
<1>14. /\ IsModel(top) /\ ~top.is_leaf_ /\ top.level_ = n.level_ - 1
       /\ top.duplication_factor_ = C.nodes[Superroot].duplication_factor_
       /\ top.start = C.nodes[Superroot].start /\ top.width = C.nodes[Superroot].width
       /\ top.num_children_ = C.nodes[Superroot].num_children_
       /\ top.children_ = C.nodes[Superroot].children_
  <2> DEFINE old == C.nodes[Superroot]
             l == n.level_ - 1
  <2>1. IsModel(old) /\ l \in Int
    BY <1>5, <1>13
  <2>2. top = [old EXCEPT !.level_ = l]
    OBVIOUS
  <2> HIDE DEF top, old, l
  <2>3. LET mm == [old EXCEPT !.level_ = l]
        IN  /\ IsModel(mm) /\ ~mm.is_leaf_ /\ mm.level_ = l
            /\ mm.duplication_factor_ = old.duplication_factor_
            /\ mm.start = old.start /\ mm.width = old.width
            /\ mm.num_children_ = old.num_children_ /\ mm.children_ = old.children_
    BY <2>1, ModelWithLevel
  <2> QED
    BY <2>2, <2>3 DEF l, old
<1>15. /\ IsTree(D) /\ DOMAIN D.nodes = DOMAIN C.nodes
       /\ D.key_domain_min_ = C.key_domain_min_ /\ D.key_domain_max_ = C.key_domain_max_
       /\ \A j \in DOMAIN C.nodes : j # Superroot => D.nodes[j] = C.nodes[j]
       /\ p # Superroot => D.nodes[Superroot] = C.nodes[Superroot]
       /\ p = Superroot => D.nodes[Superroot] = top
  <2> HIDE DEF top
  <2>1. CASE p = Superroot
    <3>1. D = WithNode(C, Superroot, top)
      BY <2>1
    <3>2. top.num_children_ = 1
      BY <1>13, <1>14
    <3> HIDE DEF D
    <3>3. LET t2 == WithNode(C, Superroot, top)
          IN  /\ IsTree(t2) /\ DOMAIN t2.nodes = DOMAIN C.nodes
              /\ t2.key_domain_min_ = C.key_domain_min_
              /\ t2.key_domain_max_ = C.key_domain_max_
              /\ t2.nodes[Superroot] = top
              /\ \A j \in DOMAIN C.nodes : j # Superroot => t2.nodes[j] = C.nodes[j]
      BY <1>12, <1>13, <1>14, <3>2, WithNodeFacts
    <3> QED
      BY <2>1, <3>1, <3>3
  <2>2. CASE p # Superroot
    BY <1>12, <2>2
  <2> QED
    BY <2>1, <2>2
<1>16. SplitBelow(t, p, leaf, n, start, end, factors) = D
  BY DEF SplitBelow, A, B, C, D, top
<1> HIDE DEF D, top
\* What came between, node by node.
<1>17. /\ DOMAIN ti.nodes = DOMAIN t.nodes \cup {m}
       /\ ti.key_domain_min_ = t.key_domain_min_ /\ ti.key_domain_max_ = t.key_domain_max_
       /\ \A i \in DOMAIN t.nodes :
              /\ ti.nodes[i].is_leaf_ = t.nodes[i].is_leaf_
              /\ i # leaf => ti.nodes[i].duplication_factor_ = t.nodes[i].duplication_factor_
              /\ i # leaf /\ i # Superroot => ti.nodes[i].level_ = t.nodes[i].level_
       /\ p # Superroot => ti.nodes[Superroot].level_ = t.nodes[Superroot].level_
       /\ \A i \in Models(t) :
              /\ ti.nodes[i].start = t.nodes[i].start
              /\ ti.nodes[i].width = t.nodes[i].width
              /\ ti.nodes[i].num_children_ = t.nodes[i].num_children_
              /\ i # p => ti.nodes[i].children_ = t.nodes[i].children_
       /\ \A b \in 0 .. t.nodes[p].num_children_ - 1 :
              ti.nodes[p].children_[b] = IF start <= b /\ b < end THEN m ELSE t.nodes[p].children_[b]
       /\ \A i \in Leaves(t) :
              /\ ti.nodes[i].keys = t.nodes[i].keys
              /\ ti.nodes[i].next_leaf_ = t.nodes[i].next_leaf_
              /\ ti.nodes[i].prev_leaf_ = t.nodes[i].prev_leaf_
       /\ ti.nodes[m].duplication_factor_ = t.nodes[leaf].duplication_factor_
       /\ ti.nodes[m].num_children_ = 2^x
       /\ IsTree(ti) /\ ~ti.nodes[m].is_leaf_
  BY DEF IsInterposed
<1>18. ti.nodes[m].is_leaf_ = FALSE /\ m \in DOMAIN ti.nodes /\ m \in Models(ti)
  <2>1. m \in DOMAIN ti.nodes /\ m \in Models(ti)
    BY <1>17 DEF Models, Leaves
  <2>2. IsModel(ti.nodes[m])
    BY <1>17, <2>1, NodeFacts
  <2> QED
    BY <2>1, <2>2 DEF IsModel
<1>19. Leaves(ti) = Leaves(t) /\ Models(ti) = Models(t) \cup {m}
  <2>1. /\ \A i : i \in Leaves(ti) <=> i \in DOMAIN ti.nodes /\ ti.nodes[i].is_leaf_
        /\ \A i : i \in Models(ti) <=> i \in DOMAIN ti.nodes /\ ~ti.nodes[i].is_leaf_
    BY DEF Leaves, Models
  <2>2. ASSUME NEW i PROVE i \in Leaves(ti) <=> i \in Leaves(t)
    BY <1>2, <1>3, <1>17, <2>1
  <2>3. ASSUME NEW i PROVE i \in Models(ti) <=> i \in Models(t) \/ i = m
    BY <1>2, <1>3, <1>17, <2>1
  <2> QED
    BY <2>2, <2>3
\* What the split leaves, node by node.
<1>20. \A i \in DOMAIN B.nodes : i # p /\ i # Superroot => D.nodes[i] = B.nodes[i]
  BY <1>12, <1>15
<1>21. /\ D.nodes[m].is_leaf_ = FALSE
       /\ D.nodes[m].level_ = n.level_
       /\ D.nodes[m].duplication_factor_ = t.nodes[leaf].duplication_factor_
       /\ D.nodes[m].start = n.start
       /\ D.nodes[m].width = n.width
       /\ D.nodes[m].num_children_ = 2^x
       /\ \A b \in 0 .. 2^x - 1 : \A j \in 1 .. count : ends[j - 1] <= b /\ b < ends[j] =>
              D.nodes[m].children_[b] = NewLeaf(ti, j)
  <2>1. m \in DOMAIN B.nodes
    BY <1>3, <1>4, <1>10
  <2>2. D.nodes[m] = B.nodes[m]
    BY <1>3, <1>20, <2>1
  <2>3. A.nodes[m] = n
    BY <1>4
  <2>4. /\ D.nodes[m].is_leaf_ = FALSE
        /\ D.nodes[m].level_ = n.level_
        /\ D.nodes[m].duplication_factor_ = n.duplication_factor_
        /\ D.nodes[m].start = n.start
        /\ D.nodes[m].width = n.width
        /\ D.nodes[m].num_children_ = n.num_children_
    BY <1>10, <2>2, <2>3
  <2>5. \A b \in 0 .. n.num_children_ - 1 : \A j \in 1 .. count :
            ends[j - 1] <= b /\ b < ends[j] => D.nodes[m].children_[b] = NewLeaf(A, j)
    BY <1>10, <2>2, <2>3
  <2> QED
    BY <1>9, <2>4, <2>5
<1>22. /\ D.nodes[p].is_leaf_ = t.nodes[p].is_leaf_
       /\ D.nodes[p].level_ = ti.nodes[p].level_
       /\ D.nodes[p].duplication_factor_ = t.nodes[p].duplication_factor_
       /\ D.nodes[p].start = t.nodes[p].start
       /\ D.nodes[p].width = t.nodes[p].width
       /\ D.nodes[p].num_children_ = t.nodes[p].num_children_
       /\ D.nodes[p].children_ = C.nodes[p].children_
       /\ D.nodes[p].children_ \in [0 .. t.nodes[p].num_children_ - 1 -> Int]
  <2>1. p \in DOMAIN D.nodes
    BY <1>11, <1>12, <1>15
  <2>2. /\ D.nodes[p].level_ = ti.nodes[p].level_
        /\ D.nodes[p].duplication_factor_ = t.nodes[p].duplication_factor_
        /\ D.nodes[p].start = t.nodes[p].start
        /\ D.nodes[p].width = t.nodes[p].width
        /\ D.nodes[p].num_children_ = t.nodes[p].num_children_
        /\ D.nodes[p].children_ = C.nodes[p].children_
        /\ ~D.nodes[p].is_leaf_
    <3>1. CASE p = Superroot
      <4>1. D.nodes[p] = top
        BY <1>15, <3>1
      <4> QED
        BY <1>11, <1>12, <1>14, <3>1, <4>1
    <3>2. CASE p # Superroot
      <4>1. D.nodes[p] = C.nodes[p]
        BY <1>11, <1>12, <1>15, <3>2
      <4>2. ti.nodes[p].level_ = t.nodes[p].level_
        BY <1>2, <1>3, <1>17, <3>2
      <4> QED
        BY <1>11, <1>12, <4>1, <4>2
    <3> QED
      BY <3>1, <3>2
  <2>3. p \in Models(D)
    BY <2>1, <2>2 DEF Models, Leaves
  <2>4. IsModel(D.nodes[p]) /\ IsModel(t.nodes[p])
        /\ D.nodes[p].children_ \in [0 .. D.nodes[p].num_children_ - 1 -> Int]
    BY <1>1, <1>3, <1>15, <2>3, NodeFacts
  <2>5. D.nodes[p].is_leaf_ = FALSE /\ t.nodes[p].is_leaf_ = FALSE
    BY <2>4 DEF IsModel
  <2> QED
    BY <2>2, <2>4, <2>5
<1>23. D.nodes[p].children_ = ti.nodes[p].children_
  <2>1. ti.nodes[p].children_ \in [0 .. t.nodes[p].num_children_ - 1 -> Int]
    <3>1. p \in Models(ti)
      BY <1>3, <1>19
    <3>2. ti.nodes[p].children_ \in [0 .. ti.nodes[p].num_children_ - 1 -> Int]
      BY <1>17, <3>1, NodeFacts
    <3>3. ti.nodes[p].num_children_ = t.nodes[p].num_children_
      BY <1>3, <1>17
    <3> QED
      BY <3>2, <3>3
  <2>2. \A b \in 0 .. t.nodes[p].num_children_ - 1 :
            D.nodes[p].children_[b] = ti.nodes[p].children_[b]
    BY <1>11, <1>12, <1>17, <1>22
  <2> DEFINE f == D.nodes[p].children_
             g == ti.nodes[p].children_
             top_b == t.nodes[p].num_children_ - 1
  <2>3. f \in [0 .. top_b -> Int] /\ g \in [0 .. top_b -> Int] /\ \A b \in 0 .. top_b : f[b] = g[b]
    BY <1>22, <2>1, <2>2
  <2> HIDE DEF f, g, top_b
  <2>4. f = [b \in 0 .. top_b |-> f[b]] /\ g = [b \in 0 .. top_b |-> g[b]]
    BY <2>3
  <2>5. [b \in 0 .. top_b |-> f[b]] = [b \in 0 .. top_b |-> g[b]]
    BY <2>3
  <2>6. f = g
    BY <2>4, <2>5
  <2> QED
    BY <2>6 DEF f, g
<1>24. ASSUME NEW i \in Models(t), i # p PROVE D.nodes[i] = t.nodes[i]
  <2>1. i \in DOMAIN t.nodes /\ i # leaf /\ i # m /\ i \in Models(A)
    BY <1>2, <1>3, <1>6
  <2>2. B.nodes[i] = t.nodes[i] /\ i \in DOMAIN B.nodes
    BY <1>4, <1>10, <2>1
  <2>3. CASE i # Superroot
    BY <1>20, <1>24, <2>2, <2>3
  <2>4. CASE i = Superroot
    BY <1>12, <1>15, <1>24, <2>2, <2>4
  <2> QED
    BY <2>3, <2>4
<1>25. ASSUME NEW i \in Leaves(t) \ {leaf} PROVE D.nodes[i] = B.nodes[i] /\ A.nodes[i] = t.nodes[i]
  <2>1. i \in DOMAIN t.nodes /\ i \notin Models(t) /\ i # p /\ i # Superroot
    BY <1>2, <1>3
  <2>2. i \in DOMAIN B.nodes
    BY <1>4, <1>10, <2>1
  <2> QED
    BY <1>4, <1>20, <2>1, <2>2
<1>26. ASSUME NEW j \in 1 .. count
       PROVE  D.nodes[NewLeaf(ti, j)] = B.nodes[NewLeaf(A, j)]
  <2>1. NewLeaf(A, j) \in DOMAIN B.nodes
    BY <1>10
  <2>2. NewLeaf(A, j) >= m + 1 /\ NewLeaf(A, j) \in Int
    BY <1>2, <1>4 DEF NewLeaf
  <2>3. p \in Nat /\ p < m /\ Superroot \in Nat /\ Superroot < m
    BY <1>2, <1>3
  <2>4. NewLeaf(A, j) # p /\ NewLeaf(A, j) # Superroot
    BY <1>2, <2>2, <2>3
  <2> QED
    BY <1>9, <1>20, <2>1, <2>4
<1>27. /\ IsTree(D)
       /\ DOMAIN D.nodes = (DOMAIN ti.nodes \ {leaf}) \cup {NewLeaf(ti, j) : j \in 1 .. count}
       /\ D.key_domain_min_ = ti.key_domain_min_ /\ D.key_domain_max_ = ti.key_domain_max_
  <2>1. {NewLeaf(A, j) : j \in 1 .. count} = {NewLeaf(ti, j) : j \in 1 .. count}
    BY <1>9
  <2>2. DOMAIN A.nodes = DOMAIN ti.nodes
    BY <1>4, <1>17
  <2>3. DOMAIN D.nodes = (DOMAIN A.nodes \ {leaf}) \cup {NewLeaf(A, j) : j \in 1 .. count}
    BY <1>10, <1>12, <1>15
  <2>4. DOMAIN D.nodes = (DOMAIN ti.nodes \ {leaf}) \cup {NewLeaf(ti, j) : j \in 1 .. count}
    BY <2>1, <2>2, <2>3
  <2>5. D.key_domain_min_ = ti.key_domain_min_ /\ D.key_domain_max_ = ti.key_domain_max_
    BY <1>4, <1>10, <1>12, <1>15, <1>17
  <2> QED
    BY <1>15, <2>4, <2>5
<1>28. ASSUME NEW i \in DOMAIN ti.nodes \ {leaf}
       PROVE  /\ D.nodes[i].is_leaf_ = ti.nodes[i].is_leaf_
              /\ D.nodes[i].level_ = ti.nodes[i].level_
              /\ D.nodes[i].duplication_factor_ = ti.nodes[i].duplication_factor_
  <2>1. CASE i = m
    BY <1>17, <1>18, <1>21, <2>1
  <2>2. CASE i = p
    <3>1. p \in DOMAIN t.nodes /\ p # leaf
      BY <1>2, <1>3
    <3> QED
      BY <1>17, <1>22, <2>2, <3>1
  <2>3. CASE i \in Models(t) /\ i # p
    <3>1. i \in DOMAIN t.nodes /\ i # leaf
      BY <1>2, <2>3
    <3>2. D.nodes[i] = t.nodes[i]
      BY <1>24, <2>3
    <3>3. i = Superroot => p # Superroot
      BY <2>3
    <3> QED
      BY <1>17, <3>1, <3>2, <3>3
  <2>4. CASE i \in Leaves(t)
    <3>1. i \in DOMAIN t.nodes /\ i # Superroot /\ t.nodes[i].is_leaf_
      BY <1>2, <2>4
    <3>2. /\ D.nodes[i].is_leaf_
          /\ D.nodes[i].level_ = t.nodes[i].level_
          /\ D.nodes[i].duplication_factor_ = t.nodes[i].duplication_factor_
      BY <1>6, <1>10, <1>25, <2>4
    <3>3. D.nodes[i].is_leaf_ = TRUE /\ t.nodes[i].is_leaf_ = TRUE
      <4>1. i \in DOMAIN D.nodes
        BY <1>27
      <4>2. i \in Leaves(D)
        BY <3>2, <4>1 DEF Leaves
      <4>3. D.nodes[i] \in LeafNodes /\ t.nodes[i] \in LeafNodes
        BY <1>1, <1>27, <2>4, <4>2, NodeFacts
      <4> QED
        BY <4>3 DEF LeafNodes
    <3> QED
      BY <1>17, <3>1, <3>2, <3>3
  <2> QED
    BY <1>2, <1>17, <2>1, <2>2, <2>3, <2>4
<1>29. ASSUME NEW i \in Models(ti)
       PROVE  /\ D.nodes[i].start = ti.nodes[i].start
              /\ D.nodes[i].width = ti.nodes[i].width
              /\ D.nodes[i].num_children_ = ti.nodes[i].num_children_
              /\ i # m => D.nodes[i].children_ = ti.nodes[i].children_
  <2>1. CASE i = m
    BY <1>17, <1>21, <2>1
  <2>2. CASE i = p
    BY <1>3, <1>17, <1>22, <1>23, <2>2
  <2>3. CASE i \in Models(t) /\ i # p
    BY <1>17, <1>24, <2>3
  <2> QED
    BY <1>19, <2>1, <2>2, <2>3
<1>30. ASSUME NEW b \in 0 .. ti.nodes[m].num_children_ - 1
       PROVE  /\ b < ends[0] \/ ends[count] <= b =>
                     D.nodes[m].children_[b] = ti.nodes[m].children_[b]
              /\ \A j \in 1 .. count : ends[j - 1] <= b /\ b < ends[j] =>
                     D.nodes[m].children_[b] = NewLeaf(ti, j)
  <2>1. b \in 0 .. 2^x - 1 /\ 2^x \in Nat
    BY <1>17, PowerFacts
  <2>2. ends[0] = 0
    <3>1. count \in Nat
      BY DEF AreRuns
    <3> QED
      BY <3>1, EndsUnfold
  <2>3. ~(b < ends[0] \/ ends[count] <= b)
    BY <2>1, <2>2
  <2> QED
    BY <1>21, <2>1, <2>3
<1>31. ASSUME NEW i \in Leaves(ti) \ {leaf}
       PROVE  /\ D.nodes[i].keys = ti.nodes[i].keys
              /\ D.nodes[i].next_leaf_ =
                     IF i = ti.nodes[leaf].prev_leaf_ THEN NewLeaf(ti, 1)
                     ELSE ti.nodes[i].next_leaf_
              /\ D.nodes[i].prev_leaf_ =
                     IF i = ti.nodes[leaf].next_leaf_ /\ i # ti.nodes[leaf].prev_leaf_
                     THEN NewLeaf(ti, count) ELSE ti.nodes[i].prev_leaf_
  <2>1. i \in Leaves(t) \ {leaf} /\ i \in Leaves(A) \ {leaf}
    BY <1>6, <1>19
  <2>2. D.nodes[i] = B.nodes[i] /\ A.nodes[i] = t.nodes[i]
    BY <1>25, <2>1
  <2>3. /\ B.nodes[i].keys = t.nodes[i].keys
        /\ B.nodes[i].next_leaf_ =
               IF i = t.nodes[leaf].prev_leaf_ THEN NewLeaf(A, 1)
               ELSE t.nodes[i].next_leaf_
        /\ B.nodes[i].prev_leaf_ =
               IF i = t.nodes[leaf].next_leaf_ /\ i # t.nodes[leaf].prev_leaf_
               THEN NewLeaf(A, count) ELSE t.nodes[i].prev_leaf_
    BY <1>8, <1>10, <2>1, <2>2
  <2>4. /\ ti.nodes[i].keys = t.nodes[i].keys
        /\ ti.nodes[i].next_leaf_ = t.nodes[i].next_leaf_
        /\ ti.nodes[i].prev_leaf_ = t.nodes[i].prev_leaf_
        /\ ti.nodes[leaf].next_leaf_ = t.nodes[leaf].next_leaf_
        /\ ti.nodes[leaf].prev_leaf_ = t.nodes[leaf].prev_leaf_
    BY <1>17, <2>1
  <2> QED
    BY <1>9, <2>2, <2>3, <2>4
<1>32. ASSUME NEW j \in 1 .. count
       PROVE  /\ D.nodes[NewLeaf(ti, j)].is_leaf_
              /\ D.nodes[NewLeaf(ti, j)].level_ > ti.nodes[m].level_
              /\ D.nodes[NewLeaf(ti, j)].duplication_factor_ = factors[j]
              /\ D.nodes[NewLeaf(ti, j)].keys
                     = Part(ti.nodes[m], ti.nodes[leaf].keys, ends, count, j)
              /\ D.nodes[NewLeaf(ti, j)].prev_leaf_ =
                     IF j = 1 THEN ti.nodes[leaf].prev_leaf_ ELSE NewLeaf(ti, j - 1)
              /\ D.nodes[NewLeaf(ti, j)].next_leaf_ =
                     IF j = count THEN ti.nodes[leaf].next_leaf_ ELSE NewLeaf(ti, j + 1)
  <2> DEFINE l == D.nodes[NewLeaf(ti, j)]
  <2>1. /\ l.is_leaf_
        /\ l.level_ = n.level_ + 1
        /\ l.duplication_factor_ = factors[j]
        /\ l.keys = Part(n, t.nodes[leaf].keys, ends, count, j)
        /\ l.prev_leaf_ = IF j = 1 THEN t.nodes[leaf].prev_leaf_ ELSE NewLeaf(A, j - 1)
        /\ l.next_leaf_ = IF j = count THEN t.nodes[leaf].next_leaf_ ELSE NewLeaf(A, j + 1)
    BY <1>4, <1>8, <1>10, <1>26
  <2>2. Part(ti.nodes[m], ti.nodes[leaf].keys, ends, count, j)
            = Part(n, t.nodes[leaf].keys, ends, count, j)
    <3>1. ti.nodes[leaf].keys = t.nodes[leaf].keys
      BY <1>17
    <3>2. \A b : Edge(ti.nodes[m], b) = Edge(n, b)
      BY DEF Edge
    <3> QED
      BY <3>1, <3>2 DEF Part
  <2>3. /\ ti.nodes[leaf].prev_leaf_ = t.nodes[leaf].prev_leaf_
        /\ ti.nodes[leaf].next_leaf_ = t.nodes[leaf].next_leaf_
    BY <1>17
  <2>4. l.level_ > ti.nodes[m].level_
    BY <1>5, <2>1
  <2> HIDE DEF l
  <2>5. /\ l.prev_leaf_ = IF j = 1 THEN ti.nodes[leaf].prev_leaf_ ELSE NewLeaf(ti, j - 1)
        /\ l.next_leaf_ = IF j = count THEN ti.nodes[leaf].next_leaf_ ELSE NewLeaf(ti, j + 1)
    BY <1>9, <2>1, <2>3
  <2> QED
    BY <2>1, <2>2, <2>4, <2>5 DEF l
<1>33. IsDivision(ti, D, leaf, m, ends, factors, count)
  BY <1>27, <1>28, <1>29, <1>30, <1>31, <1>32 DEF IsDivision
<1> QED
  BY <1>16, <1>33

-----------------------------------------------------------------------------
\* What a split promises: no key is lost, the tree is well-formed, and a key of
\* the leaf that was split is led by p to a new leaf below it.
IsSplit(t, t2, from, to, old, p) ==
    /\ Keys(t2) = Keys(t) /\ ~t2.nodes[Root(t2)].is_leaf_
    /\ p \in Models(t2) /\ p # Superroot
    /\ \E parent2, first2, from2, to2 :
           /\ WellFormed(t2, parent2, first2, from2, to2)
           /\ \A key \in Int : IsIn(t, from, to, old, key) =>
                  /\ get_child_node(t2, p, key) \in Leaves(t2)
                  /\ parent2[get_child_node(t2, p, key)] = p
                  /\ IsIn(t2, from2, to2, get_child_node(t2, p, key), key)

\* A division is a split.
LEMMA DivisionIsSplit ==
    ASSUME NEW t, NEW parent, NEW first, NEW from, NEW to,
           WellFormed(t, parent, first, from, to),
           NEW t2, NEW old, NEW p, NEW ends, NEW factors, NEW count,
           TakesRun(t, parent, first, old, p, ends, factors, count),
           IsDivision(t, t2, old, p, ends, factors, count)
    PROVE  IsSplit(t, t2, from, to, old, p)
<1>1. /\ Keys(t2) = Keys(t)
      /\ ~t2.nodes[Root(t2)].is_leaf_
      /\ \E parent2, first2, from2, to2 :
             /\ WellFormed(t2, parent2, first2, from2, to2)
             /\ \A j \in 1 .. count : /\ parent2[NewLeaf(t, j)] = p
                                      /\ NewLeaf(t, j) \in Leaves(t2)
             /\ p \in Models(t2) /\ p # Superroot
             /\ \A key \in Int : IsIn(t, from, to, old, key) =>
                    /\ \E j \in 1 .. count : IsIn(t2, from2, to2, NewLeaf(t, j), key)
                    /\ IsIn(t2, from2, to2, p, key)
  BY DivisionIsWellFormed
<1>2. PICK parent2, first2, from2, to2 :
             /\ WellFormed(t2, parent2, first2, from2, to2)
             /\ \A j \in 1 .. count : /\ parent2[NewLeaf(t, j)] = p
                                      /\ NewLeaf(t, j) \in Leaves(t2)
             /\ p \in Models(t2) /\ p # Superroot
             /\ \A key \in Int : IsIn(t, from, to, old, key) =>
                    /\ \E j \in 1 .. count : IsIn(t2, from2, to2, NewLeaf(t, j), key)
                    /\ IsIn(t2, from2, to2, p, key)
  BY <1>1
<1>3. ASSUME NEW key \in Int, IsIn(t, from, to, old, key)
      PROVE  /\ get_child_node(t2, p, key) \in Leaves(t2)
             /\ parent2[get_child_node(t2, p, key)] = p
             /\ IsIn(t2, from2, to2, get_child_node(t2, p, key), key)
  <2>1. PICK j \in 1 .. count : IsIn(t2, from2, to2, NewLeaf(t, j), key)
    BY <1>2, <1>3
  <2> DEFINE c == NewLeaf(t, j)
  <2>2. c \in Leaves(t2) /\ parent2[c] = p /\ IsIn(t2, from2, to2, c, key)
    BY <1>2, <2>1
  <2> HIDE DEF c
  <2>3. IsTree(t2)
    BY <1>2, WellFormedParts
  <2>4. c \in Nodes(t2)
    BY <2>2, <2>3, NodeFacts
  <2>5. p \in Models(t2) /\ p # Superroot /\ IsIn(t2, from2, to2, p, key)
    BY <1>2, <1>3
  <2>6. \A d \in Nodes(t2) : parent2[d] = p /\ IsIn(t2, from2, to2, d, key) =>
            t2.nodes[p].children_[Bucket(t2.nodes[p], key)] = d
    BY <1>1, <1>2, <2>5, BucketHasKey
  <2>7. get_child_node(t2, p, key) = c
    BY <2>2, <2>4, <2>6 DEF get_child_node
  <2> QED
    BY <2>2, <2>7
<1> QED
  BY <1>1, <1>2, <1>3 DEF IsSplit

\* Every key belongs to the root.
LEMMA AllIsInRoot ==
    ASSUME NEW t, NEW parent, NEW first, NEW from, NEW to,
           WellFormed(t, parent, first, from, to),
           t.key_domain_min_ < t.key_domain_max_, NEW key \in Int
    PROVE  IsIn(t, from, to, Root(t), key)
<1>1. /\ IsTree(t) /\ HasRuns(t, parent, first)
      /\ parent \in [Nodes(t) -> Models(t)] /\ first \in [Nodes(t) -> Nat]
  BY WellFormedParts
<1>2. Root(t) \in Nodes(t) /\ parent[Root(t)] = Superroot
  BY <1>1, RootFacts
<1>3. from[Root(t)] = t.key_domain_min_ /\ to[Root(t)] = t.key_domain_max_
  BY <1>2 DEF WellFormed, HasRegions
<1>4. t.key_domain_min_ \in Int /\ t.key_domain_max_ \in Int
  BY <1>1, NodeFacts
<1>5. t.key_domain_min_ <= Clamped(t, key) /\ Clamped(t, key) < t.key_domain_max_
  BY <1>4, ClampedFacts
<1> QED
  BY <1>3, <1>5 DEF IsIn

\* The run of pointers to a leaf, found from any of them.
LEMMA RunOfLeaf ==
    ASSUME NEW t, NEW parent, NEW first, IsTree(t), HasRuns(t, parent, first),
           parent \in [Nodes(t) -> Models(t)], first \in [Nodes(t) -> Nat],
           NEW p \in Models(t), NEW b \in 0 .. t.nodes[p].num_children_ - 1,
           NEW c, c = t.nodes[p].children_[b]
    PROVE  /\ c \in Nodes(t) /\ parent[c] = p
           /\ first[c] <= b /\ b < first[c] + Repeats(t.nodes[c])
           /\ RunStart(b, Repeats(t.nodes[c])) = first[c]
<1>1. /\ c \in Nodes(t) /\ parent[c] = p
      /\ first[c] <= b /\ b < first[c] + Repeats(t.nodes[c])
  BY RunFacts
<1>2. /\ first[c] \in Nat /\ Repeats(t.nodes[c]) \in Nat /\ Repeats(t.nodes[c]) > 0
      /\ first[c] % Repeats(t.nodes[c]) = 0
  BY <1>1, RunFacts
<1>3. b \in Nat
  BY NodeFacts
<1> QED
  BY <1>1, <1>2, <1>3, RunStartFacts

\* What the superroot's child, or another's, is for, by the parent's model.
LEMMA RegionOfRun ==
    ASSUME NEW t, NEW parent, NEW first, NEW from, NEW to,
           WellFormed(t, parent, first, from, to),
           NEW p \in Models(t), NEW c \in Nodes(t), parent[c] = p,
           NEW start, NEW width,
           start = (IF p = Superroot THEN t.key_domain_min_ ELSE t.nodes[p].start),
           width = (IF p = Superroot THEN t.key_domain_max_ - t.key_domain_min_
                    ELSE t.nodes[p].width)
    PROVE  /\ from[c] = start + first[c] * width
           /\ to[c] = from[c] + Repeats(t.nodes[c]) * width
           /\ start \in Int /\ width \in Int /\ first[c] \in Nat
           /\ Repeats(t.nodes[c]) \in Nat /\ Repeats(t.nodes[c]) > 0
<1>1. /\ IsTree(t) /\ HasRuns(t, parent, first)
      /\ parent \in [Nodes(t) -> Models(t)] /\ first \in [Nodes(t) -> Nat]
  BY WellFormedParts
<1> DEFINE r == Repeats(t.nodes[c])
           f == first[c]
<1>2. f \in Nat /\ r \in Nat /\ r > 0
  BY <1>1, RunFacts
<1>3. t.key_domain_min_ \in Int /\ t.key_domain_max_ \in Int
  BY <1>1, NodeFacts
<1>4. CASE p = Superroot
  <2>1. c = Root(t) /\ f = 0 /\ r = 1
    BY <1>1, <1>4, RootFacts
  <2>2. from[c] = t.key_domain_min_ /\ to[c] = t.key_domain_max_
    BY <1>4 DEF WellFormed, HasRegions
  <2>3. start = t.key_domain_min_ /\ width = t.key_domain_max_ - t.key_domain_min_
    BY <1>4
  <2> HIDE DEF r, f
  <2>4. f * width = 0 /\ r * width = width
    BY <1>3, <2>1, <2>3
  <2> QED
    BY <1>2, <1>3, <2>1, <2>2, <2>3, <2>4 DEF r, f
<1>5. CASE p # Superroot
  <2> DEFINE n == t.nodes[p]
  <2>1. n.start \in Int /\ n.width \in Nat /\ n.width > 0
    BY <1>1, NodeFacts
  <2>2. from[c] = Edge(n, f) /\ to[c] = Edge(n, f + r)
    BY <1>5 DEF WellFormed, HasRegions
  <2>3. start = n.start /\ width = n.width
    BY <1>5
  <2> HIDE DEF n, f, r
  <2>4. Edge(n, f + r) = Edge(n, f) + r * n.width
    <3>1. \A a, b \in Int : Edge(n, a + b) = Edge(n, a) + b * n.width
      BY <2>1, EdgesGrow
    <3>2. f \in Int /\ r \in Int
      BY <1>2
    <3> QED
      BY <3>1, <3>2
  <2>5. Edge(n, f) = n.start + f * n.width
    BY DEF Edge
  <2> QED
    BY <1>2, <2>1, <2>2, <2>3, <2>4, <2>5 DEF f, r
<1> QED
  BY <1>4, <1>5

-----------------------------------------------------------------------------
\* A multiple of four is divided by two, and by four.
LEMMA Quarters ==
    ASSUME NEW r \in Nat, r > 0, NEW w \in Int, w > 0, w % 4 = 0, NEW f, f \in {2, 4}
    PROVE  LET q == (r * w) \div f IN q \in Nat /\ q > 0 /\ f * q = r * w
<1>1. PICK v \in Int : w = 4 * v
  BY Z3
<1>2. v > 0 /\ v \in Nat
  BY <1>1
<1>3. PICK u \in Nat : u > 0 /\ w = u * f
  <2>1. w = v * 4 /\ w = (2 * v) * 2 /\ 2 * v \in Nat /\ 2 * v > 0
    BY <1>1, <1>2
  <2> QED
    BY <1>2, <2>1
<1> DEFINE s == r * u
<1>4. s \in Nat /\ s > 0
  BY <1>2, <1>3
<1>5. r * w = s * f
  <2>1. w = u * f /\ f \in Nat
    BY <1>3
  <2>2. r * (u * f) = (r * u) * f
    BY <1>3, <2>1
  <2> QED
    BY <2>1, <2>2
<1> HIDE DEF s
<1>6. (s * f) \div f = s
  BY <1>4, DivisionIsExact
<1>7. f * s = s * f
  BY <1>4
<1> QED
  BY <1>4, <1>5, <1>6, <1>7

\* The model node of a split downwards, and that the split is what was divided
\* above.
LEMMA SplitDownwardsUnfolds ==
    ASSUME NEW t, NEW p, NEW b, NEW factors,
           NEW leaf, leaf = t.nodes[p].children_[b],
           NEW r, r = Repeats(t.nodes[leaf]),
           NEW f, f = RunStart(b, r),
           NEW start, NEW width,
           start = (IF p = Superroot THEN t.key_domain_min_ ELSE t.nodes[p].start),
           width = (IF p = Superroot THEN t.key_domain_max_ - t.key_domain_min_
                    ELSE t.nodes[p].width),
           IsTree(t),
           NEW n, n = NewModelNode(t.nodes[leaf].level_, t.nodes[leaf].duplication_factor_,
                                   start + f * width, (r * width) \div TotalFanout(factors),
                                   TotalFanout(factors), Exact)
    PROVE  split_downwards(t, p, b, factors, Exact) = SplitBelow(t, p, leaf, n, f, f + r, factors)
<1> DEFINE q == IF p = Superroot THEN DomainModel(t) ELSE t.nodes[p]
<1>1. q.children_ = t.nodes[p].children_ /\ q.start = start /\ q.width = width
  <2>1. CASE p = Superroot
    <3> DEFINE o == t.nodes[Superroot]
               l == t.key_domain_min_
               w == t.key_domain_max_ - t.key_domain_min_
    <3>1. IsModel(o)
      BY DEF IsTree
    <3>2. DomainModel(t) = [o EXCEPT !.start = l, !.width = w]
      BY DEF DomainModel
    <3> HIDE DEF o, l, w
    <3>3. LET d == [o EXCEPT !.start = l, !.width = w]
          IN  d.children_ = o.children_ /\ d.start = l /\ d.width = w
      BY <3>1 DEF IsModel
    <3> QED
      BY <2>1, <3>2, <3>3 DEF o, l, w
  <2>2. CASE p # Superroot
    BY <2>2
  <2> QED
    BY <2>1, <2>2
<1> HIDE DEF q
<1>2. n.level_ = t.nodes[leaf].level_
  BY DEF NewModelNode
<1>3. split_downwards(t, p, b, factors, Exact) =
         LET split == create_new_data_nodes(Allocated(t, n), leaf, t.fresh, 0, factors)
             placed == Redirected(Deleted(split, leaf), p, f, f + r, t.fresh)
         IN  IF p = Superroot
             THEN WithNode(placed, Superroot,
                           [placed.nodes[Superroot] EXCEPT !.level_ = n.level_ - 1])
             ELSE placed
  BY <1>1 DEF split_downwards, q, Allocated
<1> QED
  BY <1>3 DEF SplitBelow

-----------------------------------------------------------------------------
\* What the buckets of a leaf's parent measure.
WidthAt(t, p) ==
    IF p = Superroot THEN t.key_domain_max_ - t.key_domain_min_ ELSE t.nodes[p].width

\* split_downwards promises what a split does.
LEMMA SplitDownwardsIsSplit ==
    ASSUME NEW t, NEW parent, NEW first, NEW from, NEW to,
           WellFormed(t, parent, first, from, to),
           NEW p \in Models(t), NEW b \in 0 .. t.nodes[p].num_children_ - 1,
           NEW leaf, leaf = t.nodes[p].children_[b], leaf \in Leaves(t),
           NEW depth, NEW factors, IsFanout(depth, factors),
           t.key_domain_min_ < t.key_domain_max_, WidthAt(t, p) % 4 = 0
    PROVE  IsSplit(t, split_downwards(t, p, b, factors, Exact), from, to, leaf, t.fresh)
<1> DEFINE r == Repeats(t.nodes[leaf])
           f == RunStart(b, r)
           start == IF p = Superroot THEN t.key_domain_min_ ELSE t.nodes[p].start
           width == IF p = Superroot THEN t.key_domain_max_ - t.key_domain_min_
                    ELSE t.nodes[p].width
           dup == t.nodes[leaf].duplication_factor_
           level == t.nodes[leaf].level_
           fanout == TotalFanout(factors)
           w == (r * width) \div fanout
           m == t.fresh
           n == NewModelNode(level, dup, start + f * width, w, fanout, Exact)
<1>1. /\ IsTree(t) /\ HasRuns(t, parent, first)
      /\ parent \in [Nodes(t) -> Models(t)] /\ first \in [Nodes(t) -> Nat]
  BY WellFormedParts
<1>2. /\ leaf \in Nodes(t) /\ parent[leaf] = p /\ f = first[leaf]
  BY <1>1, RunOfLeaf
<1>3. /\ level \in Int /\ dup \in Nat /\ leaf \in DOMAIN t.nodes
      /\ t.nodes[leaf].is_leaf_ /\ leaf \notin Models(t)
  <2>1. leaf \in Nodes(t) /\ leaf \in DOMAIN t.nodes
    BY <1>1, NodeFacts DEF Nodes
  <2> QED
    BY <1>1, <2>1, NodeFacts
<1>4. /\ from[leaf] = start + first[leaf] * width
      /\ to[leaf] = from[leaf] + r * width
      /\ start \in Int /\ width \in Int /\ first[leaf] \in Nat
      /\ r \in Nat /\ r > 0
  <2> HIDE DEF r
  <2> SUFFICES /\ from[leaf] = start + first[leaf] * width
               /\ to[leaf] = from[leaf] + Repeats(t.nodes[leaf]) * width
               /\ start \in Int /\ width \in Int /\ first[leaf] \in Nat
               /\ Repeats(t.nodes[leaf]) \in Nat /\ Repeats(t.nodes[leaf]) > 0
    BY DEF r
  <2> QED
    BY <1>2, RegionOfRun
<1>5. width > 0 /\ width % 4 = 0
  <2>1. width = WidthAt(t, p)
    BY DEF WidthAt
  <2>2. width > 0
    BY <1>1, NodeFacts
  <2> QED
    BY <2>1, <2>2
<1>6. /\ fanout = 2^depth /\ depth \in Nat /\ fanout \in {2, 4}
      /\ factors = [j \in DOMAIN factors |-> factors[j] + 0]
  BY TotalFanoutIsPower
<1> HIDE DEF fanout, start, width, level, dup, r
<1>7. w \in Nat /\ w > 0 /\ fanout * w = r * width
  BY <1>4, <1>5, <1>6, Quarters
<1>8. /\ IsModel(n) /\ n.level_ = level /\ n.duplication_factor_ = dup
      /\ n.start = from[leaf] /\ n.width = w /\ n.num_children_ = 2^depth
  <2> DEFINE s == start + f * width
  <2>1. s \in Int /\ s = from[leaf]
    BY <1>2, <1>4
  <2>2. fanout \in Nat /\ fanout > 0
    BY <1>6
  <2> HIDE DEF s, w, f
  <2>3. IsModelOf(NewModelNode(level, dup, s, w, fanout, Exact), level, dup, s, w, fanout)
    BY <1>3, <1>7, <2>1, <2>2, NewModelNodeFacts
  <2> QED
    BY <1>6, <2>1, <2>3 DEF s, IsModelOf
<1>9. split_downwards(t, p, b, factors, Exact) = SplitBelow(t, p, leaf, n, f, f + r, factors)
  <2> SUFFICES split_downwards(t, p, b, factors, Exact)
                   = SplitBelow(t, p, leaf, n, f, f + Repeats(t.nodes[leaf]), factors)
    BY DEF r
  <2> QED
    BY <1>1, SplitDownwardsUnfolds DEF r, start, width, level, dup, fanout
<1> HIDE DEF n, f
<1>10. PICK ti :
          /\ IsInterposed(t, ti, p, leaf, m, depth,
                          first[leaf], first[leaf] + Repeats(t.nodes[leaf]))
          /\ ti.nodes[m].start = n.start
          /\ ti.nodes[m].width = n.width
          /\ ti.nodes[m].level_ = n.level_
          /\ p = Superroot => ti.nodes[Superroot].level_ = n.level_ - 1
  <2>1. p # Superroot => t.nodes[p].level_ < n.level_
    <3>1. t.nodes[parent[leaf]].level_ < t.nodes[leaf].level_
      BY <1>1, <1>2, RunFacts
    <3>2. n.level_ = t.nodes[leaf].level_
      BY <1>8 DEF level
    <3> QED
      BY <1>2, <3>1, <3>2
  <2>2. n.duplication_factor_ = t.nodes[leaf].duplication_factor_
    BY <1>8 DEF dup
  <2>3. leaf \in Models(t) => depth = t.nodes[leaf].duplication_factor_
                              /\ n.level_ < t.nodes[leaf].level_
    BY <1>3
  <2>4. leaf \in Nodes(t) /\ parent[leaf] = p /\ IsModel(n) /\ depth \in Nat
        /\ n.num_children_ = 2^depth
    BY <1>2, <1>6, <1>8
  <2>5. \E ti :
          /\ IsInterposed(t, ti, p, leaf, t.fresh, depth,
                          first[leaf], first[leaf] + Repeats(t.nodes[leaf]))
          /\ ti.nodes[t.fresh].start = n.start
          /\ ti.nodes[t.fresh].width = n.width
          /\ ti.nodes[t.fresh].level_ = n.level_
          /\ p = Superroot => ti.nodes[Superroot].level_ = n.level_ - 1
    BY <2>1, <2>2, <2>3, <2>4, InterposedExists
  <2> QED
    BY <2>5
<1>11. TakesPlace(t, parent, first, from, to, ti, p, leaf, m,
                  first[leaf], first[leaf] + Repeats(t.nodes[leaf]))
  <2>1. Edge(ti.nodes[m], 0) = from[leaf]
    <3>1. from[leaf] \in Int /\ n.width \in Int
      BY <1>4, <1>7, <1>8
    <3>2. Edge(ti.nodes[m], 0) = n.start + 0 * n.width
      BY <1>10 DEF Edge
    <3> QED
      BY <1>8, <3>1, <3>2
  <2>2. ti.nodes[m].num_children_ = 2^depth
    BY <1>10 DEF IsInterposed
  <2>3. Edge(ti.nodes[m], 2^depth) = to[leaf]
    <3>1. Edge(ti.nodes[m], 2^depth) = n.start + 2^depth * n.width
      BY <1>10 DEF Edge
    <3>2. 2^depth * n.width = r * width
      BY <1>6, <1>7, <1>8
    <3> QED
      BY <1>4, <1>8, <3>1, <3>2
  <2> QED
    BY <1>2, <2>1, <2>2, <2>3 DEF TakesPlace
<1>12. PICK parent1, first1, from1, to1 :
           IsRaised(t, from, to, ti, parent1, first1, from1, to1, p, leaf, m, depth)
  <2> HIDE DEF m
  <2> QED
    BY <1>10, <1>11, InterposedIsRaised
<1>18. /\ WellFormed(ti, parent1, first1, from1, to1)
       /\ Keys(ti) = Keys(t)
       /\ m # Superroot
       /\ parent1[leaf] = m /\ first1[leaf] = 0 /\ Repeats(ti.nodes[leaf]) = 2^depth
       /\ \A key \in Int : \A i \in Nodes(t) : IsIn(ti, from1, to1, i, key)
                                                   <=> IsIn(t, from, to, i, key)
       /\ Leaves(ti) = Leaves(t)
  BY <1>12 DEF IsRaised
<1> DEFINE ends == Ends(0, factors)
           count == Len(factors)
           t2 == SplitBelow(t, p, leaf, n, f, f + r, factors)
<1>13. AreRuns(ends, factors, count) /\ ends[0] = 0 /\ ends[count] = 2^depth
  <2>1. 0 % 2^(depth + 0) = 0 /\ 0 + 2^(depth + 0) = 2^depth
    <3>1. depth + 0 = depth
      BY <1>6
    <3>2. 2^depth \in Nat /\ 2^depth > 0
      BY <1>6, PowerFacts
    <3>3. 0 % 2^depth = 0
      <4>1. 0 = 0 * 2^depth + 0 /\ 0 \in 0 .. 2^depth - 1
        BY <3>2
      <4> QED
        BY <3>2, <4>1, Remainders
    <3> QED
      BY <3>1, <3>2, <3>3
  <2>2. /\ AreRuns(Ends(0, factors), factors, Len(factors))
        /\ Ends(0, factors)[0] = 0
        /\ Ends(0, factors)[Len(factors)] = 0 + 2^(depth + 0)
    BY <1>6, <2>1, FanoutIsRuns
  <2> QED
    BY <2>1, <2>2
<1> HIDE DEF ends, count
<1>14. IsDivision(ti, t2, leaf, m, ends, factors, count)
  <2>1. f = first[leaf] /\ r = Repeats(t.nodes[leaf])
    BY <1>2 DEF r
  <2>2. IsInterposed(t, ti, p, leaf, t.fresh, depth, f, f + r)
    BY <1>10, <2>1
  <2>3. ends = Ends(0, factors) /\ count = Len(factors)
    BY DEF ends, count
  <2>4. n.duplication_factor_ = t.nodes[leaf].duplication_factor_
    BY <1>8 DEF dup
  <2> HIDE DEF t2
  <2> SUFFICES IsDivision(ti, SplitBelow(t, p, leaf, n, f, f + r, factors),
                          leaf, t.fresh, ends, factors, count)
    BY DEF t2
  <2> QED
    BY <1>2, <1>6, <1>8, <1>10, <1>13, <2>2, <2>3, <2>4, SplitBelowIsDivision
<1>15. TakesRun(ti, parent1, first1, leaf, m, ends, factors, count)
  BY <1>6, <1>18, <1>13, PowerFacts DEF TakesRun
<1> HIDE DEF t2
<1>16. IsSplit(ti, t2, from1, to1, leaf, m)
  BY <1>18, <1>14, <1>15, DivisionIsSplit
<1>17. IsSplit(t, t2, from, to, leaf, m)
  BY <1>2, <1>18, <1>16 DEF IsSplit
<1> QED
  BY <1>9, <1>17 DEF t2

-----------------------------------------------------------------------------
\* A tree whose nodes change where they are.
LEMMA NodesReplaced ==
    ASSUME NEW t, IsTree(t), NEW nodes, nodes = [i \in DOMAIN nodes |-> nodes[i]],
           DOMAIN nodes = DOMAIN t.nodes,
           \A i \in DOMAIN nodes : IsModel(nodes[i]) \/ nodes[i] \in LeafNodes,
           IsModel(nodes[Superroot]), nodes[Superroot].num_children_ = 1
    PROVE  LET t2 == [t EXCEPT !.nodes = nodes]
           IN  /\ IsTree(t2) /\ t2.nodes = nodes /\ t2.fresh = t.fresh
               /\ t2.key_domain_min_ = t.key_domain_min_
               /\ t2.key_domain_max_ = t.key_domain_max_
<1>1. /\ AreNodes(t.nodes, t.fresh)
      /\ t.key_domain_min_ \in Int /\ t.key_domain_max_ \in Int
  BY NodesOfTree
<1>2. AreNodes(nodes, t.fresh)
  BY <1>1 DEF AreNodes
<1>3. [t EXCEPT !.nodes = nodes]
          = TreeOf(nodes, t.fresh, t.key_domain_min_, t.key_domain_max_)
  BY TreeSetters
<1> QED
  BY <1>1, <1>2, <1>3, TreeOfFacts

\* The children of a node, by their parent.
LEMMA ChildrenFacts ==
    ASSUME NEW t, NEW parent, NEW first, IsTree(t), HasRuns(t, parent, first),
           parent \in [Nodes(t) -> Models(t)], first \in [Nodes(t) -> Nat],
           NEW i \in Models(t), NEW c
    PROVE  /\ (\E b \in 0 .. t.nodes[i].num_children_ - 1 : t.nodes[i].children_[b] = c)
                  <=> c \in Nodes(t) /\ parent[c] = i
           /\ DOMAIN t.nodes[i].children_ = 0 .. t.nodes[i].num_children_ - 1
           /\ c \in {t.nodes[i].children_[b] : b \in DOMAIN t.nodes[i].children_}
                  <=> c \in Nodes(t) /\ parent[c] = i
<1>1. ASSUME c \in Nodes(t), parent[c] = i
      PROVE  \E b \in 0 .. t.nodes[i].num_children_ - 1 : t.nodes[i].children_[b] = c
  <2> DEFINE r == Repeats(t.nodes[c])
             num == t.nodes[i].num_children_
             b == first[c]
  <2>1. b \in Nat /\ r \in Nat /\ r > 0 /\ b + r <= num
    BY <1>1, RunFacts
  <2>2. num \in Nat
    BY NodeFacts
  <2>3. \A d \in 0 .. num - 1 : t.nodes[i].children_[d] = c <=> b <= d /\ d < b + r
    BY <1>1, RunFacts
  <2> HIDE DEF r, num, b
  <2>4. b \in 0 .. num - 1 /\ b <= b /\ b < b + r
    BY <2>1, <2>2
  <2> QED
    BY <2>3, <2>4 DEF num
<1>2. \A b \in 0 .. t.nodes[i].num_children_ - 1 :
          t.nodes[i].children_[b] \in Nodes(t) /\ parent[t.nodes[i].children_[b]] = i
  BY RunFacts
<1>3. DOMAIN t.nodes[i].children_ = 0 .. t.nodes[i].num_children_ - 1
  BY NodeFacts
<1> QED
  BY <1>1, <1>2, <1>3

\* What an expansion does to the nodes: F pointers in place of one.
IsExpansion(t, t2, parent, node, k, F) ==
    /\ IsTree(t2) /\ DOMAIN t2.nodes = DOMAIN t.nodes /\ t2.fresh = t.fresh
    /\ t2.key_domain_min_ = t.key_domain_min_ /\ t2.key_domain_max_ = t.key_domain_max_
    /\ \A i \in DOMAIN t.nodes :
           /\ t2.nodes[i].is_leaf_ = t.nodes[i].is_leaf_
           /\ t2.nodes[i].level_ = t.nodes[i].level_
    /\ \A i \in Nodes(t) :
           t2.nodes[i].duplication_factor_ =
               IF parent[i] = node THEN t.nodes[i].duplication_factor_ + k
               ELSE t.nodes[i].duplication_factor_
    /\ \A i \in Models(t) : i # node =>
           /\ t2.nodes[i].start = t.nodes[i].start
           /\ t2.nodes[i].width = t.nodes[i].width
           /\ t2.nodes[i].num_children_ = t.nodes[i].num_children_
           /\ t2.nodes[i].children_ = t.nodes[i].children_
    /\ t2.nodes[node].start = t.nodes[node].start
    /\ F * t2.nodes[node].width = t.nodes[node].width
    /\ t2.nodes[node].num_children_ = t.nodes[node].num_children_ * F
    /\ \A b \in 0 .. t.nodes[node].num_children_ * F - 1 :
           t2.nodes[node].children_[b] = t.nodes[node].children_[b \div F]
    /\ \A i \in Leaves(t) :
           /\ t2.nodes[i].keys = t.nodes[i].keys
           /\ t2.nodes[i].next_leaf_ = t.nodes[i].next_leaf_
           /\ t2.nodes[i].prev_leaf_ = t.nodes[i].prev_leaf_

\* A model node with more pointers.
LEMMA WiderFacts ==
    ASSUME NEW n, IsModel(n), n.width % 4 = 0, NEW F, F \in {2, 4}
    PROVE  /\ IsModelOf(Wider(n, F), n.level_, n.duplication_factor_, n.start,
                        n.width \div F, n.num_children_ * F)
           /\ F * (n.width \div F) = n.width
           /\ \A b \in 0 .. n.num_children_ * F - 1 :
                  Wider(n, F).children_[b] = n.children_[b \div F]
<1> DEFINE w == n.width \div F
           num == n.num_children_ * F
           c == [i \in 0 .. num - 1 |-> n.children_[i \div F]]
           m == [n EXCEPT !.width = w, !.num_children_ = num, !.children_ = c]
<1>1. /\ n.width \in Nat /\ n.width > 0 /\ n.num_children_ \in Nat
      /\ n.num_children_ > 0 /\ n.children_ \in [0 .. n.num_children_ - 1 -> Int]
  BY DEF IsModel
<1>2. w \in Nat /\ w > 0 /\ F * w = n.width
  <2>1. CASE F = 2
    BY <1>1, <2>1
  <2>2. CASE F = 4
    BY <1>1, <2>2
  <2> QED
    BY <2>1, <2>2
<1>3. num \in Nat /\ num > 0 /\ c \in [0 .. num - 1 -> Int]
      /\ \A i \in 0 .. num - 1 : c[i] = n.children_[i \div F]
  <2>1. num \in Nat /\ num > 0
    BY <1>1
  <2>2. ASSUME NEW i \in 0 .. num - 1 PROVE i \div F \in 0 .. n.num_children_ - 1
    BY <1>1
  <2>3. \A i \in 0 .. num - 1 : n.children_[i \div F] \in Int
    BY <1>1, <2>2
  <2> QED
    BY <2>1, <2>3
<1>4. Wider(n, F) = m
  BY DEF Wider
<1> HIDE DEF w, num, c
<1>5. n \in [is_leaf_ : {FALSE}, level_ : Int, duplication_factor_ : Nat,
             start : Int, width : Nat \ {0}, rounding : {Exact},
             num_children_ : Nat \ {0}, children_ : [0 .. n.num_children_ - 1 -> Int]]
  BY DEF IsModel
<1>6. m \in [is_leaf_ : {FALSE}, level_ : {n.level_},
             duplication_factor_ : {n.duplication_factor_},
             start : {n.start}, width : {w}, rounding : {Exact},
             num_children_ : {num}, children_ : {c}]
  BY <1>5
<1>7. n.level_ \in Int /\ n.duplication_factor_ \in Nat /\ n.start \in Int
  BY <1>5
<1> HIDE DEF m
<1>8. /\ m.is_leaf_ = FALSE /\ m.level_ = n.level_
      /\ m.duplication_factor_ = n.duplication_factor_ /\ m.start = n.start
      /\ m.width = w /\ m.num_children_ = num /\ m.children_ = c
  BY <1>6
<1>9. IsModel(m)
  <2>1. c \in [0 .. m.num_children_ - 1 -> Int]
    BY <1>3, <1>8
  <2>2. w \in Nat \ {0} /\ num \in Nat \ {0}
    BY <1>2, <1>3
  <2>3. m \in [is_leaf_ : {FALSE}, level_ : Int, duplication_factor_ : Nat,
               start : Int, width : Nat \ {0}, rounding : {Exact},
               num_children_ : Nat \ {0}, children_ : [0 .. m.num_children_ - 1 -> Int]]
    BY <1>6, <1>7, <2>1, <2>2
  <2> QED
    BY <2>3 DEF IsModel
<1>10. IsModelOf(m, n.level_, n.duplication_factor_, n.start, w, num)
  BY <1>8, <1>9 DEF IsModelOf
<1> QED
  BY <1>2, <1>3, <1>4, <1>8, <1>10 DEF w, num

\* AlexModelNode::expand does that.
LEMMA ExpandIsExpansion ==
    ASSUME NEW t, NEW parent, NEW first, IsTree(t), HasRuns(t, parent, first),
           parent \in [Nodes(t) -> Models(t)], first \in [Nodes(t) -> Nat],
           NEW node \in Models(t), node # Superroot,
           NEW k, k \in 1 .. 2, t.nodes[node].width % 4 = 0
    PROVE  IsExpansion(t, expand(t, node, k), parent, node, k, 2^k)
<1> DEFINE n == t.nodes[node]
           F == 2^k
           num == n.num_children_ * F
           wider == Wider(n, F)
           children == Range(n.children_)
           doubled(i) == [t.nodes[i] EXCEPT !.duplication_factor_ =
                                               t.nodes[i].duplication_factor_ + k]
           nodes == [i \in DOMAIN t.nodes |->
                        IF i = node THEN wider
                        ELSE IF i \in children THEN doubled(i) ELSE t.nodes[i]]
           t2 == [t EXCEPT !.nodes = nodes]
<1>1. expand(t, node, k) = t2
  BY DEF expand
<1>2. /\ IsModel(n) /\ n.width \in Nat /\ n.width > 0 /\ n.num_children_ \in Nat
      /\ n.num_children_ > 0 /\ n.children_ \in [0 .. n.num_children_ - 1 -> Int]
      /\ node \in DOMAIN t.nodes /\ n.width % 4 = 0
  BY NodeFacts
<1>3. F \in {2, 4} /\ k \in Nat
  <2>1. 2^0 = 1 /\ 2^(0 + 1) = 2 * 2^0 /\ 2^(1 + 1) = 2 * 2^1
    BY PowerFacts
  <2>2. 2^1 = 2 /\ 2^2 = 4
    BY <2>1
  <2>3. CASE k = 1
    BY <2>2, <2>3
  <2>4. CASE k = 2
    BY <2>2, <2>4
  <2> QED
    BY <2>3, <2>4
<1>4. \A i : i \in children <=> i \in Nodes(t) /\ parent[i] = node
  BY ChildrenFacts DEF Range
<1> HIDE DEF n, F, children
<1> HIDE DEF wider
<1>7. /\ IsModel(wider) /\ wider.is_leaf_ = FALSE /\ wider.level_ = n.level_
      /\ wider.duplication_factor_ = n.duplication_factor_
      /\ wider.start = n.start /\ F * wider.width = n.width
      /\ wider.num_children_ = num
      /\ \A b \in 0 .. num - 1 : wider.children_[b] = n.children_[b \div F]
  <2>1. /\ IsModelOf(Wider(n, F), n.level_, n.duplication_factor_, n.start,
                     n.width \div F, num)
        /\ F * (n.width \div F) = n.width
        /\ \A b \in 0 .. num - 1 : Wider(n, F).children_[b] = n.children_[b \div F]
    <3>1. IsModel(n) /\ n.width % 4 = 0 /\ F \in {2, 4}
      BY <1>2, <1>3
    <3> HIDE DEF num
    <3>2. num = n.num_children_ * F
      BY DEF num
    <3> QED
      BY <3>1, <3>2, WiderFacts
  <2>2. IsModelOf(wider, n.level_, n.duplication_factor_, n.start, n.width \div F, num)
    BY <2>1 DEF wider
  <2>3. IsModel(wider) /\ wider.is_leaf_ \in {FALSE}
    BY <2>2 DEF IsModelOf, IsModel
  <2> QED
    BY <2>1, <2>2, <2>3 DEF IsModelOf, wider
<1>8. ASSUME NEW i \in DOMAIN t.nodes
      PROVE  /\ IsModel(doubled(i)) \/ doubled(i) \in LeafNodes
             /\ doubled(i).is_leaf_ = t.nodes[i].is_leaf_
             /\ doubled(i).level_ = t.nodes[i].level_
             /\ doubled(i).duplication_factor_ = t.nodes[i].duplication_factor_ + k
             /\ i \in Leaves(t) => /\ doubled(i).keys = t.nodes[i].keys
                                   /\ doubled(i).next_leaf_ = t.nodes[i].next_leaf_
                                   /\ doubled(i).prev_leaf_ = t.nodes[i].prev_leaf_
             /\ i \in Models(t) => /\ doubled(i).start = t.nodes[i].start
                                   /\ doubled(i).width = t.nodes[i].width
                                   /\ doubled(i).num_children_ = t.nodes[i].num_children_
                                   /\ doubled(i).children_ = t.nodes[i].children_
  <2> DEFINE o == t.nodes[i]
             d == o.duplication_factor_ + k
             m == [o EXCEPT !.duplication_factor_ = d]
  <2>1. d \in Nat
    BY <1>3, NodeFacts
  <2>2. doubled(i) = m
    OBVIOUS
  <2>3. CASE i \in Leaves(t)
    <3>1. o \in LeafNodes /\ i \notin Models(t)
      BY <2>3, NodeFacts
    <3> HIDE DEF o, d
    <3>2. /\ m \in LeafNodes /\ m.is_leaf_ = o.is_leaf_ /\ m.level_ = o.level_
          /\ m.duplication_factor_ = d /\ m.keys = o.keys
          /\ m.prev_leaf_ = o.prev_leaf_ /\ m.next_leaf_ = o.next_leaf_
      BY <2>1, <3>1 DEF LeafNodes
    <3> HIDE DEF doubled, m
    <3> QED
      BY <2>2, <3>1, <3>2 DEF o, d
  <2>4. CASE i \notin Leaves(t)
    <3>1. IsModel(o)
      BY <2>4, NodeFacts
    <3> HIDE DEF o, d
    <3>2. /\ IsModel(m) /\ m.is_leaf_ = o.is_leaf_ /\ m.level_ = o.level_
          /\ m.duplication_factor_ = d /\ m.start = o.start /\ m.width = o.width
          /\ m.num_children_ = o.num_children_ /\ m.children_ = o.children_
      BY <2>1, <3>1 DEF IsModel
    <3> HIDE DEF doubled, m
    <3> QED
      BY <2>2, <2>4, <3>2 DEF o, d
  <2> QED
    BY <2>3, <2>4
<1> HIDE DEF doubled
<1>9. /\ DOMAIN nodes = DOMAIN t.nodes /\ nodes = [i \in DOMAIN nodes |-> nodes[i]]
      /\ nodes[node] = wider
      /\ \A i \in DOMAIN t.nodes : i # node =>
             nodes[i] = IF i \in Nodes(t) /\ parent[i] = node THEN doubled(i) ELSE t.nodes[i]
  BY <1>2, <1>4
<1> HIDE DEF nodes
<1>10. nodes[Superroot] = t.nodes[Superroot]
  BY <1>9 DEF IsTree, Nodes
<1>11. \A i \in DOMAIN t.nodes : IsModel(t.nodes[i]) \/ t.nodes[i] \in LeafNodes
  BY DEF IsTree
<1>12. IsModel(t.nodes[Superroot]) /\ t.nodes[Superroot].num_children_ = 1
  BY DEF IsTree
<1>13. /\ IsTree(t2) /\ t2.nodes = nodes /\ t2.fresh = t.fresh
       /\ t2.key_domain_min_ = t.key_domain_min_
       /\ t2.key_domain_max_ = t.key_domain_max_
  <2>1. \A i \in DOMAIN nodes : IsModel(nodes[i]) \/ nodes[i] \in LeafNodes
    BY <1>7, <1>8, <1>9, <1>11
  <2> QED
    BY <1>9, <1>10, <1>12, <2>1, NodesReplaced
<1>14. node \notin Leaves(t) /\ ~(node \in Nodes(t) /\ parent[node] = node) /\ n.is_leaf_ = FALSE
  <2>1. ASSUME node \in Nodes(t), parent[node] = node PROVE FALSE
    <3>1. t.nodes[node].level_ < t.nodes[node].level_ /\ t.nodes[node].level_ \in Int
      BY <1>2, <2>1, RunFacts, NodeFacts
    <3> QED
      BY <3>1
  <2>2. n.is_leaf_ \in {FALSE}
    BY <1>2 DEF IsModel
  <2> QED
    BY <2>1, <2>2 DEF Models
<1> HIDE DEF t2
<1>15. ASSUME NEW i \in DOMAIN t.nodes
       PROVE  /\ t2.nodes[i].is_leaf_ = t.nodes[i].is_leaf_
              /\ t2.nodes[i].level_ = t.nodes[i].level_
              /\ i \in Nodes(t) =>
                     t2.nodes[i].duplication_factor_ =
                         IF parent[i] = node THEN t.nodes[i].duplication_factor_ + k
                         ELSE t.nodes[i].duplication_factor_
  <2>1. CASE i = node
    BY <1>7, <1>9, <1>13, <1>14, <2>1 DEF n
  <2>2. CASE i # node
    BY <1>8, <1>9, <1>13, <2>2
  <2> QED
    BY <2>1, <2>2
<1>16. ASSUME NEW i \in Models(t), i # node
       PROVE  /\ t2.nodes[i].start = t.nodes[i].start
              /\ t2.nodes[i].width = t.nodes[i].width
              /\ t2.nodes[i].num_children_ = t.nodes[i].num_children_
              /\ t2.nodes[i].children_ = t.nodes[i].children_
  BY <1>8, <1>9, <1>13, <1>16, NodeFacts
<1>17. ASSUME NEW i \in Leaves(t)
       PROVE  /\ t2.nodes[i].keys = t.nodes[i].keys
              /\ t2.nodes[i].next_leaf_ = t.nodes[i].next_leaf_
              /\ t2.nodes[i].prev_leaf_ = t.nodes[i].prev_leaf_
  <2>1. i \in DOMAIN t.nodes /\ i # node
    BY <1>14 DEF Leaves
  <2> QED
    BY <1>8, <1>9, <1>13, <2>1
<1>18. /\ t2.nodes[node].start = n.start
       /\ F * t2.nodes[node].width = n.width
       /\ t2.nodes[node].num_children_ = n.num_children_ * F
       /\ \A b \in 0 .. n.num_children_ * F - 1 :
              t2.nodes[node].children_[b] = n.children_[b \div F]
  BY <1>7, <1>9, <1>13 DEF num
<1>19. DOMAIN t2.nodes = DOMAIN t.nodes
  BY <1>9, <1>13
<1>20. \A i \in Nodes(t) : i \in DOMAIN t.nodes
  BY DEF Nodes
<1>21. IsExpansion(t, t2, parent, node, k, F)
  BY <1>13, <1>15, <1>16, <1>17, <1>18, <1>19, <1>20 DEF IsExpansion, n
<1> QED
  BY <1>1, <1>21 DEF F

-----------------------------------------------------------------------------
\* The first pointers of an expanded node's children.
ExpandedFirst(t, parent, first, node, F) ==
    [c \in Nodes(t) |-> IF parent[c] = node THEN first[c] * F ELSE first[c]]

IsMultiple(a, r) == a % r = 0

\* Multiples by two or four, and what they are multiples of.
LEMMA Multiplied ==
    ASSUME NEW F, F \in {2, 4}, NEW a \in Nat, NEW r \in Nat, r > 0, IsMultiple(a, r)
    PROVE  /\ a * F \in Nat /\ r * F \in Nat /\ r * F > 0
           /\ IsMultiple(a * F, r * F)
           /\ \A b \in Nat : a <= b \div F /\ b \div F < a + r
                                 <=> a * F <= b /\ b < a * F + r * F
<1>1. PICK q \in Nat : a = q * r
  <2>1. a = (a \div r) * r + (a % r) /\ a \div r \in Int /\ a % r = 0
    BY Remainders DEF IsMultiple
  <2> DEFINE q == a \div r
  <2>2. a = q * r /\ q \in Int
    BY <2>1
  <2> HIDE DEF q
  <2>3. q \in Nat
    <3>1. q * r >= 0
      BY <2>2
    <3>2. q < 0 => q * r < 0
      BY <2>2, Products
    <3> QED
      BY <2>2, <3>1, <3>2
  <2> QED
    BY <2>2, <2>3
<1>2. r * F \in Nat /\ r * F > 0 /\ a * F \in Nat
  OBVIOUS
<1>3. a * F = q * (r * F)
  BY <1>1
<1>4. (q * (r * F)) % (r * F) = 0
  <2> DEFINE u == r * F
  <2>1. u \in Nat /\ u > 0
    BY <1>2
  <2> HIDE DEF u
  <2>2. (q * u) % u = 0
    BY <2>1, Multiples
  <2> QED
    BY <2>2 DEF u
<1>5. ASSUME NEW b \in Nat
      PROVE  a <= b \div F /\ b \div F < a + r <=> a * F <= b /\ b < a * F + r * F
  <2>1. CASE F = 2
    BY <2>1
  <2>2. CASE F = 4
    BY <2>2
  <2> QED
    BY <2>1, <2>2
<1> QED
  BY <1>2, <1>3, <1>4, <1>5 DEF IsMultiple

\* An expansion keeps the runs of pointers, which become longer.
LEMMA ExpansionKeepsRuns ==
    ASSUME NEW t, NEW parent, NEW first, IsTree(t), HasRuns(t, parent, first),
           parent \in [Nodes(t) -> Models(t)], first \in [Nodes(t) -> Nat],
           NEW node \in Models(t), NEW k, k \in 1 .. 2, NEW F, F = 2^k,
           NEW t2, IsExpansion(t, t2, parent, node, k, F),
           NEW first2, first2 = ExpandedFirst(t, parent, first, node, F)
    PROVE  /\ HasRuns(t2, parent, first2)
           /\ Leaves(t2) = Leaves(t) /\ Models(t2) = Models(t) /\ Nodes(t2) = Nodes(t)
           /\ first2 \in [Nodes(t) -> Nat]
           /\ \A c \in Nodes(t) :
                 /\ parent[c] = node =>
                       /\ first2[c] = first[c] * F
                       /\ Repeats(t2.nodes[c]) = Repeats(t.nodes[c]) * F
                 /\ parent[c] # node =>
                       /\ first2[c] = first[c]
                       /\ Repeats(t2.nodes[c]) = Repeats(t.nodes[c])
           /\ F \in {2, 4}
<1>1. F \in {2, 4} /\ k \in Nat
  <2>1. 2^0 = 1 /\ 2^(0 + 1) = 2 * 2^0 /\ 2^(1 + 1) = 2 * 2^1
    BY PowerFacts
  <2>2. 2^1 = 2 /\ 2^2 = 4
    BY <2>1
  <2>3. CASE k = 1
    BY <2>2, <2>3
  <2>4. CASE k = 2
    BY <2>2, <2>4
  <2> QED
    BY <2>3, <2>4
<1>2. /\ IsTree(t2) /\ DOMAIN t2.nodes = DOMAIN t.nodes
      /\ \A i \in DOMAIN t.nodes :
             /\ t2.nodes[i].is_leaf_ = t.nodes[i].is_leaf_
             /\ t2.nodes[i].level_ = t.nodes[i].level_
      /\ \A i \in Nodes(t) :
             t2.nodes[i].duplication_factor_ =
                 IF parent[i] = node THEN t.nodes[i].duplication_factor_ + k
                 ELSE t.nodes[i].duplication_factor_
      /\ \A i \in Models(t) : i # node =>
             /\ t2.nodes[i].num_children_ = t.nodes[i].num_children_
             /\ t2.nodes[i].children_ = t.nodes[i].children_
      /\ t2.nodes[node].num_children_ = t.nodes[node].num_children_ * F
      /\ \A b \in 0 .. t.nodes[node].num_children_ * F - 1 :
             t2.nodes[node].children_[b] = t.nodes[node].children_[b \div F]
  BY DEF IsExpansion
<1>3. Leaves(t2) = Leaves(t) /\ Models(t2) = Models(t) /\ Nodes(t2) = Nodes(t)
  BY <1>2 DEF Leaves, Models, Nodes
<1>4. /\ first2 \in [Nodes(t) -> Nat]
      /\ \A c \in Nodes(t) :
             first2[c] = IF parent[c] = node THEN first[c] * F ELSE first[c]
  BY <1>1 DEF ExpandedFirst
<1>5. ASSUME NEW c \in Nodes(t)
      PROVE  Repeats(t2.nodes[c]) = IF parent[c] = node THEN Repeats(t.nodes[c]) * F
                                    ELSE Repeats(t.nodes[c])
  <2> DEFINE d == t.nodes[c].duplication_factor_
  <2>1. d \in Nat
    BY NodeFacts DEF Nodes
  <2>2. CASE parent[c] = node
    <3>1. t2.nodes[c].duplication_factor_ = d + k
      BY <1>2, <2>2
    <3> HIDE DEF d
    <3>2. 2^(d + k) = 2^d * 2^k
      BY <1>1, <2>1, PowerOfSum
    <3> QED
      BY <2>2, <3>1, <3>2 DEF Repeats, d
  <2>3. CASE parent[c] # node
    BY <1>2, <2>3 DEF Repeats
  <2> QED
    BY <2>2, <2>3
<1>6. \A i \in Models(t2) : \E x \in Nat : t2.nodes[i].num_children_ = 2^x
  <2>1. ASSUME NEW i \in Models(t), i # node
        PROVE  \E x \in Nat : t2.nodes[i].num_children_ = 2^x
    BY <1>2, <2>1 DEF HasRuns
  <2>2. \E x \in Nat : t2.nodes[node].num_children_ = 2^x
    <3>1. PICK x \in Nat : t.nodes[node].num_children_ = 2^x
      BY DEF HasRuns
    <3>2. 2^(x + k) = 2^x * 2^k /\ x + k \in Nat
      BY <1>1, PowerOfSum
    <3>3. t2.nodes[node].num_children_ = 2^(x + k)
      BY <1>2, <3>1, <3>2
    <3> QED
      BY <3>2, <3>3
  <2> QED
    BY <1>3, <2>1, <2>2
<1>7. ASSUME NEW c \in Nodes(t)
      PROVE  HasRun(t2.nodes[parent[c]], c, t2.nodes[c], first2[c])
  <2> DEFINE p == parent[c]
             n == t.nodes[p]
             r == Repeats(t.nodes[c])
             f == first[c]
             r2 == Repeats(t2.nodes[c])
             f2 == first2[c]
             n2 == t2.nodes[p]
  <2>1. /\ p \in Models(t) /\ f \in Nat /\ r \in Nat /\ r > 0
        /\ n.level_ < t.nodes[c].level_ /\ f % r = 0 /\ f + r <= n.num_children_
        /\ \A b \in 0 .. n.num_children_ - 1 : n.children_[b] = c <=> f <= b /\ b < f + r
        /\ c \in DOMAIN t.nodes
    BY RunFacts
  <2>2. n2.level_ < t2.nodes[c].level_ /\ n.num_children_ \in Nat
    <3>1. p \in DOMAIN t.nodes /\ n.num_children_ \in Nat
      BY <2>1, NodeFacts
    <3> QED
      BY <1>2, <2>1, <3>1
  <2>9. t2.nodes[c].level_ \in Int /\ n2.level_ \in Int
    <3>1. c \in DOMAIN t2.nodes /\ p \in DOMAIN t2.nodes
      BY <1>2, <2>1, NodeFacts
    <3> QED
      BY <1>2, <3>1, NodeFacts
  <2>3. CASE p # node
    <3>1. r2 = r /\ f2 = f /\ n2.num_children_ = n.num_children_ /\ n2.children_ = n.children_
      BY <1>2, <1>4, <1>5, <2>1, <2>3
    <3> QED
      BY <2>1, <2>2, <2>9, <3>1 DEF HasRun
  <2>4. CASE p = node
    <3>1. r2 = r * F /\ f2 = f * F /\ n2.num_children_ = n.num_children_ * F
          /\ \A b \in 0 .. n.num_children_ * F - 1 : n2.children_[b] = n.children_[b \div F]
      BY <1>2, <1>4, <1>5, <2>4
    <3> DEFINE num == n.num_children_
    <3> HIDE DEF n, r, f, r2, f2, n2, num, p
    <3>2. /\ f * F \in Nat /\ r * F \in Nat /\ r * F > 0
          /\ \A b \in Nat : f <= b \div F /\ b \div F < f + r
                                 <=> f * F <= b /\ b < f * F + r * F
      <4>1. f \in Nat /\ r \in Nat /\ r > 0 /\ IsMultiple(f, r)
        BY <2>1 DEF IsMultiple
      <4>2. f * F \in Nat /\ r * F \in Nat /\ r * F > 0
        <5>1. f * F \in Nat /\ r * F \in Nat /\ r * F > 0
          BY <1>1, <4>1
        <5> QED
          BY <5>1
      <4>3. ASSUME NEW b \in Nat
            PROVE  f <= b \div F /\ b \div F < f + r <=> f * F <= b /\ b < f * F + r * F
        BY <1>1, <4>1, Multiplied
      <4> QED
        BY <4>2, <4>3
    <3>3. f2 % r2 = 0 /\ f2 + r2 <= num * F
      <4>1. f * F + r * F <= num * F
        BY <1>1, <2>1, <2>2 DEF num
      <4>2. f \in Nat /\ r \in Nat /\ r > 0 /\ IsMultiple(f, r)
        BY <2>1 DEF IsMultiple
      <4>3. IsMultiple(f * F, r * F)
        BY <1>1, <4>2, Multiplied
      <4>4. f2 % r2 = 0
        BY <3>1, <4>3 DEF IsMultiple
      <4> QED
        BY <3>1, <3>2, <4>1, <4>4
    <3>4. ASSUME NEW b \in 0 .. num * F - 1
          PROVE  n2.children_[b] = c <=> f2 <= b /\ b < f2 + r2
      <4>1. b \in Nat /\ b \div F \in 0 .. num - 1
        BY <1>1, <2>2 DEF num
      <4>2. n2.children_[b] = n.children_[b \div F]
        BY <3>1 DEF num
      <4>3. n.children_[b \div F] = c <=> f <= b \div F /\ b \div F < f + r
        BY <2>1, <4>1 DEF num
      <4> QED
        BY <3>1, <3>2, <4>1, <4>2, <4>3
    <3>5. HasRun(n2, c, t2.nodes[c], f2)
      BY <2>2, <2>9, <3>1, <3>3, <3>4 DEF HasRun, r2, num
    <3> QED
      BY <3>5 DEF n2, f2, p
  <2> QED
    BY <2>3, <2>4
<1>8. ASSUME NEW i \in Models(t), NEW b \in 0 .. t2.nodes[i].num_children_ - 1
      PROVE  t2.nodes[i].children_[b] \in Nodes(t) /\ parent[t2.nodes[i].children_[b]] = i
  <2>1. CASE i # node
    <3>1. b \in 0 .. t.nodes[i].num_children_ - 1 /\ t2.nodes[i].children_[b] = t.nodes[i].children_[b]
      BY <1>2, <2>1
    <3> QED
      BY <3>1, RunFacts
  <2>2. CASE i = node
    <3> DEFINE num == t.nodes[node].num_children_
    <3>1. num \in Nat
      BY NodeFacts
    <3>2. b \in 0 .. num * F - 1 /\ t2.nodes[i].children_[b] = t.nodes[node].children_[b \div F]
      BY <1>2, <2>2
    <3>3. b \div F \in 0 .. num - 1
      <4> HIDE DEF num
      <4> QED
        BY <1>1, <3>1, <3>2
    <3> QED
      BY <2>2, <3>2, <3>3, RunFacts
  <2> QED
    BY <2>1, <2>2
<1>9. HasRuns(t2, parent, first2)
  BY <1>3, <1>6, <1>7, <1>8 DEF HasRuns
<1> QED
  BY <1>1, <1>3, <1>4, <1>5, <1>9

-----------------------------------------------------------------------------
\* An expanded tree is well-formed, and for each key as it was.
LEMMA ExpansionIsWellFormed ==
    ASSUME NEW t, NEW parent, NEW first, NEW from, NEW to,
           WellFormed(t, parent, first, from, to),
           NEW node \in Models(t), node # Superroot, NEW k, k \in 1 .. 2, NEW F, F = 2^k,
           NEW t2, IsExpansion(t, t2, parent, node, k, F),
           NEW first2, first2 = ExpandedFirst(t, parent, first, node, F)
    PROVE  /\ WellFormed(t2, parent, first2, from, to)
           /\ Keys(t2) = Keys(t) /\ Leaves(t2) = Leaves(t) /\ Models(t2) = Models(t)
           /\ \A i, key : IsIn(t2, from, to, i, key) <=> IsIn(t, from, to, i, key)
           /\ t2.key_domain_min_ = t.key_domain_min_ /\ t2.key_domain_max_ = t.key_domain_max_
<1>1. /\ IsTree(t) /\ HasRuns(t, parent, first)
      /\ parent \in [Nodes(t) -> Models(t)] /\ first \in [Nodes(t) -> Nat]
      /\ from \in [Nodes(t) -> Int] /\ to \in [Nodes(t) -> Int]
  BY WellFormedParts
<1>2. /\ HasRuns(t2, parent, first2)
      /\ Leaves(t2) = Leaves(t) /\ Models(t2) = Models(t) /\ Nodes(t2) = Nodes(t)
      /\ first2 \in [Nodes(t) -> Nat]
      /\ \A c \in Nodes(t) :
            /\ parent[c] = node =>
                  /\ first2[c] = first[c] * F
                  /\ Repeats(t2.nodes[c]) = Repeats(t.nodes[c]) * F
            /\ parent[c] # node =>
                  /\ first2[c] = first[c]
                  /\ Repeats(t2.nodes[c]) = Repeats(t.nodes[c])
      /\ F \in {2, 4}
  BY <1>1, ExpansionKeepsRuns
<1>3. /\ IsTree(t2)
      /\ t2.key_domain_min_ = t.key_domain_min_ /\ t2.key_domain_max_ = t.key_domain_max_
      /\ \A i \in DOMAIN t.nodes : t2.nodes[i].is_leaf_ = t.nodes[i].is_leaf_
      /\ \A i \in Models(t) : i # node =>
             /\ t2.nodes[i].start = t.nodes[i].start
             /\ t2.nodes[i].width = t.nodes[i].width
             /\ t2.nodes[i].num_children_ = t.nodes[i].num_children_
             /\ t2.nodes[i].children_ = t.nodes[i].children_
      /\ t2.nodes[node].start = t.nodes[node].start
      /\ F * t2.nodes[node].width = t.nodes[node].width
      /\ t2.nodes[node].num_children_ = t.nodes[node].num_children_ * F
      /\ \A i \in Leaves(t) :
             /\ t2.nodes[i].keys = t.nodes[i].keys
             /\ t2.nodes[i].next_leaf_ = t.nodes[i].next_leaf_
             /\ t2.nodes[i].prev_leaf_ = t.nodes[i].prev_leaf_
  BY DEF IsExpansion
<1>4. AreGhosts(t2, parent, first2, from, to)
  BY <1>1, <1>2 DEF AreGhosts
<1>5. Root(t2) = Root(t) /\ Root(t) \in DOMAIN t.nodes
      /\ t2.nodes[Root(t2)].is_leaf_ = t.nodes[Root(t)].is_leaf_
  <2>1. Superroot \in Models(t)
    BY <1>1, NodeFacts
  <2>2. Root(t) \in DOMAIN t.nodes
    BY <1>1, RootFacts
  <2> QED
    BY <1>3, <2>1, <2>2 DEF Root
<1>6. ASSUME NEW a \in Int PROVE Edge(t2.nodes[node], a * F) = Edge(t.nodes[node], a)
  <2> DEFINE w == t.nodes[node].width
             w2 == t2.nodes[node].width
  <2>1. w \in Int /\ w2 \in Int /\ F * w2 = w
    <3>1. node \in Models(t2)
      BY <1>2
    <3> QED
      BY <1>1, <1>3, <3>1, NodeFacts
  <2>2. (a * F) * w2 = a * w
    <3> HIDE DEF w, w2
    <3>1. CASE F = 2
      BY <2>1, <3>1
    <3>2. CASE F = 4
      BY <2>1, <3>2
    <3> QED
      BY <1>2, <3>1, <3>2
  <2> QED
    BY <1>3, <2>2 DEF Edge
<1>7. ASSUME NEW i \in Models(t), i # node, NEW a
      PROVE  Edge(t2.nodes[i], a) = Edge(t.nodes[i], a)
  BY <1>3, <1>7 DEF Edge
<1>8. HasRegions(t2, parent, first2, from, to)
  <2>1. ASSUME NEW c \in Nodes(t)
        PROVE  IF parent[c] = Superroot
               THEN from[c] = t2.key_domain_min_ /\ to[c] = t2.key_domain_max_
               ELSE /\ from[c] = Edge(t2.nodes[parent[c]], first2[c])
                    /\ to[c] = Edge(t2.nodes[parent[c]], first2[c] + Repeats(t2.nodes[c]))
    <3> DEFINE r == Repeats(t.nodes[c])
    <3>1. /\ parent[c] \in Models(t) /\ first[c] \in Nat /\ r \in Nat
      BY <1>1, RunFacts
    <3>2. IF parent[c] = Superroot
          THEN from[c] = t.key_domain_min_ /\ to[c] = t.key_domain_max_
          ELSE /\ from[c] = Edge(t.nodes[parent[c]], first[c])
               /\ to[c] = Edge(t.nodes[parent[c]], first[c] + r)
      BY DEF WellFormed, HasRegions
    <3>3. CASE parent[c] = node
      <4>1. first2[c] = first[c] * F /\ Repeats(t2.nodes[c]) = r * F
        BY <1>2, <3>3
      <4> HIDE DEF r
      <4>2. first2[c] + Repeats(t2.nodes[c]) = (first[c] + r) * F
        BY <1>2, <3>1, <4>1
      <4>3. first[c] \in Int /\ first[c] + r \in Int
        BY <3>1
      <4>4. /\ Edge(t2.nodes[node], first[c] * F) = Edge(t.nodes[node], first[c])
            /\ Edge(t2.nodes[node], (first[c] + r) * F) = Edge(t.nodes[node], first[c] + r)
        BY <1>6, <4>3
      <4> QED
        BY <3>2, <3>3, <4>1, <4>2, <4>4
    <3>4. CASE parent[c] # node
      <4>1. first2[c] = first[c] /\ Repeats(t2.nodes[c]) = r
        BY <1>2, <3>4
      <4> QED
        <5>1. \A a : Edge(t2.nodes[parent[c]], a) = Edge(t.nodes[parent[c]], a)
          BY <1>7, <3>1, <3>4
        <5> HIDE DEF r
        <5> QED
          BY <1>3, <3>2, <4>1, <5>1
    <3> QED
      BY <3>3, <3>4
  <2>2. ASSUME NEW i \in Models(t) \ {Superroot}
        PROVE  /\ from[i] = Edge(t2.nodes[i], 0)
               /\ to[i] = Edge(t2.nodes[i], t2.nodes[i].num_children_)
    <3>1. /\ from[i] = Edge(t.nodes[i], 0)
          /\ to[i] = Edge(t.nodes[i], t.nodes[i].num_children_)
      BY DEF WellFormed, HasRegions
    <3>2. CASE i = node
      <4>1. 0 * F = 0 /\ t.nodes[node].num_children_ \in Int /\ 0 \in Int
        BY <1>1, <1>2, NodeFacts
      <4>2. /\ Edge(t2.nodes[node], 0 * F) = Edge(t.nodes[node], 0)
            /\ Edge(t2.nodes[node], t.nodes[node].num_children_ * F)
                   = Edge(t.nodes[node], t.nodes[node].num_children_)
        BY <1>6, <4>1
      <4> QED
        BY <1>3, <3>1, <3>2, <4>1, <4>2
    <3>3. CASE i # node
      BY <1>3, <1>7, <3>1, <3>3
    <3> QED
      BY <3>2, <3>3
  <2> QED
    BY <1>2, <2>1, <2>2 DEF HasRegions
<1>9. HasDomain(t2, from, to)
  BY <1>2, <1>3, <1>5 DEF WellFormed, HasDomain
<1>10. AreApart(t2, from, to)
  BY <1>2 DEF WellFormed, AreApart
<1>11. IsChained(t2, from, to)
  <2>1. IsChained(t, from, to)
    BY DEF WellFormed
  <2> QED
    BY <1>2, <1>3, <2>1 DEF IsChained
<1>12. \A i, key : IsIn(t2, from, to, i, key) <=> IsIn(t, from, to, i, key)
  <2>1. \A key : Clamped(t2, key) = Clamped(t, key)
    BY <1>3 DEF Clamped
  <2> QED
    BY <2>1 DEF IsIn
<1>13. IsRouted(t2, from, to)
  <2>1. IsRouted(t, from, to)
    BY DEF WellFormed
  <2> QED
    BY <1>2, <1>3, <1>5, <1>12, <2>1 DEF IsRouted
<1>14. Keys(t2) = Keys(t)
  <2>1. \A key : key \in Keys(t2) <=> key \in Keys(t)
    BY <1>2, <1>3, KeysFacts
  <2> QED
    BY <2>1
<1>15. WellFormed(t2, parent, first2, from, to)
  BY <1>2, <1>3, <1>4, <1>8, <1>9, <1>10, <1>11, <1>13 DEF WellFormed
<1> QED
  BY <1>2, <1>3, <1>12, <1>14, <1>15

\* New leaves in place of an old one divide it.
LEMMA ReplacedIsDivision ==
    ASSUME NEW t, IsTree(t), NEW old \in Leaves(t), NEW p \in Models(t),
           NEW t2, NEW ends, NEW factors, NEW count,
           IsReplaced(t, t2, old, p, ends, factors, count)
    PROVE  IsDivision(t, t2, old, p, ends, factors, count)
<1>1. /\ IsTree(t2)
      /\ DOMAIN t2.nodes = (DOMAIN t.nodes \ {old}) \cup {NewLeaf(t, j) : j \in 1 .. count}
      /\ t2.key_domain_min_ = t.key_domain_min_
      /\ t2.key_domain_max_ = t.key_domain_max_
      /\ \A i \in Models(t) : i # p => t2.nodes[i] = t.nodes[i]
      /\ t2.nodes[p].is_leaf_ = FALSE
      /\ t2.nodes[p].level_ = t.nodes[p].level_
      /\ t2.nodes[p].duplication_factor_ = t.nodes[p].duplication_factor_
      /\ t2.nodes[p].start = t.nodes[p].start
      /\ t2.nodes[p].width = t.nodes[p].width
      /\ t2.nodes[p].num_children_ = t.nodes[p].num_children_
  BY DEF IsReplaced
<1>2. \A i \in Leaves(t) \ {old} :
          /\ t2.nodes[i].is_leaf_
          /\ t2.nodes[i].level_ = t.nodes[i].level_
          /\ t2.nodes[i].duplication_factor_ = t.nodes[i].duplication_factor_
          /\ t2.nodes[i].keys = t.nodes[i].keys
          /\ t2.nodes[i].next_leaf_ =
                 IF i = t.nodes[old].prev_leaf_ THEN NewLeaf(t, 1) ELSE t.nodes[i].next_leaf_
          /\ t2.nodes[i].prev_leaf_ =
                 IF i = t.nodes[old].next_leaf_ /\ i # t.nodes[old].prev_leaf_
                 THEN NewLeaf(t, count) ELSE t.nodes[i].prev_leaf_
  BY DEF IsReplaced
<1>3. \A j \in 1 .. count :
          /\ t2.nodes[NewLeaf(t, j)].is_leaf_
          /\ t2.nodes[NewLeaf(t, j)].level_ = t.nodes[p].level_ + 1
          /\ t2.nodes[NewLeaf(t, j)].duplication_factor_ = factors[j]
          /\ t2.nodes[NewLeaf(t, j)].keys = Part(t.nodes[p], t.nodes[old].keys, ends, count, j)
          /\ t2.nodes[NewLeaf(t, j)].prev_leaf_ =
                 IF j = 1 THEN t.nodes[old].prev_leaf_ ELSE NewLeaf(t, j - 1)
          /\ t2.nodes[NewLeaf(t, j)].next_leaf_ =
                 IF j = count THEN t.nodes[old].next_leaf_ ELSE NewLeaf(t, j + 1)
  BY DEF IsReplaced
<1>4. \A b \in 0 .. t.nodes[p].num_children_ - 1 :
          /\ b < ends[0] \/ ends[count] <= b =>
                 t2.nodes[p].children_[b] = t.nodes[p].children_[b]
          /\ \A j \in 1 .. count : ends[j - 1] <= b /\ b < ends[j] =>
                 t2.nodes[p].children_[b] = NewLeaf(t, j)
  BY DEF IsReplaced
<1>5. t.nodes[p].level_ + 1 > t.nodes[p].level_
  BY NodeFacts
<1>6. ASSUME NEW i \in DOMAIN t.nodes \ {old}
      PROVE  /\ t2.nodes[i].is_leaf_ = t.nodes[i].is_leaf_
             /\ t2.nodes[i].level_ = t.nodes[i].level_
             /\ t2.nodes[i].duplication_factor_ = t.nodes[i].duplication_factor_
  <2>1. CASE i = p
    <3>1. t.nodes[p].is_leaf_ \in {FALSE}
      BY NodeFacts DEF IsModel
    <3> QED
      BY <1>1, <2>1, <3>1
  <2>2. CASE i \in Models(t) /\ i # p
    BY <1>1, <2>2
  <2>3. CASE i \in Leaves(t)
    <3>1. t.nodes[i].is_leaf_ \in {TRUE}
      BY <2>3, NodeFacts DEF LeafNodes
    <3>2. i \in Leaves(t2)
      BY <1>1, <1>2, <2>3 DEF Leaves
    <3>3. t2.nodes[i].is_leaf_ \in {TRUE}
      BY <1>1, <3>2, NodeFacts DEF LeafNodes
    <3> QED
      BY <1>2, <2>3, <3>1, <3>3
  <2> QED
    BY <2>1, <2>2, <2>3 DEF Models
<1> QED
  BY <1>1, <1>2, <1>3, <1>4, <1>5, <1>6 DEF IsDivision

-----------------------------------------------------------------------------
\* split_sideways promises what a split does.
LEMMA SplitSidewaysIsSplit ==
    ASSUME NEW t, NEW parent, NEW first, NEW from, NEW to,
           WellFormed(t, parent, first, from, to),
           NEW p \in Models(t), p # Superroot, NEW b \in 0 .. t.nodes[p].num_children_ - 1,
           NEW leaf, leaf = t.nodes[p].children_[b], leaf \in Leaves(t),
           NEW depth, NEW factors, IsFanout(depth, factors),
           t.nodes[p].width % 4 = 0
    PROVE  IsSplit(t, split_sideways(t, p, b, depth, factors), from, to, leaf, p)
<1> DEFINE dup == t.nodes[leaf].duplication_factor_
           more == IF depth > dup THEN depth - dup ELSE 0
           extra == IF dup > depth THEN dup - depth ELSE 0
           expanded == IF more > 0 THEN expand(t, p, more) ELSE t
           start == RunStart(b * 2^more, 2^(dup + more))
           g == [j \in DOMAIN factors |-> factors[j] + extra]
           t2 == Deleted(create_new_data_nodes(expanded, leaf, p, start, g), leaf)
<1>1. /\ IsTree(t) /\ HasRuns(t, parent, first)
      /\ parent \in [Nodes(t) -> Models(t)] /\ first \in [Nodes(t) -> Nat]
  BY WellFormedParts
<1>2. split_sideways(t, p, b, depth, factors) = t2
  BY DEF split_sideways
<1>3. /\ leaf \in Nodes(t) /\ parent[leaf] = p
      /\ RunStart(b, Repeats(t.nodes[leaf])) = first[leaf]
  BY <1>1, RunOfLeaf
<1>4. dup \in Nat /\ b \in Nat /\ depth \in 1 .. 2
  <2>1. leaf \in DOMAIN t.nodes
    BY <1>3 DEF Nodes
  <2> QED
    BY <1>1, <2>1, NodeFacts, TotalFanoutIsPower
<1>5. more \in Nat /\ extra \in Nat /\ depth + extra = dup + more /\ more <= 2
  BY <1>4
<1> HIDE DEF dup, more, extra, expanded
\* With or without more pointers, the leaf has a run from start on.
<1>6. \E first1 :
          /\ WellFormed(expanded, parent, first1, from, to)
          /\ Keys(expanded) = Keys(t) /\ Leaves(expanded) = Leaves(t)
          /\ Models(expanded) = Models(t)
          /\ \A i, key : IsIn(expanded, from, to, i, key) <=> IsIn(t, from, to, i, key)
          /\ first1[leaf] = start
          /\ Repeats(expanded.nodes[leaf]) = 2^(dup + more)
  <2>1. CASE more = 0
    <3>1. expanded = t
      BY <2>1 DEF expanded
    <3>2. 2^more = 1 /\ dup + more = dup /\ b * 1 = b
      BY <1>4, <2>1, PowerFacts
    <3>3. start = first[leaf]
      BY <1>3, <3>2 DEF dup, Repeats
    <3>4. Repeats(t.nodes[leaf]) = 2^(dup + more)
      BY <3>2 DEF Repeats, dup
    <3> HIDE DEF start
    <3> QED
      BY <3>1, <3>3, <3>4
  <2>2. CASE more > 0
    <3> DEFINE F == 2^more
               first1 == ExpandedFirst(t, parent, first, p, F)
    <3>1. more \in 1 .. 2
      BY <1>5, <2>2
    <3>2. expanded = expand(t, p, more)
      BY <2>2 DEF expanded
    <3>3. IsExpansion(t, expanded, parent, p, more, F)
      BY <1>1, <3>1, <3>2, ExpandIsExpansion
    <3>4. first1 = ExpandedFirst(t, parent, first, p, F) /\ F = 2^more
      OBVIOUS
    <3> HIDE DEF first1, F, start
    <3>5. /\ WellFormed(expanded, parent, first1, from, to)
          /\ Keys(expanded) = Keys(t) /\ Leaves(expanded) = Leaves(t)
          /\ Models(expanded) = Models(t)
          /\ \A i, key : IsIn(expanded, from, to, i, key) <=> IsIn(t, from, to, i, key)
      BY <3>1, <3>3, <3>4, ExpansionIsWellFormed
    <3>6. /\ HasRuns(expanded, parent, first1)
          /\ first1 \in [Nodes(t) -> Nat] /\ Nodes(expanded) = Nodes(t)
          /\ F \in {2, 4}
      BY <1>1, <3>1, <3>3, <3>4, ExpansionKeepsRuns
    <3>7. /\ IsTree(expanded)
          /\ expanded.nodes[leaf].duplication_factor_ = dup + more
          /\ expanded.nodes[p].num_children_ = t.nodes[p].num_children_ * F
          /\ \A c \in 0 .. t.nodes[p].num_children_ * F - 1 :
                 expanded.nodes[p].children_[c] = t.nodes[p].children_[c \div F]
      BY <1>3, <3>3 DEF IsExpansion, dup
    <3>8. Repeats(expanded.nodes[leaf]) = 2^(dup + more)
      BY <3>7 DEF Repeats
    <3> DEFINE c == b * F
    <3>9. c \in 0 .. t.nodes[p].num_children_ * F - 1 /\ c \div F = b
      <4>1. t.nodes[p].num_children_ \in Nat
        BY <1>1, NodeFacts
      <4>2. CASE F = 2
        BY <4>1, <4>2
      <4>3. CASE F = 4
        BY <4>1, <4>3
      <4> QED
        BY <3>6, <4>2, <4>3
    <3>10. c \in 0 .. expanded.nodes[p].num_children_ - 1 /\ expanded.nodes[p].children_[c] = leaf
      BY <3>7, <3>9
    <3> HIDE DEF c
    <3>11. RunStart(c, Repeats(expanded.nodes[leaf])) = first1[leaf]
      <4>1. p \in Models(expanded) /\ parent \in [Nodes(expanded) -> Models(expanded)]
            /\ first1 \in [Nodes(expanded) -> Nat]
        BY <1>1, <3>5, <3>6
      <4> QED
        BY <3>6, <3>7, <3>10, <4>1, RunOfLeaf
    <3>12. first1[leaf] = start
      BY <3>8, <3>11 DEF c, F, start
    <3> QED
      BY <3>5, <3>8, <3>12
  <2> QED
    BY <1>5, <2>1, <2>2
<1> HIDE DEF start
<1>7. PICK first1 :
          /\ WellFormed(expanded, parent, first1, from, to)
          /\ Keys(expanded) = Keys(t) /\ Leaves(expanded) = Leaves(t)
          /\ Models(expanded) = Models(t)
          /\ \A i, key : IsIn(expanded, from, to, i, key) <=> IsIn(t, from, to, i, key)
          /\ first1[leaf] = start
          /\ Repeats(expanded.nodes[leaf]) = 2^(dup + more)
  BY <1>6
<1>8. /\ IsTree(expanded) /\ HasRuns(expanded, parent, first1)
      /\ parent \in [Nodes(expanded) -> Models(expanded)]
      /\ first1 \in [Nodes(expanded) -> Nat]
  BY <1>7, WellFormedParts
<1>9. leaf \in Leaves(expanded) /\ p \in Models(expanded) /\ leaf \in Nodes(expanded)
  BY <1>7, <1>8, NodeFacts
<1>10. start \in Nat /\ start % 2^(depth + extra) = 0
  BY <1>5, <1>7, <1>8, <1>9, RunFacts
<1> DEFINE ends == Ends(start, g)
           count == Len(g)
<1>11. g = [j \in DOMAIN factors |-> factors[j] + extra]
  OBVIOUS
<1> HIDE DEF g
<1>12. /\ AreRuns(ends, g, count)
       /\ ends[0] = start /\ ends[count] = start + 2^(dup + more)
  <2>1. /\ AreRuns(Ends(start, g), g, Len(g))
        /\ Ends(start, g)[0] = start
        /\ Ends(start, g)[Len(g)] = start + 2^(depth + extra)
    BY <1>5, <1>10, <1>11, FanoutIsRuns
  <2> QED
    BY <1>5, <2>1
<1>13. ends = Ends(start, g) /\ count = Len(g)
  OBVIOUS
<1> HIDE DEF ends, count
<1>14. /\ expanded.nodes[leaf].prev_leaf_ = NoNode
             \/ expanded.nodes[leaf].prev_leaf_ \in Leaves(expanded)
       /\ expanded.nodes[leaf].next_leaf_ = NoNode
             \/ expanded.nodes[leaf].next_leaf_ \in Leaves(expanded)
  BY <1>7, <1>9 DEF WellFormed, IsChained
<1> HIDE DEF t2
<1>15. IsReplaced(expanded, t2, leaf, p, ends, g, count)
  BY <1>8, <1>9, <1>12, <1>13, <1>14, CreatedFacts DEF t2
<1>16. IsDivision(expanded, t2, leaf, p, ends, g, count)
  BY <1>8, <1>9, <1>15, ReplacedIsDivision
<1>17. TakesRun(expanded, parent, first1, leaf, p, ends, g, count)
  BY <1>3, <1>7, <1>9, <1>12 DEF TakesRun
<1>18. IsSplit(expanded, t2, from, to, leaf, p)
  BY <1>7, <1>16, <1>17, DivisionIsSplit
<1>19. IsSplit(t, t2, from, to, leaf, p)
  BY <1>7, <1>18 DEF IsSplit
<1> QED
  BY <1>2, <1>19

-----------------------------------------------------------------------------
(* Other keys in a leaf.                                                   *)

Rekeyed(t, leaf, S) == WithNode(t, leaf, [t.nodes[leaf] EXCEPT !.keys = S])

\* Nodes stay but for a leaf's keys.
IsRekeyed(t, t2, leaf, S) ==
    /\ IsTree(t2) /\ DOMAIN t2.nodes = DOMAIN t.nodes /\ t2.fresh = t.fresh
    /\ t2.key_domain_min_ = t.key_domain_min_ /\ t2.key_domain_max_ = t.key_domain_max_
    /\ \A i \in DOMAIN t.nodes : i # leaf => t2.nodes[i] = t.nodes[i]
    /\ t2.nodes[leaf].is_leaf_ = t.nodes[leaf].is_leaf_
    /\ t2.nodes[leaf].level_ = t.nodes[leaf].level_
    /\ t2.nodes[leaf].duplication_factor_ = t.nodes[leaf].duplication_factor_
    /\ t2.nodes[leaf].next_leaf_ = t.nodes[leaf].next_leaf_
    /\ t2.nodes[leaf].prev_leaf_ = t.nodes[leaf].prev_leaf_
    /\ t2.nodes[leaf].keys = S

\* An assignment to the keys does that.
LEMMA RekeyedFacts ==
    ASSUME NEW t, IsTree(t), NEW leaf \in Leaves(t), NEW S \in SUBSET Key
    PROVE  IsRekeyed(t, Rekeyed(t, leaf, S), leaf, S)
<1> DEFINE n == t.nodes[leaf]
           m == [n EXCEPT !.keys = S]
<1>1. n \in LeafNodes /\ leaf \in DOMAIN t.nodes /\ leaf # Superroot
  BY NodeFacts DEF Nodes
<1>2. n.is_leaf_ \in {TRUE}
  BY <1>1 DEF LeafNodes
<1> HIDE DEF n
<1>3. /\ m \in LeafNodes /\ m.is_leaf_ /\ m.level_ = n.level_
      /\ m.duplication_factor_ = n.duplication_factor_ /\ m.keys = S
      /\ m.prev_leaf_ = n.prev_leaf_ /\ m.next_leaf_ = n.next_leaf_
  BY <1>1, LeafWithKeys
<1>4. m.is_leaf_ \in {TRUE}
  BY <1>3 DEF LeafNodes
<1>5. Rekeyed(t, leaf, S) = WithNode(t, leaf, m)
  BY DEF Rekeyed, n
<1> HIDE DEF m
<1>6. LET t2 == WithNode(t, leaf, m)
      IN  /\ IsTree(t2) /\ DOMAIN t2.nodes = DOMAIN t.nodes /\ t2.fresh = t.fresh
          /\ t2.key_domain_min_ = t.key_domain_min_
          /\ t2.key_domain_max_ = t.key_domain_max_
          /\ t2.nodes[leaf] = m
          /\ \A j \in DOMAIN t.nodes : j # leaf => t2.nodes[j] = t.nodes[j]
  BY <1>1, <1>3, WithNodeFacts
<1>7. m.is_leaf_ = n.is_leaf_
  BY <1>2, <1>4
<1> QED
  BY <1>3, <1>5, <1>6, <1>7 DEF IsRekeyed, n

\* The tree stays well-formed if all keys belong to the leaf.
LEMMA RekeyedIsWellFormed ==
    ASSUME NEW t, NEW parent, NEW first, NEW from, NEW to,
           WellFormed(t, parent, first, from, to),
           NEW leaf \in Leaves(t), NEW S,
           ~t.nodes[Root(t)].is_leaf_ => \A key \in S : IsIn(t, from, to, leaf, key),
           NEW t2, IsRekeyed(t, t2, leaf, S)
    PROVE  /\ WellFormed(t2, parent, first, from, to)
           /\ Leaves(t2) = Leaves(t) /\ Models(t2) = Models(t) /\ Nodes(t2) = Nodes(t)
           /\ Root(t2) = Root(t)
           /\ t2.nodes[Root(t2)].is_leaf_ = t.nodes[Root(t)].is_leaf_
           /\ \A i, key : IsIn(t2, from, to, i, key) <=> IsIn(t, from, to, i, key)
<1>1. /\ IsTree(t) /\ HasRuns(t, parent, first)
      /\ parent \in [Nodes(t) -> Models(t)] /\ first \in [Nodes(t) -> Nat]
      /\ from \in [Nodes(t) -> Int] /\ to \in [Nodes(t) -> Int]
  BY WellFormedParts
<1>2. /\ IsTree(t2) /\ DOMAIN t2.nodes = DOMAIN t.nodes /\ t2.fresh = t.fresh
      /\ t2.key_domain_min_ = t.key_domain_min_ /\ t2.key_domain_max_ = t.key_domain_max_
      /\ \A i \in DOMAIN t.nodes : i # leaf => t2.nodes[i] = t.nodes[i]
      /\ t2.nodes[leaf].is_leaf_ = t.nodes[leaf].is_leaf_
      /\ t2.nodes[leaf].level_ = t.nodes[leaf].level_
      /\ t2.nodes[leaf].duplication_factor_ = t.nodes[leaf].duplication_factor_
      /\ t2.nodes[leaf].next_leaf_ = t.nodes[leaf].next_leaf_
      /\ t2.nodes[leaf].prev_leaf_ = t.nodes[leaf].prev_leaf_
      /\ t2.nodes[leaf].keys = S
  BY DEF IsRekeyed
<1>3. leaf \in DOMAIN t.nodes /\ leaf \notin Models(t) /\ leaf # Superroot
  BY <1>1, NodeFacts DEF Nodes, Models
<1>4. \A i \in DOMAIN t.nodes : /\ t2.nodes[i].is_leaf_ = t.nodes[i].is_leaf_
                                /\ t2.nodes[i].level_ = t.nodes[i].level_
                                /\ Repeats(t2.nodes[i]) = Repeats(t.nodes[i])
                                /\ t2.nodes[i].next_leaf_ = t.nodes[i].next_leaf_
                                /\ t2.nodes[i].prev_leaf_ = t.nodes[i].prev_leaf_
  BY <1>2 DEF Repeats
<1>5. Leaves(t2) = Leaves(t) /\ Models(t2) = Models(t) /\ Nodes(t2) = Nodes(t)
  BY <1>2, <1>4 DEF Leaves, Models, Nodes
<1>6. \A i \in Models(t) : t2.nodes[i] = t.nodes[i]
  BY <1>2, <1>3 DEF Models
<1>7. AreGhosts(t2, parent, first, from, to)
  BY <1>1, <1>5 DEF AreGhosts
<1>8. HasRuns(t2, parent, first)
  <2>1. ASSUME NEW c \in Nodes(t)
        PROVE  HasRun(t2.nodes[parent[c]], c, t2.nodes[c], first[c])
    <3>1. HasRun(t.nodes[parent[c]], c, t.nodes[c], first[c])
      BY <1>1 DEF HasRuns
    <3>2. t2.nodes[parent[c]] = t.nodes[parent[c]]
      BY <1>1, <1>6
    <3>3. t2.nodes[c].level_ = t.nodes[c].level_ /\ Repeats(t2.nodes[c]) = Repeats(t.nodes[c])
      BY <1>4 DEF Nodes
    <3> QED
      BY <3>1, <3>2, <3>3 DEF HasRun
  <2>2. /\ \A i \in Models(t2) : \E x \in Nat : t2.nodes[i].num_children_ = 2^x
        /\ \A i \in Models(t2) : \A b \in 0 .. t2.nodes[i].num_children_ - 1 :
               /\ t2.nodes[i].children_[b] \in Nodes(t2)
               /\ parent[t2.nodes[i].children_[b]] = i
    BY <1>1, <1>5, <1>6 DEF HasRuns
  <2> QED
    BY <1>5, <2>1, <2>2 DEF HasRuns
<1>9. Superroot \in Models(t) /\ Root(t) \in DOMAIN t.nodes
  BY <1>1, NodeFacts, RootFacts
<1>10. Root(t2) = Root(t) /\ t2.nodes[Root(t2)].is_leaf_ = t.nodes[Root(t)].is_leaf_
  BY <1>4, <1>6, <1>9 DEF Root
<1>11. HasRegions(t2, parent, first, from, to)
  <2>1. \A c \in Nodes(t) :
           IF parent[c] = Superroot
           THEN from[c] = t.key_domain_min_ /\ to[c] = t.key_domain_max_
           ELSE /\ from[c] = Edge(t.nodes[parent[c]], first[c])
                /\ to[c] = Edge(t.nodes[parent[c]], first[c] + Repeats(t.nodes[c]))
    BY DEF WellFormed, HasRegions
  <2>2. \A i \in Models(t) \ {Superroot} :
           /\ from[i] = Edge(t.nodes[i], 0)
           /\ to[i] = Edge(t.nodes[i], t.nodes[i].num_children_)
    BY DEF WellFormed, HasRegions
  <2>3. \A c \in Nodes(t) : /\ t2.nodes[parent[c]] = t.nodes[parent[c]]
                            /\ Repeats(t2.nodes[c]) = Repeats(t.nodes[c])
    BY <1>1, <1>4, <1>6 DEF Nodes
  <2>4. \A c \in Nodes(t2) :
           IF parent[c] = Superroot
           THEN from[c] = t2.key_domain_min_ /\ to[c] = t2.key_domain_max_
           ELSE /\ from[c] = Edge(t2.nodes[parent[c]], first[c])
                /\ to[c] = Edge(t2.nodes[parent[c]], first[c] + Repeats(t2.nodes[c]))
    BY <1>2, <1>5, <2>1, <2>3
  <2>5. \A i \in Models(t2) \ {Superroot} :
           /\ from[i] = Edge(t2.nodes[i], 0)
           /\ to[i] = Edge(t2.nodes[i], t2.nodes[i].num_children_)
    BY <1>5, <1>6, <2>2
  <2> QED
    BY <2>4, <2>5 DEF HasRegions
<1>12. HasDomain(t2, from, to)
  BY <1>2, <1>5, <1>10 DEF WellFormed, HasDomain
<1>13. AreApart(t2, from, to)
  BY <1>5 DEF WellFormed, AreApart
<1>14. IsChained(t2, from, to)
  <2>1. IsChained(t, from, to) /\ \A i \in Leaves(t) : i \in DOMAIN t.nodes
    BY DEF WellFormed, Leaves
  <2> QED
    BY <1>2, <1>4, <1>5, <2>1 DEF IsChained
<1>15. \A i, key : IsIn(t2, from, to, i, key) <=> IsIn(t, from, to, i, key)
  <2>1. \A key : Clamped(t2, key) = Clamped(t, key)
    BY <1>2 DEF Clamped
  <2> QED
    BY <2>1 DEF IsIn
<1>16. IsRouted(t2, from, to)
  <2>1. SUFFICES ASSUME ~t2.nodes[Root(t2)].is_leaf_,
                        NEW i \in Leaves(t2), NEW key \in t2.nodes[i].keys
                 PROVE  IsIn(t2, from, to, i, key)
    BY DEF IsRouted
  <2>2. i \in Leaves(t) /\ i \in DOMAIN t.nodes
    BY <1>5 DEF Leaves
  <2>3. IsIn(t, from, to, i, key)
    <3>1. CASE i = leaf
      BY <1>2, <1>10, <2>1, <3>1
    <3>2. CASE i # leaf
      <4>1. key \in t.nodes[i].keys /\ ~t.nodes[Root(t)].is_leaf_
        BY <1>2, <1>10, <2>1, <2>2, <3>2
      <4> QED
        BY <2>2, <4>1 DEF WellFormed, IsRouted
    <3> QED
      BY <3>1, <3>2
  <2> QED
    BY <1>15, <2>3
<1>17. WellFormed(t2, parent, first, from, to)
  BY <1>2, <1>7, <1>8, <1>11, <1>12, <1>13, <1>14, <1>16 DEF WellFormed
<1> QED
  BY <1>5, <1>10, <1>15, <1>17

-----------------------------------------------------------------------------
(* The key domain of a root leaf.                                          *)

WithDomain(t, least, greatest) ==
    [t EXCEPT !.key_domain_min_ = least, !.key_domain_max_ = greatest]

\* A tree with another domain.
LEMMA WithDomainFacts ==
    ASSUME NEW t, IsTree(t), NEW least \in Int, NEW greatest \in Int
    PROVE  LET t2 == WithDomain(t, least, greatest)
           IN  /\ IsTree(t2) /\ t2.nodes = t.nodes /\ t2.fresh = t.fresh
               /\ t2.key_domain_min_ = least /\ t2.key_domain_max_ = greatest
<1>1. /\ AreNodes(t.nodes, t.fresh)
      /\ t.key_domain_min_ \in Int /\ t.key_domain_max_ \in Int
      /\ t = TreeOf(t.nodes, t.fresh, t.key_domain_min_, t.key_domain_max_)
  BY NodesOfTree
<1> DEFINE S == [nodes : {t.nodes}, fresh : {t.fresh}, key_domain_min_ : {least},
                 key_domain_max_ : {greatest}]
<1>2. t \in [nodes : {t.nodes}, fresh : {t.fresh}, key_domain_min_ : Int, key_domain_max_ : Int]
  BY <1>1 DEF TreeOf
<1>3. WithDomain(t, least, greatest) \in S
  BY <1>2 DEF WithDomain
<1>4. \A r \in S : r = TreeOf(t.nodes, t.fresh, least, greatest)
  BY DEF TreeOf
<1>5. WithDomain(t, least, greatest) = TreeOf(t.nodes, t.fresh, least, greatest)
  BY <1>3, <1>4
<1> QED
  BY <1>1, <1>5, TreeOfFacts

\* Whatever the domain, a tree of a root leaf is well-formed.
LEMMA RedomainedIsWellFormed ==
    ASSUME NEW t, NEW parent, NEW first, NEW from, NEW to,
           WellFormed(t, parent, first, from, to), t.nodes[Root(t)].is_leaf_,
           NEW least \in Int, NEW greatest \in Int,
           NEW t2, t2 = WithDomain(t, least, greatest),
           NEW from2, from2 = [c \in Nodes(t) |-> least],
           NEW to2, to2 = [c \in Nodes(t) |-> greatest]
    PROVE  /\ WellFormed(t2, parent, first, from2, to2)
           /\ t2.nodes = t.nodes /\ t2.fresh = t.fresh
           /\ t2.key_domain_min_ = least /\ t2.key_domain_max_ = greatest
<1>1. /\ IsTree(t) /\ HasRuns(t, parent, first)
      /\ parent \in [Nodes(t) -> Models(t)] /\ first \in [Nodes(t) -> Nat]
  BY WellFormedParts
<1>2. Nodes(t) = {Root(t)} /\ Leaves(t) = {Root(t)} /\ Models(t) = {Superroot}
  BY <1>1, RootLeafIsAlone
<1>4. /\ IsTree(t2) /\ t2.nodes = t.nodes /\ t2.fresh = t.fresh
      /\ t2.key_domain_min_ = least /\ t2.key_domain_max_ = greatest
  BY <1>1, WithDomainFacts
<1>5. Leaves(t2) = Leaves(t) /\ Models(t2) = Models(t) /\ Nodes(t2) = Nodes(t)
      /\ Root(t2) = Root(t)
  BY <1>4 DEF Leaves, Models, Nodes, Root
<1>6. AreGhosts(t2, parent, first, from2, to2)
  BY <1>1, <1>5 DEF AreGhosts
<1>7. HasRuns(t2, parent, first)
  BY <1>1, <1>4, <1>5 DEF HasRuns
<1>8. HasRegions(t2, parent, first, from2, to2)
  <2>1. parent[Root(t)] = Superroot
    BY <1>1, RootFacts
  <2> QED
    BY <1>2, <1>4, <1>5, <2>1 DEF HasRegions
<1>9. HasDomain(t2, from2, to2) /\ IsRouted(t2, from2, to2)
  BY <1>4, <1>5 DEF HasDomain, IsRouted
<1>10. AreApart(t2, from2, to2)
  BY <1>2, <1>5 DEF AreApart
<1>11. IsChained(t2, from2, to2)
  <2>1. /\ t.nodes[Root(t)].next_leaf_ = NoNode
        /\ t.nodes[Root(t)].prev_leaf_ = NoNode
    BY <1>2 DEF WellFormed, IsChained
  <2> QED
    BY <1>2, <1>4, <1>5, <2>1 DEF IsChained
<1> QED
  BY <1>4, <1>6, <1>7, <1>8, <1>9, <1>10, <1>11 DEF WellFormed

\* The first leaf, and the last, is the root leaf when there is one.
LEMMA RootLeafIsFirst ==
    ASSUME NEW t, NEW parent, NEW first, IsTree(t), HasRuns(t, parent, first),
           parent \in [Nodes(t) -> Models(t)], first \in [Nodes(t) -> Nat],
           t.nodes[Root(t)].is_leaf_
    PROVE  first_data_node(t) = Root(t) /\ last_data_node(t) = Root(t)
<1>1. ASSUME NEW picks, ArePicks(t, picks)
      PROVE  LeafOf(t, PathFromTop(t, picks)) = Root(t)
  <2> DEFINE A == DOMAIN t.nodes
             path == PathFromTop(t, picks)
  <2>1. Root(t) \in A /\ IsClosed(t, picks, A)
    <3>1. ASSUME NEW i \in Models(t) PROVE t.nodes[i].children_[picks[i]] \in A
      BY <1>1, PickedChild DEF ArePicks
    <3> QED
      BY <3>1, RootFacts DEF IsClosed
  <2> HIDE DEF A
  <2>2. IsPath(t, path) /\ path = <<Step(Superroot, 0)>>
    BY <1>1, <2>1, PathFromTopFacts
  <2>3. Len(path) = 1 /\ path[1] = Step(Superroot, 0)
    BY <2>2
  <2>4. LeafOf(t, path) = ChildOf(t, path[Len(path)])
    BY <2>2, PathFacts
  <2> QED
    BY <2>3, <2>4 DEF ChildOf, Step, Root
<1>2. ArePicks(t, LeftMost(t)) /\ ArePicks(t, RightMost(t))
  BY PicksOfLookups
<1> QED
  BY <1>1, <1>2 DEF first_data_node, last_data_node

\* update_superroot_key_domain of a root leaf with keys.
LEMMA DomainOfRootLeaf ==
    ASSUME NEW t, NEW parent, NEW first, NEW from, NEW to,
           WellFormed(t, parent, first, from, to), t.nodes[Root(t)].is_leaf_,
           NEW keys, keys = t.nodes[Root(t)].keys, keys # {},
           NEW t2, t2 = update_superroot_key_domain(t)
    PROVE  /\ \E from2, to2 : WellFormed(t2, parent, first, from2, to2)
           /\ t2.nodes = t.nodes /\ t2.fresh = t.fresh
           /\ t2.key_domain_min_ = Min(keys) /\ t2.key_domain_max_ = Max(keys)
<1>1. /\ IsTree(t) /\ HasRuns(t, parent, first)
      /\ parent \in [Nodes(t) -> Models(t)] /\ first \in [Nodes(t) -> Nat]
  BY WellFormedParts
<1>2. first_data_node(t) = Root(t) /\ last_data_node(t) = Root(t)
  BY <1>1, RootLeafIsFirst
<1>3. keys \in SUBSET Key
  <2>1. Root(t) \in Leaves(t)
    BY <1>1, RootLeafIsAlone
  <2> QED
    BY <1>1, <2>1, NodeFacts
<1>4. Min(keys) \in Int /\ Max(keys) \in Int
  BY <1>3, MinAndMaxOfKeys, KeysAreWithinTheType
<1>5. t2 = WithDomain(t, Min(keys), Max(keys))
  BY <1>2 DEF update_superroot_key_domain, first_key, last_key, WithDomain
<1> DEFINE from2 == [c \in Nodes(t) |-> Min(keys)]
           to2 == [c \in Nodes(t) |-> Max(keys)]
<1>6. /\ WellFormed(t2, parent, first, from2, to2)
      /\ t2.nodes = t.nodes /\ t2.fresh = t.fresh
      /\ t2.key_domain_min_ = Min(keys) /\ t2.key_domain_max_ = Max(keys)
  <2>1. from2 = [c \in Nodes(t) |-> Min(keys)] /\ to2 = [c \in Nodes(t) |-> Max(keys)]
    OBVIOUS
  <2> HIDE DEF from2, to2
  <2> QED
    BY <1>4, <1>5, <2>1, RedomainedIsWellFormed
<1> QED
  BY <1>6

-----------------------------------------------------------------------------
(* A leaf joins its sibling.                                               *)

\* Two leaves with the same end, or beginning, are one.
LEMMA LeavesWithSameEnd ==
    ASSUME NEW t, NEW parent, NEW first, NEW from, NEW to,
           WellFormed(t, parent, first, from, to), ~t.nodes[Root(t)].is_leaf_,
           NEW i \in Leaves(t), NEW j \in Leaves(t), from[i] = from[j] \/ to[i] = to[j]
    PROVE  i = j
<1>1. IsTree(t)
  BY WellFormedParts
<1>2. i \in Nodes(t) /\ j \in Nodes(t)
  BY <1>1, NodeFacts
<1>3. /\ from[i] \in Int /\ to[i] \in Int /\ from[j] \in Int /\ to[j] \in Int
      /\ from[i] < to[i] /\ from[j] < to[j]
  BY <1>2, RegionFacts
<1>4. i # j => to[i] <= from[j] \/ to[j] <= from[i]
  BY DEF WellFormed, AreApart
<1> QED
  BY <1>3, <1>4

\* The leaf's pointers lead to the sibling, which takes its place in the chain.
IsJoined(t, t2, p, leaf, sibling, start, right) ==
    /\ IsTree(t2) /\ DOMAIN t2.nodes = DOMAIN t.nodes \ {leaf}
    /\ t2.key_domain_min_ = t.key_domain_min_ /\ t2.key_domain_max_ = t.key_domain_max_
    /\ \A i \in DOMAIN t.nodes \ {leaf} :
           /\ t2.nodes[i].is_leaf_ = t.nodes[i].is_leaf_
           /\ t2.nodes[i].level_ = t.nodes[i].level_
           /\ i # sibling => t2.nodes[i].duplication_factor_ = t.nodes[i].duplication_factor_
    /\ t2.nodes[sibling].duplication_factor_ = t.nodes[sibling].duplication_factor_ + 1
    /\ \A i \in Models(t) :
           /\ t2.nodes[i].start = t.nodes[i].start
           /\ t2.nodes[i].width = t.nodes[i].width
           /\ t2.nodes[i].num_children_ = t.nodes[i].num_children_
           /\ i # p => t2.nodes[i].children_ = t.nodes[i].children_
    /\ \A b \in 0 .. t.nodes[p].num_children_ - 1 :
           t2.nodes[p].children_[b] =
               IF start <= b /\ b < start + Repeats(t.nodes[leaf]) THEN sibling
               ELSE t.nodes[p].children_[b]
    /\ \A i \in Leaves(t) \ {leaf, sibling} :
           /\ t2.nodes[i].keys = t.nodes[i].keys
           /\ t2.nodes[i].next_leaf_ = IF right /\ i = t.nodes[leaf].prev_leaf_ THEN sibling
                                       ELSE t.nodes[i].next_leaf_
           /\ t2.nodes[i].prev_leaf_ = IF ~right /\ i = t.nodes[leaf].next_leaf_ THEN sibling
                                       ELSE t.nodes[i].prev_leaf_
    /\ t2.nodes[sibling].keys = t.nodes[sibling].keys
    /\ t2.nodes[sibling].next_leaf_ = IF right THEN t.nodes[sibling].next_leaf_
                                      ELSE t.nodes[leaf].next_leaf_
    /\ t2.nodes[sibling].prev_leaf_ = IF right THEN t.nodes[leaf].prev_leaf_
                                      ELSE t.nodes[sibling].prev_leaf_

\* The two leaves, of which lo is before hi, share a run of twice the length.
AreSiblings(t, parent, first, p, leaf, sibling, start, right, lo, hi) ==
    /\ leaf \in Leaves(t) /\ sibling \in Leaves(t) /\ leaf # sibling
    /\ parent[leaf] = p /\ parent[sibling] = p /\ p # Superroot
    /\ first[leaf] = start
    /\ t.nodes[sibling].duplication_factor_ = t.nodes[leaf].duplication_factor_
    /\ t.nodes[leaf].keys = {}
    /\ right \in BOOLEAN
    /\ lo = (IF right THEN leaf ELSE sibling) /\ hi = (IF right THEN sibling ELSE leaf)
    /\ first[hi] = first[lo] + Repeats(t.nodes[leaf])
    /\ IsMultiple(first[lo], 2 * Repeats(t.nodes[leaf]))

JoinedGhost(t2, ghost, sibling, at) ==
    [i \in Nodes(t2) |-> IF i = sibling THEN at ELSE ghost[i]]

\* What both lemmas about a join start from.
Joins(t, parent, first, from, to, t2, p, leaf, sibling, start, right, lo, hi,
      parent2, first2, from2, to2) ==
    /\ WellFormed(t, parent, first, from, to)
    /\ IsJoined(t, t2, p, leaf, sibling, start, right)
    /\ AreSiblings(t, parent, first, p, leaf, sibling, start, right, lo, hi)
    /\ parent2 = JoinedGhost(t2, parent, sibling, p)
    /\ first2 = JoinedGhost(t2, first, sibling, first[lo])
    /\ from2 = JoinedGhost(t2, from, sibling, from[lo])
    /\ to2 = JoinedGhost(t2, to, sibling, to[hi])

\* The nodes after a join.
LEMMA JoinedFacts ==
    ASSUME NEW t, NEW parent, NEW first, NEW from, NEW to,
           NEW t2, NEW p, NEW leaf, NEW sibling, NEW start, NEW right, NEW lo, NEW hi,
           NEW parent2, NEW first2, NEW from2, NEW to2,
           Joins(t, parent, first, from, to, t2, p, leaf, sibling, start, right, lo, hi,
                 parent2, first2, from2, to2)
    PROVE  /\ ~t.nodes[Root(t)].is_leaf_ /\ Root(t2) = Root(t)
           /\ t2.nodes[Root(t2)].is_leaf_ = t.nodes[Root(t)].is_leaf_
           /\ Leaves(t2) = Leaves(t) \ {leaf} /\ Models(t2) = Models(t)
           /\ Nodes(t2) = Nodes(t) \ {leaf} /\ leaf # p /\ sibling # p
           /\ leaf \in Nodes(t) /\ sibling \in Nodes(t) /\ p \in Models(t)
           /\ lo \in Leaves(t) /\ hi \in Leaves(t) /\ lo # hi
           /\ {lo, hi} = {leaf, sibling}
           /\ parent[lo] = p /\ parent[hi] = p
           /\ Repeats(t.nodes[leaf]) \in Nat /\ Repeats(t.nodes[leaf]) > 0
           /\ Repeats(t.nodes[lo]) = Repeats(t.nodes[leaf])
           /\ Repeats(t.nodes[hi]) = Repeats(t.nodes[leaf])
           /\ Repeats(t2.nodes[sibling]) = 2 * Repeats(t.nodes[leaf])
           /\ \A c \in Nodes(t2) : c # sibling => Repeats(t2.nodes[c]) = Repeats(t.nodes[c])
           /\ AreGhosts(t2, parent2, first2, from2, to2)
           /\ \A i \in Nodes(t2) :
                  /\ parent2[i] = parent[i]
                  /\ first2[i] = IF i = sibling THEN first[lo] ELSE first[i]
                  /\ from2[i] = IF i = sibling THEN from[lo] ELSE from[i]
                  /\ to2[i] = IF i = sibling THEN to[hi] ELSE to[i]
           /\ from[hi] = to[lo]
<1>1. /\ WellFormed(t, parent, first, from, to)
      /\ IsJoined(t, t2, p, leaf, sibling, start, right)
      /\ AreSiblings(t, parent, first, p, leaf, sibling, start, right, lo, hi)
      /\ parent2 = JoinedGhost(t2, parent, sibling, p)
      /\ first2 = JoinedGhost(t2, first, sibling, first[lo])
      /\ from2 = JoinedGhost(t2, from, sibling, from[lo])
      /\ to2 = JoinedGhost(t2, to, sibling, to[hi])
  BY DEF Joins
<1>2. /\ IsTree(t) /\ HasRuns(t, parent, first)
      /\ parent \in [Nodes(t) -> Models(t)] /\ first \in [Nodes(t) -> Nat]
      /\ from \in [Nodes(t) -> Int] /\ to \in [Nodes(t) -> Int]
  BY <1>1, WellFormedParts
<1>3. /\ leaf \in Leaves(t) /\ sibling \in Leaves(t) /\ leaf # sibling
      /\ parent[leaf] = p /\ parent[sibling] = p /\ p # Superroot
      /\ first[leaf] = start
      /\ t.nodes[sibling].duplication_factor_ = t.nodes[leaf].duplication_factor_
      /\ right \in BOOLEAN
      /\ lo = (IF right THEN leaf ELSE sibling) /\ hi = (IF right THEN sibling ELSE leaf)
      /\ first[hi] = first[lo] + Repeats(t.nodes[leaf])
  BY <1>1 DEF AreSiblings
<1>4. /\ IsTree(t2) /\ DOMAIN t2.nodes = DOMAIN t.nodes \ {leaf}
      /\ \A i \in DOMAIN t.nodes \ {leaf} :
             /\ t2.nodes[i].is_leaf_ = t.nodes[i].is_leaf_
             /\ i # sibling => t2.nodes[i].duplication_factor_ = t.nodes[i].duplication_factor_
      /\ t2.nodes[sibling].duplication_factor_ = t.nodes[sibling].duplication_factor_ + 1
      /\ \A i \in Models(t) : i # p => t2.nodes[i].children_ = t.nodes[i].children_
  BY <1>1 DEF IsJoined
<1>5. /\ leaf \in Nodes(t) /\ sibling \in Nodes(t) /\ p \in Models(t)
      /\ leaf \in DOMAIN t.nodes /\ sibling \in DOMAIN t.nodes
      /\ leaf \notin Models(t) /\ sibling \notin Models(t) /\ p \in DOMAIN t.nodes
      /\ leaf # Superroot /\ Superroot \in Models(t)
      /\ t.nodes[leaf].duplication_factor_ \in Nat
  <2>1. leaf \in Nodes(t) /\ sibling \in Nodes(t) /\ Superroot \in Models(t)
    BY <1>2, <1>3, NodeFacts
  <2>2. p \in Models(t)
    BY <1>2, <1>3, <2>1
  <2> QED
    BY <1>2, <1>3, <2>1, <2>2, NodeFacts DEF Nodes, Models
<1>6. Leaves(t2) = Leaves(t) \ {leaf} /\ Models(t2) = Models(t)
      /\ Nodes(t2) = Nodes(t) \ {leaf}
  <2>1. Leaves(t2) = Leaves(t) \ {leaf}
    BY <1>4 DEF Leaves
  <2> QED
    BY <1>3, <1>4, <2>1 DEF Models, Nodes
<1>7. ~t.nodes[Root(t)].is_leaf_
  <2>1. t.nodes[Root(t)].is_leaf_ => Nodes(t) = {Root(t)}
    BY <1>2, RootLeafIsAlone
  <2> QED
    BY <1>3, <1>5, <2>1
<1>8. Root(t2) = Root(t) /\ Root(t) \in DOMAIN t.nodes /\ Root(t) # leaf
  <2>1. Root(t) \in DOMAIN t.nodes
    BY <1>2, RootFacts
  <2>2. t.nodes[leaf].is_leaf_
    BY <1>2, <1>5, NodeFacts
  <2> QED
    BY <1>3, <1>4, <1>5, <1>7, <2>1, <2>2 DEF Root
<1>9. t2.nodes[Root(t2)].is_leaf_ = t.nodes[Root(t)].is_leaf_
  BY <1>4, <1>8
<1>10. /\ lo \in Leaves(t) /\ hi \in Leaves(t) /\ lo # hi /\ {lo, hi} = {leaf, sibling}
       /\ parent[lo] = p /\ parent[hi] = p /\ lo \in Nodes(t) /\ hi \in Nodes(t)
  BY <1>3, <1>5
<1>11. /\ Repeats(t.nodes[leaf]) \in Nat /\ Repeats(t.nodes[leaf]) > 0
       /\ Repeats(t.nodes[lo]) = Repeats(t.nodes[leaf])
       /\ Repeats(t.nodes[hi]) = Repeats(t.nodes[leaf])
  <2>1. Repeats(t.nodes[leaf]) \in Nat /\ Repeats(t.nodes[leaf]) > 0
    BY <1>5, RepeatsFacts
  <2> QED
    BY <1>3, <2>1 DEF Repeats
<1>12. Repeats(t2.nodes[sibling]) = 2 * Repeats(t.nodes[leaf])
  <2> DEFINE d == t.nodes[leaf].duplication_factor_
  <2>1. 2^(d + 1) = 2^d + 2^d /\ 2^d \in Nat
    BY <1>5, PowerDoubles, PowerFacts
  <2> QED
    BY <1>3, <1>4, <2>1 DEF Repeats
<1>13. \A c \in Nodes(t2) : c # sibling => Repeats(t2.nodes[c]) = Repeats(t.nodes[c])
  BY <1>4, <1>6 DEF Repeats, Nodes
<1>14. \A i \in Nodes(t2) :
           /\ parent2[i] = parent[i]
           /\ first2[i] = IF i = sibling THEN first[lo] ELSE first[i]
           /\ from2[i] = IF i = sibling THEN from[lo] ELSE from[i]
           /\ to2[i] = IF i = sibling THEN to[hi] ELSE to[i]
  BY <1>1, <1>3 DEF JoinedGhost
<1>15. AreGhosts(t2, parent2, first2, from2, to2)
  <2>1. first[lo] \in Nat /\ from[lo] \in Int /\ to[hi] \in Int /\ p \in Models(t2)
    BY <1>2, <1>5, <1>6, <1>10
  <2>2. \A i \in Nodes(t2) : /\ parent[i] \in Models(t2) /\ first[i] \in Nat
                             /\ from[i] \in Int /\ to[i] \in Int
    BY <1>2, <1>6
  <2> QED
    BY <1>1, <2>1, <2>2 DEF AreGhosts, JoinedGhost
<1>16. from[hi] = to[lo]
  <2>1. /\ from[hi] = Edge(t.nodes[p], first[hi])
        /\ to[lo] = Edge(t.nodes[p], first[lo] + Repeats(t.nodes[lo]))
    BY <1>1, <1>3, <1>7, <1>10, RegionFacts
  <2> QED
    BY <1>3, <1>11, <2>1
<1> QED
  BY <1>3, <1>5, <1>6, <1>7, <1>8, <1>9, <1>10, <1>11, <1>12, <1>13, <1>14, <1>15, <1>16

-----------------------------------------------------------------------------
\* A join keeps the runs of pointers.
LEMMA JoinedKeepsRuns ==
    ASSUME NEW t, NEW parent, NEW first, NEW from, NEW to,
           NEW t2, NEW p, NEW leaf, NEW sibling, NEW start, NEW right, NEW lo, NEW hi,
           NEW parent2, NEW first2, NEW from2, NEW to2,
           Joins(t, parent, first, from, to, t2, p, leaf, sibling, start, right, lo, hi,
                 parent2, first2, from2, to2)
    PROVE  HasRuns(t2, parent2, first2)
<1> DEFINE r == Repeats(t.nodes[leaf])
           num == t.nodes[p].num_children_
<1>1. /\ WellFormed(t, parent, first, from, to)
      /\ IsJoined(t, t2, p, leaf, sibling, start, right)
      /\ AreSiblings(t, parent, first, p, leaf, sibling, start, right, lo, hi)
  BY DEF Joins
<1>2. /\ IsTree(t) /\ HasRuns(t, parent, first)
      /\ parent \in [Nodes(t) -> Models(t)] /\ first \in [Nodes(t) -> Nat]
  BY <1>1, WellFormedParts
<1>3. /\ parent[leaf] = p /\ parent[sibling] = p /\ first[leaf] = start
      /\ first[hi] = first[lo] + r /\ leaf # sibling
      /\ IsMultiple(first[lo], 2 * r)
      /\ hi = (IF right THEN sibling ELSE leaf)
  BY <1>1 DEF AreSiblings
<1>4. /\ \A i \in DOMAIN t.nodes \ {leaf} : t2.nodes[i].level_ = t.nodes[i].level_
      /\ \A i \in Models(t) :
             /\ t2.nodes[i].num_children_ = t.nodes[i].num_children_
             /\ i # p => t2.nodes[i].children_ = t.nodes[i].children_
      /\ \A b \in 0 .. num - 1 :
             t2.nodes[p].children_[b] =
                 IF start <= b /\ b < start + r THEN sibling ELSE t.nodes[p].children_[b]
  BY <1>1 DEF IsJoined
<1>5. /\ Leaves(t2) = Leaves(t) \ {leaf} /\ Models(t2) = Models(t)
      /\ Nodes(t2) = Nodes(t) \ {leaf} /\ leaf # p /\ sibling # p
      /\ leaf \in Nodes(t) /\ sibling \in Nodes(t) /\ p \in Models(t)
      /\ lo \in Leaves(t) /\ hi \in Leaves(t)
      /\ {lo, hi} = {leaf, sibling} /\ lo # hi
      /\ parent[lo] = p /\ parent[hi] = p
      /\ r \in Nat /\ r > 0
      /\ Repeats(t.nodes[lo]) = r /\ Repeats(t.nodes[hi]) = r
      /\ Repeats(t2.nodes[sibling]) = 2 * r
      /\ \A c \in Nodes(t2) : c # sibling => Repeats(t2.nodes[c]) = Repeats(t.nodes[c])
      /\ \A i \in Nodes(t2) :
             /\ parent2[i] = parent[i]
             /\ first2[i] = IF i = sibling THEN first[lo] ELSE first[i]
  BY JoinedFacts DEF r
<1>6. leaf \notin Models(t) /\ lo \in Nodes(t) /\ hi \in Nodes(t)
  <2>1. leaf \in Leaves(t)
    BY <1>1 DEF AreSiblings
  <2> QED
    BY <1>5, <2>1 DEF Models
<1> HIDE DEF r, num
<1>7. /\ num \in Nat
      /\ \A c \in Nodes(t) : parent[c] \in Models(t) /\ first[c] \in Nat
      /\ first[hi] + r <= num
      /\ \A b \in 0 .. num - 1 :
             /\ t.nodes[p].children_[b] = lo <=> first[lo] <= b /\ b < first[lo] + r
             /\ t.nodes[p].children_[b] = hi <=> first[hi] <= b /\ b < first[hi] + r
  <2>1. num \in Nat
    BY <1>2, <1>5, NodeFacts DEF num
  <2>2. \A c \in Nodes(t) :
            /\ parent[c] \in Models(t) /\ first[c] \in Nat
            /\ first[c] + Repeats(t.nodes[c]) <= t.nodes[parent[c]].num_children_
            /\ \A b \in 0 .. t.nodes[parent[c]].num_children_ - 1 :
                   t.nodes[parent[c]].children_[b] = c
                       <=> first[c] <= b /\ b < first[c] + Repeats(t.nodes[c])
    BY <1>2, RunFacts
  <2>3. /\ first[hi] + Repeats(t.nodes[hi]) <= t.nodes[p].num_children_
        /\ \A b \in 0 .. t.nodes[p].num_children_ - 1 :
               t.nodes[p].children_[b] = hi
                   <=> first[hi] <= b /\ b < first[hi] + Repeats(t.nodes[hi])
    BY <1>5, <1>6, <2>2
  <2>4. \A b \in 0 .. t.nodes[p].num_children_ - 1 :
            t.nodes[p].children_[b] = lo
                <=> first[lo] <= b /\ b < first[lo] + Repeats(t.nodes[lo])
    BY <1>5, <1>6, <2>2
  <2> QED
    BY <1>5, <2>1, <2>2, <2>3, <2>4 DEF num
<1>8. ASSUME NEW b \in 0 .. num - 1
      PROVE  /\ t2.nodes[p].children_[b] = sibling
                    <=> first[lo] <= b /\ b < first[lo] + 2 * r
             /\ t2.nodes[p].children_[b] # sibling =>
                    /\ t2.nodes[p].children_[b] = t.nodes[p].children_[b]
                    /\ t.nodes[p].children_[b] # leaf
  <2>1. /\ t.nodes[p].children_[b] = lo <=> first[lo] <= b /\ b < first[lo] + r
        /\ t.nodes[p].children_[b] = hi <=> first[hi] <= b /\ b < first[hi] + r
    BY <1>7
  <2>2. t2.nodes[p].children_[b] =
            IF start <= b /\ b < start + r THEN sibling ELSE t.nodes[p].children_[b]
    BY <1>4
  <2>3. t.nodes[p].children_[b] = leaf <=> start <= b /\ b < start + r
    <3>1. leaf = lo \/ leaf = hi
      BY <1>5
    <3> QED
      BY <1>3, <2>1, <3>1
  <2>4. t2.nodes[p].children_[b] = sibling
            <=> t.nodes[p].children_[b] = lo \/ t.nodes[p].children_[b] = hi
    BY <1>5, <2>2, <2>3
  <2>5. first[lo] \in Nat /\ first[hi] = first[lo] + r
    BY <1>3, <1>6, <1>7
  <2>6. (first[lo] <= b /\ b < first[lo] + r) \/ (first[hi] <= b /\ b < first[hi] + r)
            <=> first[lo] <= b /\ b < first[lo] + 2 * r
    BY <1>5, <2>5
  <2> QED
    BY <2>1, <2>2, <2>3, <2>4, <2>6
<1>9. ASSUME NEW c \in Nodes(t2)
      PROVE  HasRun(t2.nodes[parent2[c]], c, t2.nodes[c], first2[c])
  <2>1. c \in Nodes(t) /\ c # leaf /\ c \in DOMAIN t.nodes
    BY <1>5 DEF Nodes
  <2>2. HasRun(t.nodes[parent[c]], c, t.nodes[c], first[c])
    BY <1>2, <2>1 DEF HasRuns
  <2>3. parent2[c] = parent[c] /\ parent[c] \in Models(t) /\ parent[c] \in DOMAIN t.nodes
        /\ parent[c] # leaf
    BY <1>5, <1>6, <1>7, <2>1 DEF Models
  <2>4. /\ t2.nodes[c].level_ = t.nodes[c].level_
        /\ t2.nodes[parent[c]].level_ = t.nodes[parent[c]].level_
        /\ t2.nodes[parent[c]].num_children_ = t.nodes[parent[c]].num_children_
    BY <1>4, <2>1, <2>3
  <2>5. t.nodes[c].level_ > t.nodes[parent[c]].level_
    BY <2>2 DEF HasRun
  <2>6. CASE c = sibling
    <3>1. /\ first2[c] = first[lo] /\ Repeats(t2.nodes[c]) = 2 * r /\ parent[c] = p
      BY <1>3, <1>5, <2>6
    <3>2. first[lo] % (2 * r) = 0
      BY <1>3 DEF IsMultiple
    <3>3. first[lo] + 2 * r <= num
      BY <1>3, <1>5, <1>6, <1>7
    <3>4. t2.nodes[p].num_children_ = num
      BY <1>4, <1>5 DEF num
    <3>5. \A b \in 0 .. num - 1 :
              t2.nodes[p].children_[b] = sibling <=> first[lo] <= b /\ b < first[lo] + 2 * r
      BY <1>8
    <3> QED
      BY <2>3, <2>4, <2>5, <2>6, <3>1, <3>2, <3>3, <3>4, <3>5 DEF HasRun
  <2>7. CASE c # sibling /\ parent[c] = p
    <3>1. first2[c] = first[c] /\ Repeats(t2.nodes[c]) = Repeats(t.nodes[c])
      BY <1>5, <2>7
    <3>2. t2.nodes[p].num_children_ = num
      BY <1>4, <1>5 DEF num
    <3>3. /\ first[c] % Repeats(t.nodes[c]) = 0
          /\ first[c] + Repeats(t.nodes[c]) <= num
          /\ \A b \in 0 .. num - 1 :
                 t.nodes[p].children_[b] = c
                     <=> first[c] <= b /\ b < first[c] + Repeats(t.nodes[c])
      BY <2>2, <2>7 DEF HasRun, num
    <3>4. \A b \in 0 .. num - 1 : t2.nodes[p].children_[b] = c <=> t.nodes[p].children_[b] = c
      <4>1. ASSUME NEW b \in 0 .. num - 1
            PROVE  t2.nodes[p].children_[b] = c <=> t.nodes[p].children_[b] = c
        <5>1. CASE t2.nodes[p].children_[b] = sibling
          <6>1. t.nodes[p].children_[b] = lo \/ t.nodes[p].children_[b] = hi
            <7>1. first[lo] <= b /\ b < first[lo] + 2 * r
              BY <1>8, <5>1
            <7>2. first[lo] \in Nat /\ first[hi] = first[lo] + r
              BY <1>3, <1>6, <1>7
            <7>3. (first[lo] <= b /\ b < first[lo] + r) \/ (first[hi] <= b /\ b < first[hi] + r)
              BY <1>5, <7>1, <7>2
            <7> QED
              BY <1>7, <7>3
          <6>2. c # lo /\ c # hi
            BY <1>5, <2>1, <2>7
          <6> QED
            BY <2>7, <5>1, <6>1, <6>2
        <5>2. CASE t2.nodes[p].children_[b] # sibling
          BY <1>8, <5>2
        <5> QED
          BY <5>1, <5>2
      <4> QED
        BY <4>1
    <3> QED
      BY <2>3, <2>4, <2>5, <2>7, <3>1, <3>2, <3>3, <3>4 DEF HasRun
  <2>8. CASE c # sibling /\ parent[c] # p
    <3>1. first2[c] = first[c] /\ Repeats(t2.nodes[c]) = Repeats(t.nodes[c])
      BY <1>5, <2>8
    <3>2. t2.nodes[parent[c]].children_ = t.nodes[parent[c]].children_
      BY <1>4, <2>3, <2>8
    <3> QED
      BY <2>2, <2>3, <2>4, <3>1, <3>2 DEF HasRun
  <2> QED
    BY <2>6, <2>7, <2>8
<1>10. \A i \in Models(t2) : \E x \in Nat : t2.nodes[i].num_children_ = 2^x
  BY <1>2, <1>4, <1>5 DEF HasRuns
<1>11. ASSUME NEW i \in Models(t2), NEW b \in 0 .. t2.nodes[i].num_children_ - 1
       PROVE  /\ t2.nodes[i].children_[b] \in Nodes(t2)
              /\ parent2[t2.nodes[i].children_[b]] = i
  <2>1. i \in Models(t) /\ b \in 0 .. t.nodes[i].num_children_ - 1
    BY <1>4, <1>5
  <2>2. t.nodes[i].children_[b] \in Nodes(t) /\ parent[t.nodes[i].children_[b]] = i
    BY <1>2, <2>1 DEF HasRuns
  <2>3. CASE i # p
    <3>1. t2.nodes[i].children_[b] = t.nodes[i].children_[b]
      BY <1>4, <2>1, <2>3
    <3>2. t.nodes[i].children_[b] # leaf
      BY <1>3, <2>2, <2>3
    <3> QED
      BY <1>5, <2>2, <3>1, <3>2
  <2>4. CASE i = p
    <3>1. b \in 0 .. num - 1
      BY <2>1, <2>4 DEF num
    <3>2. CASE t2.nodes[p].children_[b] = sibling
      BY <1>3, <1>5, <2>4, <3>2
    <3>3. CASE t2.nodes[p].children_[b] # sibling
      <4>1. /\ t2.nodes[p].children_[b] = t.nodes[p].children_[b]
            /\ t.nodes[p].children_[b] # leaf
        BY <1>8, <3>1, <3>3
      <4> QED
        BY <1>5, <2>2, <2>4, <4>1
    <3> QED
      BY <3>2, <3>3
  <2> QED
    BY <2>3, <2>4
<1> QED
  BY <1>9, <1>10, <1>11 DEF HasRuns

\* A join keeps what nodes are for: the sibling gets what the leaf was for.
LEMMA JoinedKeepsRegions ==
    ASSUME NEW t, NEW parent, NEW first, NEW from, NEW to,
           NEW t2, NEW p, NEW leaf, NEW sibling, NEW start, NEW right, NEW lo, NEW hi,
           NEW parent2, NEW first2, NEW from2, NEW to2,
           Joins(t, parent, first, from, to, t2, p, leaf, sibling, start, right, lo, hi,
                 parent2, first2, from2, to2)
    PROVE  /\ HasRegions(t2, parent2, first2, from2, to2)
           /\ HasDomain(t2, from2, to2)
           /\ AreApart(t2, from2, to2)
<1> DEFINE r == Repeats(t.nodes[leaf])
<1>1. /\ WellFormed(t, parent, first, from, to)
      /\ IsJoined(t, t2, p, leaf, sibling, start, right)
      /\ AreSiblings(t, parent, first, p, leaf, sibling, start, right, lo, hi)
  BY DEF Joins
<1>2. /\ IsTree(t) /\ HasRuns(t, parent, first)
      /\ parent \in [Nodes(t) -> Models(t)] /\ first \in [Nodes(t) -> Nat]
  BY <1>1, WellFormedParts
<1>3. /\ first[hi] = first[lo] + r /\ p # Superroot
      /\ parent[sibling] = p
  BY <1>1 DEF AreSiblings
<1>4. /\ t2.key_domain_min_ = t.key_domain_min_ /\ t2.key_domain_max_ = t.key_domain_max_
      /\ \A i \in Models(t) :
             /\ t2.nodes[i].start = t.nodes[i].start
             /\ t2.nodes[i].width = t.nodes[i].width
             /\ t2.nodes[i].num_children_ = t.nodes[i].num_children_
  BY <1>1 DEF IsJoined
<1>5. /\ ~t.nodes[Root(t)].is_leaf_
      /\ Leaves(t2) = Leaves(t) \ {leaf} /\ Models(t2) = Models(t)
      /\ Nodes(t2) = Nodes(t) \ {leaf}
      /\ leaf \in Nodes(t) /\ sibling \in Nodes(t) /\ p \in Models(t)
      /\ lo \in Leaves(t) /\ hi \in Leaves(t) /\ lo # hi
      /\ {lo, hi} = {leaf, sibling}
      /\ parent[lo] = p /\ parent[hi] = p
      /\ r \in Nat /\ r > 0
      /\ Repeats(t.nodes[lo]) = r /\ Repeats(t.nodes[hi]) = r
      /\ Repeats(t2.nodes[sibling]) = 2 * r
      /\ \A c \in Nodes(t2) : c # sibling => Repeats(t2.nodes[c]) = Repeats(t.nodes[c])
      /\ from[hi] = to[lo]
  BY JoinedFacts DEF r
<1>6. \A i \in Nodes(t2) :
             /\ parent2[i] = parent[i]
             /\ first2[i] = IF i = sibling THEN first[lo] ELSE first[i]
             /\ from2[i] = IF i = sibling THEN from[lo] ELSE from[i]
             /\ to2[i] = IF i = sibling THEN to[hi] ELSE to[i]
  BY JoinedFacts
<1> HIDE DEF r
<1>7. lo \in Nodes(t) /\ hi \in Nodes(t) /\ \A i \in Leaves(t) : i \in Nodes(t)
  BY <1>2, <1>5, NodeFacts
<1>8. /\ t.key_domain_min_ \in Int /\ t.key_domain_max_ \in Int
      /\ \A c \in Nodes(t) :
             /\ from[c] \in Int /\ to[c] \in Int /\ first[c] \in Nat /\ parent[c] \in Models(t)
             /\ t.key_domain_min_ <= from[c] /\ from[c] < to[c]
             /\ to[c] <= t.key_domain_max_
             /\ parent[c] # Superroot =>
                   /\ from[c] = Edge(t.nodes[parent[c]], first[c])
                   /\ to[c] = Edge(t.nodes[parent[c]], first[c] + Repeats(t.nodes[c]))
  BY <1>1, <1>2, <1>5, RegionFacts, RunFacts
<1>9. \A i \in Models(t) : \A a : Edge(t2.nodes[i], a) = Edge(t.nodes[i], a)
  BY <1>4 DEF Edge
<1>10. ASSUME NEW c \in Nodes(t2)
       PROVE  IF parent2[c] = Superroot
              THEN from2[c] = t2.key_domain_min_ /\ to2[c] = t2.key_domain_max_
              ELSE /\ from2[c] = Edge(t2.nodes[parent2[c]], first2[c])
                   /\ to2[c] = Edge(t2.nodes[parent2[c]], first2[c] + Repeats(t2.nodes[c]))
  <2>1. c \in Nodes(t)
    BY <1>5
  <2>2. CASE c = sibling
    <3>1. /\ parent2[c] = p /\ first2[c] = first[lo] /\ from2[c] = from[lo] /\ to2[c] = to[hi]
          /\ Repeats(t2.nodes[c]) = 2 * r
      BY <1>3, <1>5, <1>6, <2>2
    <3>2. from[lo] = Edge(t.nodes[p], first[lo]) /\ to[hi] = Edge(t.nodes[p], first[hi] + r)
      BY <1>3, <1>5, <1>7, <1>8
    <3>3. first[hi] + r = first[lo] + 2 * r
      BY <1>3, <1>5, <1>7, <1>8
    <3> QED
      BY <1>3, <1>5, <1>9, <3>1, <3>2, <3>3
  <2>3. CASE c # sibling
    <3>1. /\ parent2[c] = parent[c] /\ first2[c] = first[c] /\ from2[c] = from[c]
          /\ to2[c] = to[c] /\ Repeats(t2.nodes[c]) = Repeats(t.nodes[c])
      BY <1>5, <1>6, <2>3
    <3>2. IF parent[c] = Superroot
          THEN from[c] = t.key_domain_min_ /\ to[c] = t.key_domain_max_
          ELSE /\ from[c] = Edge(t.nodes[parent[c]], first[c])
               /\ to[c] = Edge(t.nodes[parent[c]], first[c] + Repeats(t.nodes[c]))
      BY <1>1, <2>1 DEF WellFormed, HasRegions
    <3>3. \A a : Edge(t2.nodes[parent[c]], a) = Edge(t.nodes[parent[c]], a)
      BY <1>8, <1>9, <2>1
    <3> QED
      BY <1>4, <3>1, <3>2, <3>3
  <2> QED
    BY <2>2, <2>3
<1>11. ASSUME NEW i \in Models(t2) \ {Superroot}
       PROVE  /\ from2[i] = Edge(t2.nodes[i], 0)
              /\ to2[i] = Edge(t2.nodes[i], t2.nodes[i].num_children_)
  <2>1. i \in Models(t) /\ i \in Nodes(t2) /\ i # sibling
    <3>1. sibling \notin Models(t)
      BY <1>5 DEF Models
    <3>2. i \in Models(t) /\ i \in Nodes(t)
      BY <1>2, <1>5, RunFacts
    <3>3. leaf \notin Models(t)
      BY <1>5 DEF Models
    <3> QED
      BY <1>5, <3>1, <3>2, <3>3
  <2>2. /\ from[i] = Edge(t.nodes[i], 0)
        /\ to[i] = Edge(t.nodes[i], t.nodes[i].num_children_)
    BY <1>1, <2>1 DEF WellFormed, HasRegions
  <2>3. from2[i] = from[i] /\ to2[i] = to[i]
    BY <1>6, <2>1
  <2> QED
    BY <1>4, <1>9, <2>1, <2>2, <2>3
<1>12. HasRegions(t2, parent2, first2, from2, to2)
  BY <1>10, <1>11 DEF HasRegions
<1>13. HasDomain(t2, from2, to2)
  <2>1. ASSUME NEW c \in Nodes(t2)
        PROVE  /\ t2.key_domain_min_ <= from2[c] /\ from2[c] < to2[c]
               /\ to2[c] <= t2.key_domain_max_
    <3>1. c \in Nodes(t)
      BY <1>5
    <3>2. CASE c = sibling
      BY <1>4, <1>5, <1>6, <1>7, <1>8, <3>2
    <3>3. CASE c # sibling
      BY <1>4, <1>6, <1>8, <3>1, <3>3
    <3> QED
      BY <3>2, <3>3
  <2> QED
    BY <2>1 DEF HasDomain
<1>14. AreApart(t2, from2, to2)
  <2>1. \A i, j \in Leaves(t) : i # j => to[i] <= from[j] \/ to[j] <= from[i]
    BY <1>1 DEF WellFormed, AreApart
  <2>2. ASSUME NEW i \in Leaves(t2), i # sibling
        PROVE  /\ from2[i] = from[i] /\ to2[i] = to[i]
               /\ to[i] <= from[lo] \/ to[hi] <= from[i]
    <3>1. i \in Leaves(t) /\ i # lo /\ i # hi /\ i \in Nodes(t) /\ i \in Nodes(t2)
      BY <1>5, <1>7, <2>2
    <3>2. from2[i] = from[i] /\ to2[i] = to[i]
      BY <1>6, <2>2, <3>1
    <3>3. /\ to[i] <= from[lo] \/ to[lo] <= from[i]
          /\ to[i] <= from[hi] \/ to[hi] <= from[i]
      BY <1>5, <2>1, <3>1
    <3>4. /\ from[i] \in Int /\ to[i] \in Int /\ from[lo] \in Int /\ to[lo] \in Int
          /\ from[hi] \in Int /\ to[hi] \in Int /\ from[i] < to[i]
      BY <1>7, <1>8, <3>1
    <3> QED
      BY <1>5, <3>2, <3>3, <3>4
  <2>3. sibling \in Leaves(t2) => from2[sibling] = from[lo] /\ to2[sibling] = to[hi]
    BY <1>5, <1>6
  <2>4. ASSUME NEW i \in Leaves(t2), NEW j \in Leaves(t2), i # j
        PROVE  to2[i] <= from2[j] \/ to2[j] <= from2[i]
    <3>1. CASE i = sibling
      BY <2>2, <2>3, <2>4, <3>1
    <3>2. CASE j = sibling
      BY <2>2, <2>3, <2>4, <3>2
    <3>3. CASE i # sibling /\ j # sibling
      <4>1. i \in Leaves(t) /\ j \in Leaves(t)
        BY <1>5
      <4> QED
        BY <2>1, <2>2, <2>4, <3>3, <4>1
    <3> QED
      BY <3>1, <3>2, <3>3
  <2> QED
    BY <2>4 DEF AreApart
<1> QED
  BY <1>12, <1>13, <1>14

-----------------------------------------------------------------------------
\* A join keeps the chain.
LEMMA JoinedKeepsChain ==
    ASSUME NEW t, NEW parent, NEW first, NEW from, NEW to,
           NEW t2, NEW p, NEW leaf, NEW sibling, NEW start, NEW right, NEW lo, NEW hi,
           NEW parent2, NEW first2, NEW from2, NEW to2,
           Joins(t, parent, first, from, to, t2, p, leaf, sibling, start, right, lo, hi,
                 parent2, first2, from2, to2)
    PROVE  IsChained(t2, from2, to2)
<1> DEFINE next(i) == t.nodes[i].next_leaf_
           prev(i) == t.nodes[i].prev_leaf_
           least == t.key_domain_min_
           greatest == t.key_domain_max_
<1>1. /\ WellFormed(t, parent, first, from, to)
      /\ IsJoined(t, t2, p, leaf, sibling, start, right)
      /\ AreSiblings(t, parent, first, p, leaf, sibling, start, right, lo, hi)
  BY DEF Joins
<1>2. IsTree(t)
  BY <1>1, WellFormedParts
<1>3. /\ right \in BOOLEAN
      /\ lo = (IF right THEN leaf ELSE sibling) /\ hi = (IF right THEN sibling ELSE leaf)
  BY <1>1 DEF AreSiblings
<1>4. /\ t2.key_domain_min_ = least /\ t2.key_domain_max_ = greatest
      /\ \A i \in Leaves(t) \ {leaf, sibling} :
             /\ t2.nodes[i].next_leaf_ = IF right /\ i = prev(lo) THEN sibling ELSE next(i)
             /\ t2.nodes[i].prev_leaf_ = IF ~right /\ i = next(hi) THEN sibling ELSE prev(i)
      /\ t2.nodes[sibling].next_leaf_ = next(hi)
      /\ t2.nodes[sibling].prev_leaf_ = prev(lo)
  BY <1>1, <1>3 DEF IsJoined
<1>5. /\ ~t.nodes[Root(t)].is_leaf_
      /\ Leaves(t2) = Leaves(t) \ {leaf}
      /\ Nodes(t2) = Nodes(t) \ {leaf}
      /\ lo \in Leaves(t) /\ hi \in Leaves(t) /\ lo # hi
      /\ {lo, hi} = {leaf, sibling}
      /\ from[hi] = to[lo]
  BY JoinedFacts
<1>6. \A i \in Nodes(t2) :
             /\ from2[i] = IF i = sibling THEN from[lo] ELSE from[i]
             /\ to2[i] = IF i = sibling THEN to[hi] ELSE to[i]
  BY JoinedFacts
<1>7. \A i \in Leaves(t) : i \in Nodes(t) /\ i \in Nat /\ i # NoNode
  BY <1>2, NodeFacts DEF NoNode, Nodes
<1>8. \A i \in Leaves(t) :
          /\ from[i] \in Int /\ to[i] \in Int
          /\ least <= from[i] /\ from[i] < to[i] /\ to[i] <= greatest
          /\ least \in Int /\ greatest \in Int
  BY <1>1, <1>5, <1>7, RegionFacts
<1>9. \A i, j \in Leaves(t) : from[i] = from[j] \/ to[i] = to[j] => i = j
  BY <1>1, <1>5, LeavesWithSameEnd
<1>10. \A i \in Leaves(t) :
           /\ \/ next(i) = NoNode /\ to[i] = greatest
              \/ next(i) \in Leaves(t) \ {i} /\ from[next(i)] = to[i]
           /\ \/ prev(i) = NoNode /\ from[i] = least
              \/ prev(i) \in Leaves(t) \ {i} /\ to[prev(i)] = from[i]
  BY <1>1 DEF WellFormed, IsChained
<1> HIDE DEF next, prev, least, greatest
<1>11. \A i \in Leaves(t) \ {leaf, sibling} :
           /\ i \in Leaves(t2) /\ i # lo /\ i # hi
           /\ from2[i] = from[i] /\ to2[i] = to[i]
  BY <1>5, <1>6, <1>7
<1>12. sibling \in Leaves(t2) /\ from2[sibling] = from[lo] /\ to2[sibling] = to[hi]
  <2>1. sibling \in Leaves(t2)
    BY <1>5
  <2>2. sibling \in Nodes(t2)
    BY <1>5, <1>7, <2>1
  <2> QED
    BY <1>6, <2>1, <2>2
<1>13. ASSUME NEW i \in Leaves(t) \ {leaf, sibling}
       PROVE  \/ t2.nodes[i].next_leaf_ = NoNode /\ to2[i] = greatest
              \/ /\ t2.nodes[i].next_leaf_ \in Leaves(t2) \ {i}
                 /\ from2[t2.nodes[i].next_leaf_] = to2[i]
  <2>1. i # lo /\ i # hi /\ to2[i] = to[i]
    BY <1>11
  <2>2. CASE next(i) = NoNode /\ to[i] = greatest
    <3>1. i # prev(lo)
      <4>1. SUFFICES ASSUME i = prev(lo) PROVE FALSE
        OBVIOUS
      <4>2. to[i] = from[lo]
        BY <1>5, <1>7, <1>10, <4>1
      <4> QED
        BY <1>5, <1>8, <2>2, <4>2
    <3> QED
      BY <1>4, <2>1, <2>2, <3>1
  <2>3. CASE next(i) \in Leaves(t) \ {i} /\ from[next(i)] = to[i]
    <3>1. CASE next(i) = lo
      <4>1. t2.nodes[i].next_leaf_ = sibling
        <5>1. CASE right
          <6>1. i = prev(lo)
            <7>1. from[lo] # least
              BY <1>8, <2>3, <3>1
            <7>2. prev(lo) \in Leaves(t) /\ to[prev(lo)] = from[lo]
              BY <1>5, <1>10, <7>1
            <7> QED
              BY <1>9, <2>3, <3>1, <7>2
          <6> QED
            BY <1>4, <5>1, <6>1
        <5>2. CASE ~right
          BY <1>3, <1>4, <3>1, <5>2
        <5> QED
          BY <5>1, <5>2
      <4> QED
        BY <1>12, <2>1, <2>3, <3>1, <4>1
    <3>2. CASE next(i) = hi
      BY <1>5, <1>9, <2>1, <2>3, <3>2
    <3>3. CASE next(i) # lo /\ next(i) # hi
      <4>1. i # prev(lo)
        <5>1. SUFFICES ASSUME i = prev(lo) PROVE FALSE
          OBVIOUS
        <5>2. to[i] = from[lo]
          BY <1>5, <1>7, <1>10, <5>1
        <5> QED
          BY <1>5, <1>9, <2>3, <3>3, <5>2
      <4>2. t2.nodes[i].next_leaf_ = next(i)
        BY <1>4, <4>1
      <4>3. next(i) \in Leaves(t) \ {leaf, sibling}
        BY <1>5, <2>3, <3>3
      <4> QED
        BY <1>11, <2>1, <2>3, <4>2, <4>3
    <3> QED
      BY <3>1, <3>2, <3>3
  <2> QED
    BY <1>10, <2>2, <2>3
<1>14. ASSUME NEW i \in Leaves(t) \ {leaf, sibling}
       PROVE  \/ t2.nodes[i].prev_leaf_ = NoNode /\ from2[i] = least
              \/ /\ t2.nodes[i].prev_leaf_ \in Leaves(t2) \ {i}
                 /\ to2[t2.nodes[i].prev_leaf_] = from2[i]
  <2>1. i # lo /\ i # hi /\ from2[i] = from[i]
    BY <1>11
  <2>2. CASE prev(i) = NoNode /\ from[i] = least
    <3>1. i # next(hi)
      <4>1. SUFFICES ASSUME i = next(hi) PROVE FALSE
        OBVIOUS
      <4>2. from[i] = to[hi]
        BY <1>5, <1>7, <1>10, <4>1
      <4> QED
        BY <1>5, <1>8, <2>2, <4>2
    <3> QED
      BY <1>4, <2>1, <2>2, <3>1
  <2>3. CASE prev(i) \in Leaves(t) \ {i} /\ to[prev(i)] = from[i]
    <3>1. CASE prev(i) = hi
      <4>1. t2.nodes[i].prev_leaf_ = sibling
        <5>1. CASE ~right
          <6>1. i = next(hi)
            <7>1. to[hi] # greatest
              BY <1>8, <2>3, <3>1
            <7>2. next(hi) \in Leaves(t) /\ from[next(hi)] = to[hi]
              BY <1>5, <1>10, <7>1
            <7> QED
              BY <1>9, <2>3, <3>1, <7>2
          <6> QED
            BY <1>4, <5>1, <6>1
        <5>2. CASE right
          BY <1>3, <1>4, <3>1, <5>2
        <5> QED
          BY <1>3, <5>1, <5>2
      <4> QED
        BY <1>12, <2>1, <2>3, <3>1, <4>1
    <3>2. CASE prev(i) = lo
      BY <1>5, <1>9, <2>1, <2>3, <3>2
    <3>3. CASE prev(i) # lo /\ prev(i) # hi
      <4>1. i # next(hi)
        <5>1. SUFFICES ASSUME i = next(hi) PROVE FALSE
          OBVIOUS
        <5>2. from[i] = to[hi]
          BY <1>5, <1>7, <1>10, <5>1
        <5> QED
          BY <1>5, <1>9, <2>3, <3>3, <5>2
      <4>2. t2.nodes[i].prev_leaf_ = prev(i)
        BY <1>4, <4>1
      <4>3. prev(i) \in Leaves(t) \ {leaf, sibling}
        BY <1>5, <2>3, <3>3
      <4> QED
        BY <1>11, <2>1, <2>3, <4>2, <4>3
    <3> QED
      BY <3>1, <3>2, <3>3
  <2> QED
    BY <1>10, <2>2, <2>3
<1>15. /\ \/ t2.nodes[sibling].next_leaf_ = NoNode /\ to2[sibling] = greatest
          \/ /\ t2.nodes[sibling].next_leaf_ \in Leaves(t2) \ {sibling}
             /\ from2[t2.nodes[sibling].next_leaf_] = to2[sibling]
       /\ \/ t2.nodes[sibling].prev_leaf_ = NoNode /\ from2[sibling] = least
          \/ /\ t2.nodes[sibling].prev_leaf_ \in Leaves(t2) \ {sibling}
             /\ to2[t2.nodes[sibling].prev_leaf_] = from2[sibling]
  <2>0. /\ from[lo] \in Int /\ to[lo] \in Int /\ from[hi] \in Int /\ to[hi] \in Int
        /\ from[lo] < to[lo] /\ from[hi] < to[hi]
    BY <1>5, <1>8
  <2>1. CASE next(hi) \in Leaves(t) \ {hi} /\ from[next(hi)] = to[hi]
    <3>1. next(hi) # lo
      BY <1>5, <2>0, <2>1
    <3>2. next(hi) \in Leaves(t) \ {leaf, sibling}
      BY <1>5, <2>1, <3>1
    <3> QED
      <4>1. /\ t2.nodes[sibling].next_leaf_ \in Leaves(t2) \ {sibling}
            /\ from2[t2.nodes[sibling].next_leaf_] = to2[sibling]
        BY <1>4, <1>11, <1>12, <2>1, <3>2
      <4>2. CASE prev(lo) = NoNode /\ from[lo] = least
        BY <1>4, <1>12, <4>1, <4>2
      <4>3. CASE prev(lo) \in Leaves(t) \ {lo} /\ to[prev(lo)] = from[lo]
        <5>1. prev(lo) # hi
          BY <1>5, <2>0, <4>3
        <5>2. prev(lo) \in Leaves(t) \ {leaf, sibling}
          BY <1>5, <4>3, <5>1
        <5> QED
          BY <1>4, <1>11, <1>12, <4>1, <4>3, <5>2
      <4> QED
        BY <1>5, <1>10, <4>2, <4>3
  <2>2. CASE next(hi) = NoNode /\ to[hi] = greatest
    <3>1. t2.nodes[sibling].next_leaf_ = NoNode /\ to2[sibling] = greatest
      BY <1>4, <1>12, <2>2
    <3>2. CASE prev(lo) = NoNode /\ from[lo] = least
      BY <1>4, <1>12, <3>1, <3>2
    <3>3. CASE prev(lo) \in Leaves(t) \ {lo} /\ to[prev(lo)] = from[lo]
      <4>1. prev(lo) # hi
        BY <1>5, <2>0, <3>3
      <4>2. prev(lo) \in Leaves(t) \ {leaf, sibling}
        BY <1>5, <3>3, <4>1
      <4> QED
        BY <1>4, <1>11, <1>12, <3>1, <3>3, <4>2
    <3> QED
      BY <1>5, <1>10, <3>2, <3>3
  <2> QED
    BY <1>5, <1>10, <2>1, <2>2
<1>16. \A i \in Leaves(t2) : i = sibling \/ i \in Leaves(t) \ {leaf, sibling}
  BY <1>5
<1> QED
  BY <1>4, <1>13, <1>14, <1>15, <1>16 DEF IsChained

\* So a tree after a join is well-formed, and has the same keys.
IsMerged(t, t2) ==
    /\ Keys(t2) = Keys(t)
    /\ \E parent2, first2, from2, to2 : WellFormed(t2, parent2, first2, from2, to2)

\* When a leaf without keys joins its sibling, the tree stays well-formed, with
\* its keys.
LEMMA JoinedIsMerged ==
    ASSUME NEW t, NEW parent, NEW first, NEW from, NEW to,
           WellFormed(t, parent, first, from, to),
           NEW t2, NEW p, NEW leaf, NEW sibling, NEW start, NEW right, NEW lo, NEW hi,
           IsJoined(t, t2, p, leaf, sibling, start, right),
           AreSiblings(t, parent, first, p, leaf, sibling, start, right, lo, hi)
    PROVE  /\ IsMerged(t, t2)
           /\ Leaves(t2) = Leaves(t) \ {leaf} /\ Models(t2) = Models(t)
           /\ sibling \in Leaves(t2)
<1> DEFINE parent2 == JoinedGhost(t2, parent, sibling, p)
           first2 == JoinedGhost(t2, first, sibling, first[lo])
           from2 == JoinedGhost(t2, from, sibling, from[lo])
           to2 == JoinedGhost(t2, to, sibling, to[hi])
<1>1. Joins(t, parent, first, from, to, t2, p, leaf, sibling, start, right, lo, hi,
            parent2, first2, from2, to2)
  BY DEF Joins
<1> HIDE DEF parent2, first2, from2, to2
<1>2. /\ ~t.nodes[Root(t)].is_leaf_
      /\ Leaves(t2) = Leaves(t) \ {leaf} /\ Models(t2) = Models(t)
      /\ Nodes(t2) = Nodes(t) \ {leaf}
      /\ AreGhosts(t2, parent2, first2, from2, to2)
      /\ lo \in Leaves(t) /\ hi \in Leaves(t) /\ lo # hi
      /\ {lo, hi} = {leaf, sibling} /\ from[hi] = to[lo]
  BY <1>1, JoinedFacts
<1>3. \A i \in Nodes(t2) :
             /\ from2[i] = IF i = sibling THEN from[lo] ELSE from[i]
             /\ to2[i] = IF i = sibling THEN to[hi] ELSE to[i]
  BY <1>1, JoinedFacts
<1>4. /\ IsTree(t2)
      /\ t2.key_domain_min_ = t.key_domain_min_ /\ t2.key_domain_max_ = t.key_domain_max_
      /\ \A i \in Leaves(t) \ {leaf, sibling} : t2.nodes[i].keys = t.nodes[i].keys
      /\ t2.nodes[sibling].keys = t.nodes[sibling].keys
  BY DEF IsJoined
<1>5. IsTree(t) /\ from \in [Nodes(t) -> Int] /\ to \in [Nodes(t) -> Int]
  BY WellFormedParts
<1>6. t.nodes[leaf].keys = {} /\ leaf # sibling
  BY DEF AreSiblings
<1>7. \A i \in Leaves(t) : i \in Nodes(t) /\ t.nodes[i].keys \subseteq Int
  BY <1>5, NodeFacts, KeysAreWithinTheType
<1>8. HasRuns(t2, parent2, first2)
  BY <1>1, JoinedKeepsRuns
<1>9. /\ HasRegions(t2, parent2, first2, from2, to2) /\ HasDomain(t2, from2, to2)
      /\ AreApart(t2, from2, to2)
  BY <1>1, JoinedKeepsRegions
<1>10. IsChained(t2, from2, to2)
  BY <1>1, JoinedKeepsChain
<1>11. IsRouted(t2, from2, to2)
  <2>1. SUFFICES ASSUME NEW i \in Leaves(t2), NEW key \in t2.nodes[i].keys
                 PROVE  IsIn(t2, from2, to2, i, key)
    BY DEF IsRouted
  <2>2. i \in Leaves(t) /\ i # leaf /\ key \in t.nodes[i].keys /\ i \in Nodes(t2)
    BY <1>2, <1>4, <1>7, <2>1
  <2>3. from[i] <= Clamped(t, key) /\ Clamped(t, key) < to[i]
    BY <1>2, <2>2 DEF WellFormed, IsRouted, IsIn
  <2>4. Clamped(t2, key) = Clamped(t, key)
    BY <1>4 DEF Clamped
  <2>5. /\ t.key_domain_min_ \in Int /\ t.key_domain_max_ \in Int
        /\ t.key_domain_min_ < t.key_domain_max_
    BY <1>2, RegionFacts
  <2>6. Clamped(t, key) \in Int
    BY <1>7, <2>2, <2>5, ClampedFacts
  <2>7. CASE i = sibling
    <3>1. lo \in Nodes(t) /\ hi \in Nodes(t)
      BY <1>2, <1>7
    <3>2. /\ from[lo] \in Int /\ to[lo] \in Int /\ from[hi] \in Int /\ to[hi] \in Int
          /\ from[lo] < to[lo] /\ from[hi] < to[hi]
      BY <1>2, <3>1, RegionFacts
    <3>3. i = lo \/ i = hi
      BY <1>2, <2>7
    <3>4. from[lo] <= Clamped(t, key) /\ Clamped(t, key) < to[hi]
      BY <1>2, <2>3, <2>6, <3>2, <3>3
    <3> QED
      BY <1>3, <2>2, <2>4, <2>7, <3>4 DEF IsIn
  <2>8. CASE i # sibling
    BY <1>3, <2>2, <2>3, <2>4, <2>8 DEF IsIn
  <2> QED
    BY <2>7, <2>8
<1>12. Keys(t2) = Keys(t)
  <2>1. ASSUME NEW k PROVE k \in Keys(t2) <=> k \in Keys(t)
    <3>1. \A i \in Leaves(t2) : t2.nodes[i].keys = t.nodes[i].keys
      BY <1>2, <1>4
    <3>2. k \in Keys(t2) <=> \E i \in Leaves(t2) : k \in t.nodes[i].keys
      BY <3>1, KeysFacts
    <3>3. k \in Keys(t) <=> \E i \in Leaves(t) : k \in t.nodes[i].keys
      BY KeysFacts
    <3> QED
      BY <1>2, <1>6, <3>2, <3>3
  <2> QED
    BY <2>1
<1>13. WellFormed(t2, parent2, first2, from2, to2)
  BY <1>2, <1>4, <1>8, <1>9, <1>10, <1>11 DEF WellFormed
<1> QED
  BY <1>2, <1>12, <1>13 DEF IsMerged

-----------------------------------------------------------------------------
(* A leaf that is its parent's only child takes the parent's place.        *)

\* The pointers from start to end, which led to p, lead to the leaf.
IsLifted(t, t2, g, p, leaf, start, end) ==
    /\ IsTree(t2) /\ DOMAIN t2.nodes = DOMAIN t.nodes \ {p}
    /\ t2.key_domain_min_ = t.key_domain_min_ /\ t2.key_domain_max_ = t.key_domain_max_
    /\ \A i \in DOMAIN t.nodes \ {p} :
           /\ t2.nodes[i].is_leaf_ = t.nodes[i].is_leaf_
           /\ i # Superroot => t2.nodes[i].level_ = t.nodes[i].level_
           /\ i # leaf => t2.nodes[i].duplication_factor_ = t.nodes[i].duplication_factor_
    /\ t2.nodes[Superroot].level_ = IF g = Superroot THEN t.nodes[leaf].level_ - 1
                                    ELSE t.nodes[Superroot].level_
    /\ t2.nodes[leaf].duplication_factor_ = t.nodes[p].duplication_factor_
    /\ \A i \in Models(t) \ {p} :
           /\ t2.nodes[i].start = t.nodes[i].start
           /\ t2.nodes[i].width = t.nodes[i].width
           /\ t2.nodes[i].num_children_ = t.nodes[i].num_children_
           /\ i # g => t2.nodes[i].children_ = t.nodes[i].children_
    /\ \A b \in 0 .. t.nodes[g].num_children_ - 1 :
           t2.nodes[g].children_[b] = IF start <= b /\ b < end THEN leaf
                                      ELSE t.nodes[g].children_[b]
    /\ \A i \in Leaves(t) :
           /\ t2.nodes[i].keys = t.nodes[i].keys
           /\ t2.nodes[i].next_leaf_ = t.nodes[i].next_leaf_
           /\ t2.nodes[i].prev_leaf_ = t.nodes[i].prev_leaf_

IsOnlyChild(t, parent, first, g, p, leaf, start, end) ==
    /\ leaf \in Leaves(t) /\ parent[leaf] = p /\ p # Superroot
    /\ Repeats(t.nodes[leaf]) = t.nodes[p].num_children_
    /\ parent[p] = g /\ start = first[p] /\ end = first[p] + Repeats(t.nodes[p])

LiftedGhost(t2, ghost, leaf, at) == [i \in Nodes(t2) |-> IF i = leaf THEN at ELSE ghost[i]]

\* All of a lift at hand.
Lifts(t, parent, first, from, to, t2, g, p, leaf, start, end, parent2, first2, from2, to2) ==
    /\ WellFormed(t, parent, first, from, to)
    /\ IsLifted(t, t2, g, p, leaf, start, end)
    /\ IsOnlyChild(t, parent, first, g, p, leaf, start, end)
    /\ parent2 = LiftedGhost(t2, parent, leaf, g)
    /\ first2 = LiftedGhost(t2, first, leaf, first[p])
    /\ from2 = LiftedGhost(t2, from, leaf, from[leaf])
    /\ to2 = LiftedGhost(t2, to, leaf, to[leaf])

\* The nodes after that.
LEMMA LiftedFacts ==
    ASSUME NEW t, NEW parent, NEW first, NEW from, NEW to,
           NEW t2, NEW g, NEW p, NEW leaf, NEW start, NEW end,
           NEW parent2, NEW first2, NEW from2, NEW to2,
           Lifts(t, parent, first, from, to, t2, g, p, leaf, start, end,
                 parent2, first2, from2, to2)
    PROVE  /\ ~t.nodes[Root(t)].is_leaf_
           /\ g \in Models(t) /\ p \in Models(t) /\ p \in Nodes(t) /\ leaf \in Nodes(t)
           /\ g # p /\ leaf # p /\ leaf # g /\ leaf \in Leaves(t) /\ leaf \in Nodes(t2)
           /\ Leaves(t2) = Leaves(t) /\ Models(t2) = Models(t) \ {p}
           /\ Nodes(t2) = Nodes(t) \ {p}
           /\ first[leaf] = 0
           /\ \A c \in Nodes(t) : c # leaf => parent[c] # p
           /\ from[leaf] = from[p] /\ to[leaf] = to[p]
           /\ Repeats(t2.nodes[leaf]) = Repeats(t.nodes[p])
           /\ \A c \in Nodes(t2) : c # leaf => Repeats(t2.nodes[c]) = Repeats(t.nodes[c])
           /\ \A i \in Nodes(t2) :
                  /\ parent2[i] = IF i = leaf THEN g ELSE parent[i]
                  /\ first2[i] = IF i = leaf THEN first[p] ELSE first[i]
                  /\ from2[i] = from[i] /\ to2[i] = to[i]
           /\ AreGhosts(t2, parent2, first2, from2, to2)
           /\ g = Superroot => p = Root(t) /\ Root(t2) = leaf
           /\ g # Superroot => p # Root(t) /\ Root(t2) = Root(t)
           /\ Root(t) \in DOMAIN t.nodes
<1>1. /\ WellFormed(t, parent, first, from, to)
      /\ IsLifted(t, t2, g, p, leaf, start, end)
      /\ IsOnlyChild(t, parent, first, g, p, leaf, start, end)
      /\ parent2 = LiftedGhost(t2, parent, leaf, g)
      /\ first2 = LiftedGhost(t2, first, leaf, first[p])
      /\ from2 = LiftedGhost(t2, from, leaf, from[leaf])
      /\ to2 = LiftedGhost(t2, to, leaf, to[leaf])
  BY DEF Lifts
<1>2. /\ IsTree(t) /\ HasRuns(t, parent, first)
      /\ parent \in [Nodes(t) -> Models(t)] /\ first \in [Nodes(t) -> Nat]
      /\ from \in [Nodes(t) -> Int] /\ to \in [Nodes(t) -> Int]
  BY <1>1, WellFormedParts
<1>3. /\ leaf \in Leaves(t) /\ parent[leaf] = p /\ p # Superroot
      /\ Repeats(t.nodes[leaf]) = t.nodes[p].num_children_
      /\ parent[p] = g /\ start = first[p] /\ end = first[p] + Repeats(t.nodes[p])
  BY <1>1 DEF IsOnlyChild
<1>4. /\ IsTree(t2) /\ DOMAIN t2.nodes = DOMAIN t.nodes \ {p}
      /\ \A i \in DOMAIN t.nodes \ {p} :
             /\ t2.nodes[i].is_leaf_ = t.nodes[i].is_leaf_
             /\ i # leaf => t2.nodes[i].duplication_factor_ = t.nodes[i].duplication_factor_
      /\ t2.nodes[leaf].duplication_factor_ = t.nodes[p].duplication_factor_
      /\ \A i \in Models(t) \ {p} : i # g => t2.nodes[i].children_ = t.nodes[i].children_
      /\ \A b \in 0 .. t.nodes[g].num_children_ - 1 :
             t2.nodes[g].children_[b] = IF start <= b /\ b < end THEN leaf
                                        ELSE t.nodes[g].children_[b]
  BY <1>1 DEF IsLifted
<1>5. leaf \in Nodes(t) /\ leaf \in DOMAIN t.nodes /\ leaf \notin Models(t)
  BY <1>2, <1>3, NodeFacts DEF Nodes, Models
<1>6. p \in Models(t) /\ p \in Nodes(t) /\ p \notin Leaves(t)
  <2>1. p \in Models(t)
    BY <1>2, <1>3, <1>5
  <2> QED
    BY <1>3, <2>1 DEF Models, Nodes
<1>7. g \in Models(t) /\ g # p
  <2>1. g \in Models(t) /\ t.nodes[g].level_ < t.nodes[p].level_
    BY <1>2, <1>3, <1>6, RunFacts
  <2>2. t.nodes[p].level_ \in Int
    BY <1>2, <1>6, NodeFacts DEF Nodes
  <2> QED
    BY <2>1, <2>2
<1>8. leaf # p /\ leaf # g
  BY <1>5, <1>6, <1>7
<1>9. Leaves(t2) = Leaves(t) /\ Models(t2) = Models(t) \ {p} /\ Nodes(t2) = Nodes(t) \ {p}
  <2>1. Leaves(t2) = Leaves(t)
    BY <1>4, <1>6 DEF Leaves
  <2> QED
    BY <1>4, <2>1 DEF Models, Nodes
<1>10. leaf \in Nodes(t2)
  BY <1>5, <1>8, <1>9
<1>11. ~t.nodes[Root(t)].is_leaf_
  <2>1. t.nodes[Root(t)].is_leaf_ => Models(t) = {Superroot}
    BY <1>2, RootLeafIsAlone
  <2> QED
    BY <1>3, <1>6, <2>1
<1>12. /\ first[leaf] \in Nat /\ t.nodes[p].num_children_ \in Nat /\ t.nodes[p].num_children_ > 0
       /\ first[leaf] + Repeats(t.nodes[leaf]) <= t.nodes[p].num_children_
       /\ \A b \in 0 .. t.nodes[p].num_children_ - 1 :
              t.nodes[p].children_[b] = leaf
                  <=> first[leaf] <= b /\ b < first[leaf] + Repeats(t.nodes[leaf])
  <2>1. t.nodes[p].num_children_ \in Nat /\ t.nodes[p].num_children_ > 0
    BY <1>2, <1>6, NodeFacts DEF Nodes
  <2>2. \A c \in Nodes(t) :
            /\ first[c] \in Nat
            /\ first[c] + Repeats(t.nodes[c]) <= t.nodes[parent[c]].num_children_
            /\ \A b \in 0 .. t.nodes[parent[c]].num_children_ - 1 :
                   t.nodes[parent[c]].children_[b] = c
                       <=> first[c] <= b /\ b < first[c] + Repeats(t.nodes[c])
    BY <1>2, RunFacts
  <2>3. /\ first[leaf] \in Nat
        /\ first[leaf] + Repeats(t.nodes[leaf]) <= t.nodes[p].num_children_
        /\ \A b \in 0 .. t.nodes[p].num_children_ - 1 :
               t.nodes[p].children_[b] = leaf
                   <=> first[leaf] <= b /\ b < first[leaf] + Repeats(t.nodes[leaf])
    BY <1>3, <1>5, <2>2
  <2> QED
    BY <2>1, <2>3
<1>13. first[leaf] = 0
  BY <1>3, <1>12
<1>14. ASSUME NEW c \in Nodes(t), c # leaf PROVE parent[c] # p
  <2>1. SUFFICES ASSUME parent[c] = p PROVE FALSE
    OBVIOUS
  <2>2. /\ first[c] \in Nat
        /\ Repeats(t.nodes[c]) \in Nat /\ Repeats(t.nodes[c]) > 0
        /\ first[c] + Repeats(t.nodes[c]) <= t.nodes[parent[c]].num_children_
        /\ \A b \in 0 .. t.nodes[parent[c]].num_children_ - 1 :
               t.nodes[parent[c]].children_[b] = c
                   <=> first[c] <= b /\ b < first[c] + Repeats(t.nodes[c])
    BY <1>2, RunFacts
  <2>3. first[c] \in 0 .. t.nodes[p].num_children_ - 1
    BY <1>12, <2>1, <2>2
  <2>4. t.nodes[p].children_[first[c]] = c
    BY <2>1, <2>2, <2>3
  <2>5. t.nodes[p].children_[first[c]] = leaf
    BY <1>3, <1>12, <1>13, <2>3
  <2> QED
    BY <1>14, <2>4, <2>5
<1>15. from[leaf] = from[p] /\ to[leaf] = to[p]
  <2>1. /\ from[leaf] = Edge(t.nodes[p], first[leaf])
        /\ to[leaf] = Edge(t.nodes[p], first[leaf] + Repeats(t.nodes[leaf]))
        /\ from[p] = Edge(t.nodes[p], 0)
        /\ to[p] = Edge(t.nodes[p], t.nodes[p].num_children_)
    BY <1>1, <1>3, <1>5, <1>6, <1>11, RegionFacts
  <2> QED
    BY <1>3, <1>12, <1>13, <2>1
<1>16. Repeats(t2.nodes[leaf]) = Repeats(t.nodes[p])
  BY <1>4 DEF Repeats
<1>17. \A c \in Nodes(t2) : c # leaf => Repeats(t2.nodes[c]) = Repeats(t.nodes[c])
  BY <1>4, <1>9 DEF Repeats, Nodes
<1>18. \A i \in Nodes(t2) :
           /\ parent2[i] = IF i = leaf THEN g ELSE parent[i]
           /\ first2[i] = IF i = leaf THEN first[p] ELSE first[i]
           /\ from2[i] = from[i] /\ to2[i] = to[i]
  BY <1>1 DEF LiftedGhost
<1>19. AreGhosts(t2, parent2, first2, from2, to2)
  <2>1. g \in Models(t2) /\ first[p] \in Nat /\ from[leaf] \in Int /\ to[leaf] \in Int
    BY <1>2, <1>5, <1>6, <1>7, <1>9
  <2>2. \A i \in Nodes(t2) : i # leaf =>
            /\ parent[i] \in Models(t2) /\ first[i] \in Nat
            /\ from[i] \in Int /\ to[i] \in Int
    BY <1>2, <1>9, <1>14
  <2> QED
    BY <1>1, <2>1, <2>2 DEF AreGhosts, LiftedGhost
<1>20. /\ Root(t) \in Nodes(t) /\ Root(t) \in DOMAIN t.nodes
       /\ parent[Root(t)] = Superroot
       /\ first[Root(t)] = 0 /\ Repeats(t.nodes[Root(t)]) = 1
       /\ \A c \in Nodes(t) : parent[c] = Superroot => c = Root(t)
       /\ t.nodes[Superroot].num_children_ = 1
  BY <1>2, RootFacts
<1>21. g = Superroot => p = Root(t) /\ Root(t2) = leaf
  <2>1. SUFFICES ASSUME g = Superroot PROVE p = Root(t) /\ Root(t2) = leaf
    OBVIOUS
  <2>2. p = Root(t)
    BY <1>3, <1>6, <1>20, <2>1
  <2>3. start = 0 /\ end = 1
    BY <1>3, <1>20, <2>2
  <2> QED
    BY <1>4, <1>20, <2>1, <2>2, <2>3 DEF Root
<1>22. g # Superroot => p # Root(t) /\ Root(t2) = Root(t)
  <2>1. SUFFICES ASSUME g # Superroot PROVE p # Root(t) /\ Root(t2) = Root(t)
    OBVIOUS
  <2>2. p # Root(t)
    BY <1>3, <1>20, <2>1
  <2>3. Superroot \in Models(t) \ {p}
    BY <1>2, <1>3, NodeFacts
  <2> QED
    BY <1>4, <2>1, <2>2, <2>3 DEF Root
<1> QED
  BY <1>3, <1>5, <1>6, <1>7, <1>8, <1>9, <1>10, <1>11, <1>13, <1>14, <1>15, <1>16,
     <1>17, <1>18, <1>19, <1>20, <1>21, <1>22

\* The runs of pointers are kept.
LEMMA LiftedKeepsRuns ==
    ASSUME NEW t, NEW parent, NEW first, NEW from, NEW to,
           NEW t2, NEW g, NEW p, NEW leaf, NEW start, NEW end,
           NEW parent2, NEW first2, NEW from2, NEW to2,
           Lifts(t, parent, first, from, to, t2, g, p, leaf, start, end,
                 parent2, first2, from2, to2)
    PROVE  HasRuns(t2, parent2, first2)
<1>1. /\ WellFormed(t, parent, first, from, to)
      /\ IsLifted(t, t2, g, p, leaf, start, end)
      /\ IsOnlyChild(t, parent, first, g, p, leaf, start, end)
  BY DEF Lifts
<1>2. /\ IsTree(t) /\ HasRuns(t, parent, first)
      /\ parent \in [Nodes(t) -> Models(t)] /\ first \in [Nodes(t) -> Nat]
  BY <1>1, WellFormedParts
<1>3. /\ parent[leaf] = p /\ parent[p] = g
      /\ start = first[p] /\ end = first[p] + Repeats(t.nodes[p])
  BY <1>1 DEF IsOnlyChild
<1>4. /\ \A i \in DOMAIN t.nodes \ {p} : i # Superroot => t2.nodes[i].level_ = t.nodes[i].level_
      /\ t2.nodes[Superroot].level_ = IF g = Superroot THEN t.nodes[leaf].level_ - 1
                                      ELSE t.nodes[Superroot].level_
      /\ \A i \in Models(t) \ {p} :
             /\ t2.nodes[i].num_children_ = t.nodes[i].num_children_
             /\ i # g => t2.nodes[i].children_ = t.nodes[i].children_
      /\ \A b \in 0 .. t.nodes[g].num_children_ - 1 :
             t2.nodes[g].children_[b] = IF start <= b /\ b < end THEN leaf
                                        ELSE t.nodes[g].children_[b]
  BY <1>1 DEF IsLifted
<1>5. /\ g \in Models(t) /\ p \in Models(t) /\ p \in Nodes(t) /\ leaf \in Nodes(t)
      /\ g # p /\ leaf # p /\ leaf # g /\ leaf \in Nodes(t2)
      /\ Models(t2) = Models(t) \ {p}
      /\ Nodes(t2) = Nodes(t) \ {p}
      /\ \A c \in Nodes(t) : c # leaf => parent[c] # p
      /\ Repeats(t2.nodes[leaf]) = Repeats(t.nodes[p])
      /\ \A c \in Nodes(t2) : c # leaf => Repeats(t2.nodes[c]) = Repeats(t.nodes[c])
      /\ \A i \in Nodes(t2) :
             /\ parent2[i] = IF i = leaf THEN g ELSE parent[i]
             /\ first2[i] = IF i = leaf THEN first[p] ELSE first[i]
      /\ g = Superroot => p = Root(t)
  BY LiftedFacts
<1>6. \A c \in Nodes(t) :
          /\ c \in DOMAIN t.nodes /\ c # Superroot /\ parent[c] \in Models(t)
          /\ t.nodes[c].level_ \in Int /\ t.nodes[parent[c]].level_ \in Int
          /\ t.nodes[parent[c]].level_ < t.nodes[c].level_
  BY <1>2, RunFacts, NodeFacts DEF Models
<1>7. ASSUME NEW i \in Models(t), NEW b \in 0 .. t.nodes[i].num_children_ - 1
      PROVE  /\ t.nodes[i].children_[b] \in Nodes(t)
             /\ parent[t.nodes[i].children_[b]] = i
  BY <1>2 DEF HasRuns
<1>8. ASSUME NEW b \in 0 .. t.nodes[g].num_children_ - 1
      PROVE  t.nodes[g].children_[b] = p <=> start <= b /\ b < end
  BY <1>2, <1>3, <1>5, RunFacts
<1>9. ASSUME NEW c \in Nodes(t2)
      PROVE  HasRun(t2.nodes[parent2[c]], c, t2.nodes[c], first2[c])
  <2>1. c \in Nodes(t) /\ c # p
    BY <1>5
  <2>2. CASE c = leaf
    <3>1. HasRun(t.nodes[g], p, t.nodes[p], first[p])
      BY <1>2, <1>3, <1>5 DEF HasRuns
    <3>2. /\ parent2[c] = g /\ first2[c] = first[p]
          /\ Repeats(t2.nodes[c]) = Repeats(t.nodes[p])
      BY <1>5, <2>2
    <3>3. t2.nodes[c].level_ > t2.nodes[g].level_
      <4>1. t2.nodes[leaf].level_ = t.nodes[leaf].level_ /\ t.nodes[leaf].level_ \in Int
        BY <1>4, <1>5, <1>6
      <4>2. CASE g = Superroot
        BY <1>4, <2>2, <4>1, <4>2
      <4>3. CASE g # Superroot
        <5>1. t2.nodes[g].level_ = t.nodes[g].level_
          BY <1>4, <1>5, <4>3 DEF Models
        <5>2. /\ t.nodes[g].level_ < t.nodes[p].level_ /\ t.nodes[p].level_ < t.nodes[leaf].level_
              /\ t.nodes[g].level_ \in Int /\ t.nodes[p].level_ \in Int
          BY <1>3, <1>5, <1>6
        <5> QED
          BY <2>2, <4>1, <5>1, <5>2
      <4> QED
        BY <4>2, <4>3
    <3>4. t2.nodes[g].num_children_ = t.nodes[g].num_children_
      BY <1>4, <1>5
    <3>5. ASSUME NEW b \in 0 .. t.nodes[g].num_children_ - 1
          PROVE  t2.nodes[g].children_[b] = leaf <=> start <= b /\ b < end
      <4>1. t.nodes[g].children_[b] # leaf
        BY <1>3, <1>5, <1>7
      <4> QED
        BY <1>4, <4>1
    <3> QED
      BY <1>3, <2>2, <3>1, <3>2, <3>3, <3>4, <3>5 DEF HasRun
  <2>3. CASE c # leaf
    <3>1. /\ parent2[c] = parent[c] /\ first2[c] = first[c]
          /\ Repeats(t2.nodes[c]) = Repeats(t.nodes[c]) /\ parent[c] # p
          /\ parent[c] \in Models(t)
      BY <1>5, <1>6, <2>1, <2>3
    <3>2. HasRun(t.nodes[parent[c]], c, t.nodes[c], first[c])
      BY <1>2, <2>1 DEF HasRuns
    <3>3. t2.nodes[parent[c]].num_children_ = t.nodes[parent[c]].num_children_
      BY <1>4, <3>1
    <3>4. t2.nodes[c].level_ > t2.nodes[parent[c]].level_
      <4>1. t2.nodes[c].level_ = t.nodes[c].level_
        BY <1>4, <1>6, <2>1
      <4>2. CASE parent[c] = Superroot
        <5>1. c = Root(t)
          BY <1>2, <2>1, <4>2, RootFacts
        <5>2. g # Superroot
          BY <1>5, <2>1, <5>1
        <5> QED
          BY <1>4, <1>6, <2>1, <4>1, <4>2, <5>2
      <4>3. CASE parent[c] # Superroot
        <5>1. t2.nodes[parent[c]].level_ = t.nodes[parent[c]].level_
          BY <1>4, <3>1, <4>3 DEF Models
        <5> QED
          BY <1>6, <2>1, <4>1, <5>1
      <4> QED
        BY <4>2, <4>3
    <3>5. ASSUME NEW b \in 0 .. t.nodes[parent[c]].num_children_ - 1
          PROVE  t2.nodes[parent[c]].children_[b] = c <=> t.nodes[parent[c]].children_[b] = c
      <4>1. CASE parent[c] = g
        BY <1>4, <1>8, <2>1, <2>3, <4>1
      <4>2. CASE parent[c] # g
        BY <1>4, <3>1, <4>2
      <4> QED
        BY <4>1, <4>2
    <3> QED
      BY <3>1, <3>2, <3>3, <3>4, <3>5 DEF HasRun
  <2> QED
    BY <2>2, <2>3
<1>10. \A i \in Models(t2) : \E x \in Nat : t2.nodes[i].num_children_ = 2^x
  BY <1>2, <1>4, <1>5 DEF HasRuns
<1>11. ASSUME NEW i \in Models(t2), NEW b \in 0 .. t2.nodes[i].num_children_ - 1
       PROVE  /\ t2.nodes[i].children_[b] \in Nodes(t2)
              /\ parent2[t2.nodes[i].children_[b]] = i
  <2>1. i \in Models(t) /\ i # p /\ b \in 0 .. t.nodes[i].num_children_ - 1
    BY <1>4, <1>5
  <2>2. t.nodes[i].children_[b] \in Nodes(t) /\ parent[t.nodes[i].children_[b]] = i
    BY <1>7, <2>1
  <2>3. t.nodes[i].children_[b] # leaf
    BY <1>3, <2>1, <2>2
  <2>4. CASE i # g
    <3>1. t2.nodes[i].children_[b] = t.nodes[i].children_[b]
      BY <1>4, <2>1, <2>4
    <3>2. t.nodes[i].children_[b] # p
      BY <1>3, <2>2, <2>4
    <3> QED
      BY <1>5, <2>2, <2>3, <3>1, <3>2
  <2>5. CASE i = g
    <3>1. CASE start <= b /\ b < end
      BY <1>4, <1>5, <2>1, <2>5, <3>1
    <3>2. CASE ~(start <= b /\ b < end)
      <4>1. t2.nodes[i].children_[b] = t.nodes[i].children_[b] /\ t.nodes[i].children_[b] # p
        BY <1>4, <1>8, <2>1, <2>5, <3>2
      <4> QED
        BY <1>5, <2>2, <2>3, <4>1
    <3> QED
      BY <3>1, <3>2
  <2> QED
    BY <2>4, <2>5
<1> QED
  BY <1>9, <1>10, <1>11 DEF HasRuns

\* So a tree after that is well-formed, and has the same keys.
LEMMA LiftedIsMerged ==
    ASSUME NEW t, NEW parent, NEW first, NEW from, NEW to,
           WellFormed(t, parent, first, from, to),
           NEW t2, NEW g, NEW p, NEW leaf, NEW start, NEW end,
           IsLifted(t, t2, g, p, leaf, start, end),
           IsOnlyChild(t, parent, first, g, p, leaf, start, end)
    PROVE  /\ IsMerged(t, t2)
           /\ Leaves(t2) = Leaves(t) /\ Models(t2) = Models(t) \ {p}
           /\ leaf \in Leaves(t2)
<1> DEFINE parent2 == LiftedGhost(t2, parent, leaf, g)
           first2 == LiftedGhost(t2, first, leaf, first[p])
           from2 == LiftedGhost(t2, from, leaf, from[leaf])
           to2 == LiftedGhost(t2, to, leaf, to[leaf])
<1>1. Lifts(t, parent, first, from, to, t2, g, p, leaf, start, end,
            parent2, first2, from2, to2)
  BY DEF Lifts
<1> HIDE DEF parent2, first2, from2, to2
<1>2. /\ ~t.nodes[Root(t)].is_leaf_
      /\ g \in Models(t) /\ p \in Models(t) /\ p \in Nodes(t) /\ leaf \in Nodes(t)
      /\ g # p /\ leaf # p /\ leaf # g /\ leaf \in Leaves(t) /\ leaf \in Nodes(t2)
      /\ Leaves(t2) = Leaves(t) /\ Models(t2) = Models(t) \ {p}
      /\ Nodes(t2) = Nodes(t) \ {p}
      /\ first[leaf] = 0
      /\ \A c \in Nodes(t) : c # leaf => parent[c] # p
      /\ from[leaf] = from[p] /\ to[leaf] = to[p]
      /\ Repeats(t2.nodes[leaf]) = Repeats(t.nodes[p])
      /\ \A c \in Nodes(t2) : c # leaf => Repeats(t2.nodes[c]) = Repeats(t.nodes[c])
      /\ \A i \in Nodes(t2) :
             /\ parent2[i] = IF i = leaf THEN g ELSE parent[i]
             /\ first2[i] = IF i = leaf THEN first[p] ELSE first[i]
             /\ from2[i] = from[i] /\ to2[i] = to[i]
      /\ AreGhosts(t2, parent2, first2, from2, to2)
      /\ g = Superroot => p = Root(t) /\ Root(t2) = leaf
      /\ g # Superroot => p # Root(t) /\ Root(t2) = Root(t)
      /\ Root(t) \in DOMAIN t.nodes
  BY <1>1, LiftedFacts
<1>3. /\ IsTree(t2) /\ DOMAIN t2.nodes = DOMAIN t.nodes \ {p}
      /\ t2.key_domain_min_ = t.key_domain_min_ /\ t2.key_domain_max_ = t.key_domain_max_
      /\ \A i \in DOMAIN t.nodes \ {p} : t2.nodes[i].is_leaf_ = t.nodes[i].is_leaf_
      /\ \A i \in Models(t) \ {p} :
             /\ t2.nodes[i].start = t.nodes[i].start
             /\ t2.nodes[i].width = t.nodes[i].width
             /\ t2.nodes[i].num_children_ = t.nodes[i].num_children_
      /\ \A i \in Leaves(t) :
             /\ t2.nodes[i].keys = t.nodes[i].keys
             /\ t2.nodes[i].next_leaf_ = t.nodes[i].next_leaf_
             /\ t2.nodes[i].prev_leaf_ = t.nodes[i].prev_leaf_
  BY DEF IsLifted
<1>4. IsTree(t) /\ \A i \in Leaves(t) : i \in Nodes(t2)
  <2>1. IsTree(t) /\ \A i \in Leaves(t) : i \in Nodes(t)
    BY WellFormedParts, NodeFacts
  <2> QED
    BY <1>2, <2>1 DEF Models
<1>5. HasRuns(t2, parent2, first2)
  BY <1>1, LiftedKeepsRuns
<1>6. \A i \in Models(t) \ {p} : \A a : Edge(t2.nodes[i], a) = Edge(t.nodes[i], a)
  BY <1>3 DEF Edge
<1>7. ASSUME NEW c \in Nodes(t)
      PROVE  IF parent[c] = Superroot
             THEN from[c] = t.key_domain_min_ /\ to[c] = t.key_domain_max_
             ELSE /\ from[c] = Edge(t.nodes[parent[c]], first[c])
                  /\ to[c] = Edge(t.nodes[parent[c]], first[c] + Repeats(t.nodes[c]))
  BY DEF WellFormed, HasRegions
<1>8. HasRegions(t2, parent2, first2, from2, to2)
  <2>1. ASSUME NEW c \in Nodes(t2)
        PROVE  IF parent2[c] = Superroot
               THEN from2[c] = t2.key_domain_min_ /\ to2[c] = t2.key_domain_max_
               ELSE /\ from2[c] = Edge(t2.nodes[parent2[c]], first2[c])
                    /\ to2[c] = Edge(t2.nodes[parent2[c]], first2[c] + Repeats(t2.nodes[c]))
    <3>1. c \in Nodes(t)
      BY <1>2
    <3>2. CASE c = leaf
      <4>1. /\ parent2[c] = g /\ first2[c] = first[p] /\ from2[c] = from[p] /\ to2[c] = to[p]
            /\ Repeats(t2.nodes[c]) = Repeats(t.nodes[p])
        BY <1>2, <3>2
      <4>2. parent[p] = g
        BY DEF IsOnlyChild
      <4>3. \A a : Edge(t2.nodes[g], a) = Edge(t.nodes[g], a)
        BY <1>2, <1>6
      <4> QED
        BY <1>2, <1>3, <1>7, <4>1, <4>2, <4>3
    <3>3. CASE c # leaf
      <4>1. /\ parent2[c] = parent[c] /\ first2[c] = first[c] /\ from2[c] = from[c]
            /\ to2[c] = to[c] /\ Repeats(t2.nodes[c]) = Repeats(t.nodes[c])
        BY <1>2, <3>3
      <4>2. parent[c] \in Models(t) \ {p}
        BY <1>2, <3>1, <3>3, WellFormedParts
      <4>3. \A a : Edge(t2.nodes[parent[c]], a) = Edge(t.nodes[parent[c]], a)
        BY <1>6, <4>2
      <4> QED
        BY <1>3, <1>7, <3>1, <4>1, <4>3
    <3> QED
      BY <3>2, <3>3
  <2>2. ASSUME NEW i \in Models(t2) \ {Superroot}
        PROVE  /\ from2[i] = Edge(t2.nodes[i], 0)
               /\ to2[i] = Edge(t2.nodes[i], t2.nodes[i].num_children_)
    <3>1. /\ from[i] = Edge(t.nodes[i], 0)
          /\ to[i] = Edge(t.nodes[i], t.nodes[i].num_children_)
          /\ i \in Models(t) \ {p}
      BY <1>2 DEF WellFormed, HasRegions
    <3>2. i \in Nodes(t2)
      BY <2>2 DEF Models, Nodes
    <3>3. t2.nodes[i].num_children_ = t.nodes[i].num_children_
      BY <1>3, <3>1
    <3>4. \A a : Edge(t2.nodes[i], a) = Edge(t.nodes[i], a)
      BY <1>6, <3>1
    <3>5. from2[i] = from[i] /\ to2[i] = to[i]
      BY <1>2, <3>2
    <3> QED
      BY <3>1, <3>3, <3>4, <3>5
  <2> QED
    BY <2>1, <2>2 DEF HasRegions
<1>9. t2.nodes[Root(t2)].is_leaf_ \/ t2.nodes[Root(t2)].is_leaf_ = t.nodes[Root(t)].is_leaf_
  <2>1. CASE g = Superroot
    <3>1. t2.nodes[leaf].is_leaf_
      BY <1>2 DEF Leaves
    <3> QED
      BY <1>2, <2>1, <3>1
  <2>2. CASE g # Superroot
    BY <1>2, <1>3, <2>2
  <2> QED
    BY <2>1, <2>2
<1>10. HasDomain(t2, from2, to2)
  BY <1>2, <1>3, <1>9 DEF WellFormed, HasDomain
<1>11. AreApart(t2, from2, to2)
  BY <1>2, <1>4 DEF WellFormed, AreApart
<1>12. IsChained(t2, from2, to2)
  <2>1. IsChained(t, from, to)
    BY DEF WellFormed
  <2>2. \A i \in Leaves(t) : from2[i] = from[i] /\ to2[i] = to[i]
    BY <1>2, <1>4
  <2> QED
    BY <1>2, <1>3, <2>1, <2>2 DEF IsChained
<1>13. IsRouted(t2, from2, to2)
  <2>1. SUFFICES ASSUME NEW i \in Leaves(t2), NEW key \in t2.nodes[i].keys
                 PROVE  IsIn(t2, from2, to2, i, key)
    BY DEF IsRouted
  <2>2. i \in Leaves(t) /\ key \in t.nodes[i].keys /\ i \in Nodes(t2)
    BY <1>2, <1>3, <1>4, <2>1
  <2>3. IsIn(t, from, to, i, key)
    BY <1>2, <2>2 DEF WellFormed, IsRouted
  <2>4. Clamped(t2, key) = Clamped(t, key)
    BY <1>3 DEF Clamped
  <2> QED
    BY <1>2, <2>2, <2>3, <2>4 DEF IsIn
<1>14. Keys(t2) = Keys(t)
  <2>1. ASSUME NEW k PROVE k \in Keys(t2) <=> k \in Keys(t)
    BY <1>2, <1>3, KeysFacts
  <2> QED
    BY <2>1
<1>15. WellFormed(t2, parent2, first2, from2, to2)
  BY <1>2, <1>3, <1>5, <1>8, <1>10, <1>11, <1>12, <1>13 DEF WellFormed
<1> QED
  BY <1>2, <1>14, <1>15 DEF IsMerged

-----------------------------------------------------------------------------
(* A step of a merge.                                                      *)

\* A leaf with another duplication factor and previous leaf.
WithDuplicationAndPrev(n, d, v) ==
    [n EXCEPT !.duplication_factor_ = d, !.prev_leaf_ = v]

\* It is a leaf.
LEMMA LeafWithDuplicationAndPrev ==
    ASSUME NEW n \in LeafNodes, NEW d \in Nat, NEW v \in Int
    PROVE  LET m == WithDuplicationAndPrev(n, d, v)
           IN  /\ m \in LeafNodes /\ m.is_leaf_ /\ m.level_ = n.level_
               /\ m.duplication_factor_ = d /\ m.keys = n.keys
               /\ m.prev_leaf_ = v /\ m.next_leaf_ = n.next_leaf_
BY DEF LeafNodes, WithDuplicationAndPrev

\* A leaf with another duplication factor and next leaf.
WithDuplicationAndNext(n, d, v) ==
    [n EXCEPT !.duplication_factor_ = d, !.next_leaf_ = v]

\* It is a leaf.
LEMMA LeafWithDuplicationAndNext ==
    ASSUME NEW n \in LeafNodes, NEW d \in Nat, NEW v \in Int
    PROVE  LET m == WithDuplicationAndNext(n, d, v)
           IN  /\ m \in LeafNodes /\ m.is_leaf_ /\ m.level_ = n.level_
               /\ m.duplication_factor_ = d /\ m.keys = n.keys
               /\ m.prev_leaf_ = n.prev_leaf_ /\ m.next_leaf_ = v
BY DEF LeafNodes, WithDuplicationAndNext

\* The sibling's members, and those of the leaf on the other side.
Relinked(t, l, sibling, right, i) ==
    LET outer == IF right THEN t.nodes[l].prev_leaf_ ELSE t.nodes[l].next_leaf_
    IN  IF i = sibling
        THEN IF right
             THEN [t.nodes[i] EXCEPT !.duplication_factor_ = @ + 1,
                                     !.prev_leaf_ = outer]
             ELSE [t.nodes[i] EXCEPT !.duplication_factor_ = @ + 1,
                                     !.next_leaf_ = outer]
        ELSE IF i = outer
        THEN IF right
             THEN [t.nodes[i] EXCEPT !.next_leaf_ = sibling]
             ELSE [t.nodes[i] EXCEPT !.prev_leaf_ = sibling]
        ELSE t.nodes[i]

\* What a merge makes of the tree when the leaf joins the sibling.
JoinTree(t, p, l, sibling, start, right) ==
    Deleted(Redirected([t EXCEPT !.nodes = [i \in DOMAIN @ |-> Relinked(t, l, sibling, right, i)]],
                       p, start, start + Repeats(t.nodes[l]), sibling), l)

\* The leaves that a join changes.
LEMMA RelinkedFacts ==
    ASSUME NEW t, IsTree(t), NEW l \in Leaves(t), NEW sibling \in Leaves(t),
           NEW right \in BOOLEAN,
           t.nodes[l].prev_leaf_ = NoNode \/ t.nodes[l].prev_leaf_ \in Leaves(t),
           t.nodes[l].next_leaf_ = NoNode \/ t.nodes[l].next_leaf_ \in Leaves(t)
    PROVE  /\ \A i \in Models(t) : Relinked(t, l, sibling, right, i) = t.nodes[i]
           /\ \A i \in Leaves(t) :
                  LET m == Relinked(t, l, sibling, right, i)
                  IN  /\ m \in LeafNodes /\ m.is_leaf_ /\ m.level_ = t.nodes[i].level_
                      /\ m.keys = t.nodes[i].keys
                      /\ m.duplication_factor_ = IF i = sibling
                                                 THEN t.nodes[i].duplication_factor_ + 1
                                                 ELSE t.nodes[i].duplication_factor_
                      /\ m.next_leaf_ =
                             IF i = sibling
                             THEN IF right THEN t.nodes[i].next_leaf_ ELSE t.nodes[l].next_leaf_
                             ELSE IF right /\ i = t.nodes[l].prev_leaf_ THEN sibling
                             ELSE t.nodes[i].next_leaf_
                      /\ m.prev_leaf_ =
                             IF i = sibling
                             THEN IF right THEN t.nodes[l].prev_leaf_ ELSE t.nodes[i].prev_leaf_
                             ELSE IF ~right /\ i = t.nodes[l].next_leaf_ THEN sibling
                             ELSE t.nodes[i].prev_leaf_
<1> DEFINE outer == IF right THEN t.nodes[l].prev_leaf_ ELSE t.nodes[l].next_leaf_
<1>1. outer \in Int /\ (outer = NoNode \/ outer \in Leaves(t)) /\ sibling \in Int
  <2>1. t.nodes[l].prev_leaf_ \in Int /\ t.nodes[l].next_leaf_ \in Int
    BY NodeFacts
  <2>2. sibling \in Int
    BY NodeFacts DEF Leaves
  <2> QED
    BY <2>1, <2>2
<1>2. \A i \in Models(t) : i \in Nat /\ i \notin Leaves(t) /\ i # NoNode
  BY NodeFacts DEF Models, NoNode
<1>3. \A i \in Leaves(t) : /\ t.nodes[i] \in LeafNodes /\ t.nodes[i].is_leaf_
                           /\ t.nodes[i].duplication_factor_ \in Nat
  BY NodeFacts DEF Leaves
<1>4. ASSUME NEW i PROVE Relinked(t, l, sibling, right, i) =
          IF i = sibling
          THEN IF right
               THEN [t.nodes[i] EXCEPT !.duplication_factor_ = t.nodes[i].duplication_factor_ + 1,
                                       !.prev_leaf_ = outer]
               ELSE [t.nodes[i] EXCEPT !.duplication_factor_ = t.nodes[i].duplication_factor_ + 1,
                                       !.next_leaf_ = outer]
          ELSE IF i = outer
          THEN IF right
               THEN [t.nodes[i] EXCEPT !.next_leaf_ = sibling]
               ELSE [t.nodes[i] EXCEPT !.prev_leaf_ = sibling]
          ELSE t.nodes[i]
  BY DEF Relinked
<1> HIDE DEF outer
<1>5. \A i \in Models(t) : Relinked(t, l, sibling, right, i) = t.nodes[i]
  BY <1>1, <1>2, <1>4
<1>6. (right => outer = t.nodes[l].prev_leaf_) /\ (~right => outer = t.nodes[l].next_leaf_)
  BY DEF outer
<1>7. ASSUME NEW i \in Leaves(t)
      PROVE  LET m == Relinked(t, l, sibling, right, i)
             IN  /\ m \in LeafNodes /\ m.is_leaf_ /\ m.level_ = t.nodes[i].level_
                 /\ m.keys = t.nodes[i].keys
                 /\ m.duplication_factor_ = IF i = sibling
                                            THEN t.nodes[i].duplication_factor_ + 1
                                            ELSE t.nodes[i].duplication_factor_
                 /\ m.next_leaf_ = IF i = sibling
                                   THEN IF right THEN t.nodes[i].next_leaf_ ELSE outer
                                   ELSE IF right /\ i = outer THEN sibling
                                   ELSE t.nodes[i].next_leaf_
                 /\ m.prev_leaf_ = IF i = sibling
                                   THEN IF right THEN outer ELSE t.nodes[i].prev_leaf_
                                   ELSE IF ~right /\ i = outer THEN sibling
                                   ELSE t.nodes[i].prev_leaf_
  <2> DEFINE m == Relinked(t, l, sibling, right, i)
             n == t.nodes[i]
             d == t.nodes[i].duplication_factor_ + 1
  <2>1. n \in LeafNodes /\ n.is_leaf_ /\ d \in Nat
    BY <1>3
  <2>2. CASE i = sibling /\ right
    <3>0. d = n.duplication_factor_ + 1
      OBVIOUS
    <3>1. m = WithDuplicationAndPrev(n, d, outer)
      BY <1>4, <2>2 DEF WithDuplicationAndPrev
    <3> HIDE DEF n, d, m
    <3>2. /\ m \in LeafNodes /\ m.is_leaf_ /\ m.level_ = n.level_
          /\ m.duplication_factor_ = d /\ m.keys = n.keys
          /\ m.prev_leaf_ = outer /\ m.next_leaf_ = n.next_leaf_
      <4>1. n \in LeafNodes /\ d \in Nat /\ outer \in Int
        BY <1>1, <2>1
      <4> QED
        BY <3>1, <4>1, LeafWithDuplicationAndPrev
    <3>3. m.duplication_factor_ = n.duplication_factor_ + 1
      BY <3>0, <3>2
    <3> QED
      BY <2>2, <3>2, <3>3 DEF n, m
  <2>3. CASE i = sibling /\ ~right
    <3>0. d = n.duplication_factor_ + 1
      OBVIOUS
    <3>1. m = WithDuplicationAndNext(n, d, outer)
      BY <1>4, <2>3 DEF WithDuplicationAndNext
    <3> HIDE DEF n, d, m
    <3>2. /\ m \in LeafNodes /\ m.is_leaf_ /\ m.level_ = n.level_
          /\ m.duplication_factor_ = d /\ m.keys = n.keys
          /\ m.prev_leaf_ = n.prev_leaf_ /\ m.next_leaf_ = outer
      <4>1. n \in LeafNodes /\ d \in Nat /\ outer \in Int
        BY <1>1, <2>1
      <4> QED
        BY <3>1, <4>1, LeafWithDuplicationAndNext
    <3>3. m.duplication_factor_ = n.duplication_factor_ + 1
      BY <3>0, <3>2
    <3> QED
      BY <2>3, <3>2, <3>3 DEF n, m
  <2>4. CASE i # sibling /\ i = outer /\ right
    <3>1. m = [n EXCEPT !.next_leaf_ = sibling]
      BY <1>4, <2>4
    <3> HIDE DEF n, m
    <3>2. /\ m \in LeafNodes /\ m.is_leaf_ /\ m.level_ = n.level_
          /\ m.duplication_factor_ = n.duplication_factor_ /\ m.keys = n.keys
          /\ m.prev_leaf_ = n.prev_leaf_ /\ m.next_leaf_ = sibling
      BY <1>1, <2>1, <3>1, LeafWithNext
    <3> QED
      BY <2>4, <3>2 DEF n, m
  <2>5. CASE i # sibling /\ i = outer /\ ~right
    <3>1. m = [n EXCEPT !.prev_leaf_ = sibling]
      BY <1>4, <2>5
    <3> HIDE DEF n, m
    <3>2. /\ m \in LeafNodes /\ m.is_leaf_ /\ m.level_ = n.level_
          /\ m.duplication_factor_ = n.duplication_factor_ /\ m.keys = n.keys
          /\ m.prev_leaf_ = sibling /\ m.next_leaf_ = n.next_leaf_
      BY <1>1, <2>1, <3>1, LeafWithPrev
    <3> QED
      BY <2>5, <3>2 DEF n, m
  <2>6. CASE i # sibling /\ i # outer
    <3>1. m = n
      BY <1>4, <2>6
    <3> QED
      BY <2>1, <2>6, <3>1
  <2> QED
    BY <2>2, <2>3, <2>4, <2>5, <2>6
<1> QED
  <2>1. ASSUME NEW i \in Leaves(t)
        PROVE  LET m == Relinked(t, l, sibling, right, i)
               IN  /\ m.next_leaf_ =
                          IF i = sibling
                          THEN IF right THEN t.nodes[i].next_leaf_ ELSE t.nodes[l].next_leaf_
                          ELSE IF right /\ i = t.nodes[l].prev_leaf_ THEN sibling
                          ELSE t.nodes[i].next_leaf_
                   /\ m.prev_leaf_ =
                          IF i = sibling
                          THEN IF right THEN t.nodes[l].prev_leaf_ ELSE t.nodes[i].prev_leaf_
                          ELSE IF ~right /\ i = t.nodes[l].next_leaf_ THEN sibling
                          ELSE t.nodes[i].prev_leaf_
    BY <1>6, <1>7
  <2> QED
    BY <1>5, <1>7, <2>1

\* A merge joins the leaf with its sibling.
LEMMA JoinTreeIsJoined ==
    ASSUME NEW t, IsTree(t), NEW l \in Leaves(t), NEW sibling \in Leaves(t), l # sibling,
           NEW right \in BOOLEAN, NEW p \in Models(t), NEW start,
           t.nodes[l].prev_leaf_ = NoNode \/ t.nodes[l].prev_leaf_ \in Leaves(t),
           t.nodes[l].next_leaf_ = NoNode \/ t.nodes[l].next_leaf_ \in Leaves(t)
    PROVE  IsJoined(t, JoinTree(t, p, l, sibling, start, right), p, l, sibling, start, right)
<1> DEFINE R(i) == Relinked(t, l, sibling, right, i)
           nodes == [i \in DOMAIN t.nodes |-> R(i)]
           t1 == [t EXCEPT !.nodes = nodes]
           t2 == Redirected(t1, p, start, start + Repeats(t.nodes[l]), sibling)
           t3 == Deleted(t2, l)
<1>1. t3 = JoinTree(t, p, l, sibling, start, right)
  BY DEF JoinTree
<1>2. /\ \A i \in Models(t) : R(i) = t.nodes[i]
      /\ \A i \in Leaves(t) :
             /\ R(i) \in LeafNodes /\ R(i).is_leaf_ /\ R(i).level_ = t.nodes[i].level_
             /\ R(i).keys = t.nodes[i].keys
             /\ R(i).duplication_factor_ = IF i = sibling
                                           THEN t.nodes[i].duplication_factor_ + 1
                                           ELSE t.nodes[i].duplication_factor_
             /\ R(i).next_leaf_ =
                    IF i = sibling
                    THEN IF right THEN t.nodes[i].next_leaf_ ELSE t.nodes[l].next_leaf_
                    ELSE IF right /\ i = t.nodes[l].prev_leaf_ THEN sibling
                    ELSE t.nodes[i].next_leaf_
             /\ R(i).prev_leaf_ =
                    IF i = sibling
                    THEN IF right THEN t.nodes[l].prev_leaf_ ELSE t.nodes[i].prev_leaf_
                    ELSE IF ~right /\ i = t.nodes[l].next_leaf_ THEN sibling
                    ELSE t.nodes[i].prev_leaf_
  BY RelinkedFacts
<1>3. /\ \A i \in DOMAIN t.nodes : i \in Leaves(t) \/ i \in Models(t)
      /\ \A i \in Leaves(t) : i \in DOMAIN t.nodes
      /\ \A i \in Models(t) : i \in DOMAIN t.nodes /\ i \notin Leaves(t) /\ IsModel(t.nodes[i])
      /\ Superroot \in Models(t) /\ t.nodes[Superroot].num_children_ = 1
      /\ \A i \in Leaves(t) : t.nodes[i].is_leaf_
      /\ \A i \in Models(t) : ~t.nodes[i].is_leaf_
  <2>1. Superroot \in Models(t) /\ t.nodes[Superroot].num_children_ = 1
    BY NodeFacts DEF IsTree
  <2>2. \A i \in Models(t) : IsModel(t.nodes[i]) /\ ~t.nodes[i].is_leaf_
    BY NodeFacts DEF Models, Leaves
  <2> QED
    BY <2>1, <2>2 DEF Models, Leaves
<1>4. DOMAIN nodes = DOMAIN t.nodes /\ nodes = [i \in DOMAIN nodes |-> nodes[i]]
      /\ \A i \in DOMAIN t.nodes : nodes[i] = R(i)
  OBVIOUS
<1> HIDE DEF nodes, R
<1>5. /\ \A i \in DOMAIN nodes : IsModel(nodes[i]) \/ nodes[i] \in LeafNodes
      /\ IsModel(nodes[Superroot]) /\ nodes[Superroot].num_children_ = 1
  BY <1>2, <1>3, <1>4
<1>6. /\ IsTree(t1) /\ t1.nodes = nodes
      /\ t1.key_domain_min_ = t.key_domain_min_ /\ t1.key_domain_max_ = t.key_domain_max_
  BY <1>4, <1>5, NodesReplaced
<1> HIDE DEF t1
<1>7. /\ DOMAIN t1.nodes = DOMAIN t.nodes
      /\ \A i \in Models(t) : t1.nodes[i] = t.nodes[i]
      /\ \A i \in Leaves(t) : t1.nodes[i] = R(i)
  BY <1>2, <1>3, <1>4, <1>6
<1>8. p \in Models(t1)
  BY <1>3, <1>7 DEF Models, Leaves
<1>9. sibling \in Int /\ l # Superroot /\ l # p /\ sibling # p /\ sibling \in DOMAIN t.nodes
  BY <1>3, NodeFacts
<1>10. /\ IsTree(t2) /\ DOMAIN t2.nodes = DOMAIN t1.nodes
       /\ t2.key_domain_min_ = t1.key_domain_min_
       /\ t2.key_domain_max_ = t1.key_domain_max_
       /\ \A j \in DOMAIN t1.nodes : j # p => t2.nodes[j] = t1.nodes[j]
       /\ ~t2.nodes[p].is_leaf_
       /\ t2.nodes[p].level_ = t1.nodes[p].level_
       /\ t2.nodes[p].duplication_factor_ = t1.nodes[p].duplication_factor_
       /\ t2.nodes[p].start = t1.nodes[p].start
       /\ t2.nodes[p].width = t1.nodes[p].width
       /\ t2.nodes[p].num_children_ = t1.nodes[p].num_children_
       /\ \A b \in 0 .. t1.nodes[p].num_children_ - 1 :
              t2.nodes[p].children_[b] =
                  IF start <= b /\ b < start + Repeats(t.nodes[l]) THEN sibling
                  ELSE t1.nodes[p].children_[b]
  BY <1>6, <1>8, <1>9, RedirectedFacts
<1> HIDE DEF t2
<1>11. /\ IsTree(t3) /\ DOMAIN t3.nodes = DOMAIN t2.nodes \ {l}
       /\ t3.key_domain_min_ = t2.key_domain_min_
       /\ t3.key_domain_max_ = t2.key_domain_max_
       /\ \A j \in DOMAIN t2.nodes : j # l => t3.nodes[j] = t2.nodes[j]
  BY <1>9, <1>10, DeletedFacts
<1> HIDE DEF t3
<1>12. DOMAIN t3.nodes = DOMAIN t.nodes \ {l}
  BY <1>7, <1>10, <1>11
<1>13. \A i \in Leaves(t) \ {l} : t3.nodes[i] = R(i)
  BY <1>3, <1>7, <1>10, <1>11
<1>14. \A i \in Models(t) : i # p => t3.nodes[i] = t.nodes[i]
  BY <1>3, <1>7, <1>10, <1>11
<1>15. /\ t3.nodes[p] = t2.nodes[p] /\ ~t3.nodes[p].is_leaf_
       /\ t3.nodes[p].level_ = t.nodes[p].level_
       /\ t3.nodes[p].duplication_factor_ = t.nodes[p].duplication_factor_
       /\ t3.nodes[p].start = t.nodes[p].start
       /\ t3.nodes[p].width = t.nodes[p].width
       /\ t3.nodes[p].num_children_ = t.nodes[p].num_children_
       /\ \A b \in 0 .. t.nodes[p].num_children_ - 1 :
              t3.nodes[p].children_[b] =
                  IF start <= b /\ b < start + Repeats(t.nodes[l]) THEN sibling
                  ELSE t.nodes[p].children_[b]
  BY <1>3, <1>7, <1>9, <1>10, <1>11
<1>16. ASSUME NEW i \in DOMAIN t.nodes \ {l}
       PROVE  /\ t3.nodes[i].is_leaf_ = t.nodes[i].is_leaf_
              /\ t3.nodes[i].level_ = t.nodes[i].level_
              /\ i # sibling => t3.nodes[i].duplication_factor_ = t.nodes[i].duplication_factor_
  <2>0. t.nodes[p].is_leaf_ = FALSE /\ t3.nodes[p].is_leaf_ = FALSE
    <3>1. t.nodes[p].is_leaf_ \in {FALSE}
      BY <1>3 DEF IsModel
    <3>2. t3.nodes[p].is_leaf_ \in {FALSE}
      <4>1. p \in DOMAIN t3.nodes /\ IsTree(t3)
        BY <1>3, <1>9, <1>11, <1>12
      <4>2. p \in Models(t3)
        BY <1>15, <4>1, NodeFacts
      <4>3. IsModel(t3.nodes[p])
        BY <4>1, <4>2, NodeFacts
      <4> QED
        BY <4>3 DEF IsModel
    <3> QED
      BY <3>1, <3>2
  <2>1. CASE i = p
    BY <1>15, <2>0, <2>1
  <2>2. CASE i \in Models(t) /\ i # p
    BY <1>14, <2>2
  <2>3. CASE i \in Leaves(t)
    <3>1. t3.nodes[i] = R(i)
      BY <1>13, <2>3
    <3>2. R(i).is_leaf_ = TRUE /\ t.nodes[i].is_leaf_ = TRUE
      <4>1. R(i) \in LeafNodes /\ t.nodes[i] \in LeafNodes
        BY <1>2, <2>3, NodeFacts
      <4>2. R(i).is_leaf_ \in {TRUE} /\ t.nodes[i].is_leaf_ \in {TRUE}
        BY <4>1 DEF LeafNodes
      <4> QED
        BY <4>2
    <3>3. /\ R(i).level_ = t.nodes[i].level_
          /\ i # sibling => R(i).duplication_factor_ = t.nodes[i].duplication_factor_
      BY <1>2, <2>3
    <3> QED
      BY <3>1, <3>2, <3>3
  <2> QED
    BY <1>3, <2>1, <2>2, <2>3
<1>17. ASSUME NEW i \in Models(t)
       PROVE  /\ t3.nodes[i].start = t.nodes[i].start
              /\ t3.nodes[i].width = t.nodes[i].width
              /\ t3.nodes[i].num_children_ = t.nodes[i].num_children_
              /\ i # p => t3.nodes[i].children_ = t.nodes[i].children_
  BY <1>14, <1>15
<1>18. t3.nodes[sibling] = R(sibling) /\ l # sibling
  BY <1>13
<1> QED
  BY <1>1, <1>2, <1>6, <1>10, <1>11, <1>12, <1>13, <1>15, <1>16, <1>17, <1>18 DEF IsJoined

-----------------------------------------------------------------------------
\* Whether the run with the pointer is the first of its pair.
IsPairedWithNext(b, r) == b % (2 * r) = b % r

\* A number of runs' pointers that is one of pairs'.
IsPairs(num, r) == \E m \in Nat : num = m * (2 * r)

\* Runs are paired from the first on: whether another one follows in its pair.
LEMMA PairedRuns ==
    ASSUME NEW r \in Nat, r > 0, NEW f \in Nat, f % r = 0,
           NEW b \in Nat, f <= b, b < f + r,
           NEW num \in Nat, IsPairs(num, r), f + r <= num
    PROVE  /\ IsPairedWithNext(b, r) => IsMultiple(f, 2 * r) /\ f + 2 * r <= num
           /\ ~IsPairedWithNext(b, r) => f >= r /\ IsMultiple(f - r, 2 * r)
<1> DEFINE q == f \div r
           u == q \div 2
           e == b - f
           d == 2 * r
<1>0. PICK m \in Nat : num = m * (2 * r)
  BY DEF IsPairs
<1>1. q \in Int /\ f = q * r
  BY Remainders
<1>2. e \in 0 .. r - 1 /\ b = q * r + e /\ e \in Int
  BY <1>1
<1> HIDE DEF q, e
<1>3. b % r = e
  BY <1>1, <1>2, Remainders
<1>4. u \in Int /\ (q = 2 * u \/ q = 2 * u + 1)
  BY <1>1
<1>5. q >= 0
  <2>1. q < 0 => q * r < 0 * r
    BY <1>1, Products
  <2> QED
    BY <1>1, <2>1
<1>6. u >= 0
  BY <1>4, <1>5
<1> HIDE DEF u
<1>7. d \in Nat /\ d > 0
  OBVIOUS
<1>8. (2 * u) * r = u * d /\ (2 * u + 1) * r = u * d + r /\ u * d \in Nat
  <2>1. u * d \in Nat
    BY <1>4, <1>6, <1>7
  <2>2. (2 * u) * r = u * (2 * r)
    BY <1>4
  <2>3. (2 * u + 1) * r = (2 * u) * r + 1 * r
    BY <1>4, Products
  <2> QED
    BY <2>1, <2>2, <2>3
<1>9. CASE q = 2 * u
  <2>1. f = u * d /\ b = u * d + e
    BY <1>1, <1>2, <1>8, <1>9
  <2>2. e \in 0 .. d - 1
    BY <1>2
  <2>3. b % d = e
    <3> HIDE DEF d
    <3> QED
      BY <1>4, <1>7, <2>1, <2>2, Remainders
  <2>4. IsMultiple(f, d)
    <3>1. u \in Nat
      BY <1>4, <1>6
    <3> HIDE DEF d
    <3>2. (u * d) % d = 0
      BY <1>7, <3>1, Multiples
    <3> QED
      BY <2>1, <3>2 DEF IsMultiple
  <2>5. f + d <= num
    <3>1. num = m * d /\ u * d < m * d
      BY <1>0, <1>7, <2>1
    <3> HIDE DEF d
    <3>2. u < m /\ u * d + d <= m * d
      BY <1>4, <1>7, <3>1, Products
    <3> QED
      BY <2>1, <3>1, <3>2
  <2> QED
    BY <1>3, <2>3, <2>4, <2>5 DEF IsPairedWithNext
<1>10. CASE q = 2 * u + 1
  <2>1. f = u * d + r /\ b = u * d + (r + e)
    BY <1>1, <1>2, <1>8, <1>10
  <2>2. r + e \in 0 .. d - 1
    BY <1>2
  <2>3. b % d = r + e
    <3> DEFINE e2 == r + e
    <3>1. e2 \in 0 .. d - 1 /\ b = u * d + e2
      BY <2>1, <2>2
    <3> HIDE DEF d, e2
    <3>2. b % d = e2
      BY <1>4, <1>7, <3>1, Remainders
    <3> QED
      BY <3>2 DEF e2
  <2>4. f - r = u * d
    BY <1>8, <2>1
  <2>5. IsMultiple(f - r, d)
    <3>1. u \in Nat
      BY <1>4, <1>6
    <3> HIDE DEF d
    <3>2. (u * d) % d = 0
      BY <1>7, <3>1, Multiples
    <3> QED
      BY <2>4, <3>2 DEF IsMultiple
  <2> QED
    BY <1>2, <1>3, <1>8, <2>1, <2>3, <2>5 DEF IsPairedWithNext
<1> QED
  BY <1>4, <1>9, <1>10

\* A run that is shorter than a node's pointers is one of an even number.
LEMMA PairsOfRuns ==
    ASSUME NEW d \in Nat, NEW x \in Nat, 2^d < 2^x
    PROVE  IsPairs(2^x, 2^d)
<1>1. d < x
  <2>1. d = x \/ d < x \/ x < d
    OBVIOUS
  <2>2. x < d => 2^x < 2^d
    BY PowerGrows
  <2>3. 2^x \in Nat /\ 2^d \in Nat
    BY PowerFacts
  <2> QED
    BY <2>1, <2>2, <2>3
<1> DEFINE y == x - d - 1
           m == 2^y
           D == 2^d
<1>2. y \in Nat /\ x = d + (y + 1)
  BY <1>1
<1> HIDE DEF y
<1>3. 2^x = D * 2^(y + 1)
  BY <1>2, PowerOfSum
<1>4. 2^(y + 1) = 2 * m /\ m \in Nat /\ D \in Nat
  BY <1>2, PowerFacts
<1> HIDE DEF m, D
<1>5. 2^x = D * (2 * m)
  BY <1>3, <1>4
<1>6. 2^x = m * (2 * D)
  BY <1>4, <1>5
<1> QED
  BY <1>4, <1>6 DEF D, IsPairs

\* Where the run that one is paired with starts.
LEMMA PairOfRun ==
    ASSUME NEW r \in Nat, r > 0, NEW f \in Nat, f % r = 0,
           NEW b \in Nat, f <= b, b < f + r,
           NEW num \in Nat, IsPairs(num, r), f + r <= num
    PROVE  /\ IsPairedWithNext(b, r) =>
                  /\ f + r \in 0 .. num - 1 /\ RunStart(f + r, r) = f + r
                  /\ IsMultiple(f, 2 * r)
           /\ ~IsPairedWithNext(b, r) =>
                  /\ f - 1 \in 0 .. num - 1 /\ RunStart(f - 1, r) = f - r
                  /\ IsMultiple(f - r, 2 * r)
<1>1. /\ IsPairedWithNext(b, r) => IsMultiple(f, 2 * r) /\ f + 2 * r <= num
      /\ ~IsPairedWithNext(b, r) => f >= r /\ IsMultiple(f - r, 2 * r)
  BY PairedRuns
<1> DEFINE q == f \div r
<1>2. q \in Int /\ f = q * r
  BY Remainders
<1> HIDE DEF q
<1>3. (q + 1) * r = q * r + r /\ (q - 1) * r = q * r - r
  <2>1. (q + 1) * r = q * r + 1 * r
    BY <1>2, Products
  <2>2. ((q - 1) + 1) * r = (q - 1) * r + 1 * r /\ (q - 1) * r \in Int
    BY <1>2, Products
  <2>3. (q - 1) + 1 = q /\ q * r \in Int
    BY <1>2, Products
  <2> QED
    BY <2>1, <2>2, <2>3
<1>4. ASSUME IsPairedWithNext(b, r)
      PROVE  f + r \in 0 .. num - 1 /\ RunStart(f + r, r) = f + r
  <2>1. f + r \in 0 .. num - 1
    BY <1>1, <1>4
  <2>2. f + r = (q + 1) * r + 0
    BY <1>2, <1>3
  <2> DEFINE g == f + r
             s == q + 1
  <2>3. g \in Int /\ s \in Int /\ 0 \in 0 .. r - 1 /\ g = s * r + 0
    BY <1>2, <2>2
  <2> HIDE DEF g, s
  <2>4. g % r = 0
    BY <2>3, Remainders
  <2>5. RunStart(g, r) = g
    BY <2>3, <2>4 DEF RunStart
  <2> QED
    BY <2>1, <2>5 DEF g
<1>5. ASSUME ~IsPairedWithNext(b, r)
      PROVE  f - 1 \in 0 .. num - 1 /\ RunStart(f - 1, r) = f - r
  <2>1. f - 1 \in 0 .. num - 1
    BY <1>1, <1>5
  <2> DEFINE g == f - r
             c == f - 1
             s == q - 1
  <2>2. g \in Int /\ s \in Int /\ 0 \in 0 .. r - 1 /\ g = s * r + 0
    BY <1>2, <1>3
  <2>3. g \in Nat /\ c \in Nat /\ g <= c /\ c < g + r
    BY <1>1, <1>5
  <2> HIDE DEF g, c, s
  <2>4. g % r = 0
    BY <2>2, Remainders
  <2>5. RunStart(c, r) = g
    BY <2>3, <2>4, RunStartFacts
  <2> QED
    BY <2>1, <2>5 DEF g, c
<1> QED
  BY <1>1, <1>4, <1>5

\* What a merge knows of a leaf and the one it may join: b is any of the leaf's
\* pointers in p.
MayJoin(t, p, b, leaf, r, start, right, sibling) ==
    /\ p \in Models(t) /\ p # Superroot /\ b \in 0 .. t.nodes[p].num_children_ - 1
    /\ leaf = t.nodes[p].children_[b] /\ leaf \in Leaves(t) /\ t.nodes[leaf].keys = {}
    /\ r = Repeats(t.nodes[leaf]) /\ r < t.nodes[p].num_children_
    /\ start = RunStart(b, r)
    /\ right \in BOOLEAN
    /\ right => IsPairedWithNext(b, r) /\ sibling = t.nodes[p].children_[start + r]
    /\ ~right => ~IsPairedWithNext(b, r) /\ sibling = t.nodes[p].children_[start - 1]
    /\ t.nodes[sibling].is_leaf_
    /\ t.nodes[sibling].duplication_factor_ = t.nodes[leaf].duplication_factor_

\* Any of a leaf's pointers tells which leaf its run is paired with.
LEMMA SiblingsArePaired ==
    ASSUME NEW t, NEW parent, NEW first, IsTree(t), HasRuns(t, parent, first),
           parent \in [Nodes(t) -> Models(t)], first \in [Nodes(t) -> Nat],
           NEW p, NEW b, NEW leaf, NEW r, NEW start, NEW right, NEW sibling,
           MayJoin(t, p, b, leaf, r, start, right, sibling)
    PROVE  /\ sibling \in Leaves(t) /\ sibling # leaf
           /\ \E lo, hi : AreSiblings(t, parent, first, p, leaf, sibling, start, right, lo, hi)
<1>0. /\ p \in Models(t) /\ p # Superroot /\ b \in 0 .. t.nodes[p].num_children_ - 1
      /\ leaf = t.nodes[p].children_[b] /\ leaf \in Leaves(t)
      /\ r = Repeats(t.nodes[leaf])
  BY DEF MayJoin
<1>1. t.nodes[leaf].keys = {} /\ r < t.nodes[p].num_children_ /\ start = RunStart(b, r)
  BY DEF MayJoin
<1>2. right \in BOOLEAN
  BY DEF MayJoin
<1>3. right => IsPairedWithNext(b, r) /\ sibling = t.nodes[p].children_[start + r]
  BY DEF MayJoin
<1>4. ~right => ~IsPairedWithNext(b, r) /\ sibling = t.nodes[p].children_[start - 1]
  BY DEF MayJoin
<1>5. /\ t.nodes[sibling].is_leaf_
      /\ t.nodes[sibling].duplication_factor_ = t.nodes[leaf].duplication_factor_
  BY DEF MayJoin
<1>6. /\ leaf \in Nodes(t) /\ parent[leaf] = p
      /\ first[leaf] <= b /\ b < first[leaf] + r
      /\ start = first[leaf]
  <2>1. /\ leaf \in Nodes(t) /\ parent[leaf] = p
        /\ first[leaf] <= b /\ b < first[leaf] + Repeats(t.nodes[leaf])
        /\ RunStart(b, Repeats(t.nodes[leaf])) = first[leaf]
    BY <1>0, RunOfLeaf
  <2> QED
    BY <1>0, <1>1, <2>1
<1> DEFINE num == t.nodes[p].num_children_
<1>7. num \in Nat
  BY <1>0, NodeFacts
<1>8. /\ r \in Nat /\ r > 0 /\ start \in Nat /\ start % r = 0
      /\ start + r <= num
      /\ start <= b /\ b < start + r /\ b \in Nat
  <2>1. \A c \in Nodes(t) :
            /\ first[c] \in Nat
            /\ Repeats(t.nodes[c]) \in Nat /\ Repeats(t.nodes[c]) > 0
            /\ first[c] % Repeats(t.nodes[c]) = 0
            /\ first[c] + Repeats(t.nodes[c]) <= t.nodes[parent[c]].num_children_
    BY RunFacts
  <2>2. /\ first[leaf] \in Nat
        /\ Repeats(t.nodes[leaf]) \in Nat /\ Repeats(t.nodes[leaf]) > 0
        /\ first[leaf] % Repeats(t.nodes[leaf]) = 0
        /\ first[leaf] + Repeats(t.nodes[leaf]) <= num
    BY <1>6, <2>1
  <2>3. b \in Nat
    BY <1>0, <1>7
  <2> HIDE DEF num
  <2>4. r = Repeats(t.nodes[leaf]) /\ start = first[leaf]
    BY <1>0, <1>6
  <2>5. r \in Nat /\ r > 0 /\ start \in Nat /\ start % r = 0 /\ start + r <= num
    BY <2>2, <2>4
  <2> QED
    BY <1>6, <2>3, <2>5
<1>9. IsPairs(num, r)
  <2>1. PICK x \in Nat : num = 2^x
    BY <1>0 DEF HasRuns
  <2> DEFINE d == t.nodes[leaf].duplication_factor_
  <2>2. d \in Nat
    BY <1>6, NodeFacts DEF Nodes
  <2>3. r = 2^d
    BY <1>0 DEF Repeats
  <2>4. 2^d < 2^x
    BY <1>1, <2>1, <2>3
  <2> HIDE DEF d, num
  <2>5. IsPairs(2^x, 2^d)
    BY <2>2, <2>4, PairsOfRuns
  <2> QED
    BY <2>1, <2>3, <2>5
<1>11. /\ IsPairedWithNext(b, r) =>
              /\ start + r \in 0 .. num - 1 /\ RunStart(start + r, r) = start + r
              /\ IsMultiple(start, 2 * r)
       /\ ~IsPairedWithNext(b, r) =>
              /\ start - 1 \in 0 .. num - 1 /\ RunStart(start - 1, r) = start - r
              /\ IsMultiple(start - r, 2 * r)
  <2> HIDE DEF num
  <2> QED
    BY <1>7, <1>8, <1>9, PairOfRun
<1>12. r = Repeats(t.nodes[sibling])
  BY <1>0, <1>5 DEF Repeats
<1>13. \A c \in 0 .. num - 1 :
           LET s == t.nodes[p].children_[c]
           IN  /\ s \in Nodes(t) /\ parent[s] = p
               /\ RunStart(c, Repeats(t.nodes[s])) = first[s]
  BY <1>0, RunOfLeaf
<1> HIDE DEF num
<1>14. CASE right
  <2>1. /\ start + r \in 0 .. num - 1 /\ sibling = t.nodes[p].children_[start + r]
        /\ RunStart(start + r, r) = start + r /\ IsMultiple(start, 2 * r)
    BY <1>3, <1>11, <1>14
  <2>2. sibling \in Nodes(t) /\ parent[sibling] = p /\ RunStart(start + r, r) = first[sibling]
    BY <1>12, <1>13, <2>1
  <2>3. first[sibling] = start + r
    BY <2>1, <2>2
  <2>4. sibling \in Leaves(t)
    BY <1>5, <2>2 DEF Leaves, Nodes
  <2>5. sibling # leaf
    BY <1>6, <1>8, <2>3
  <2>6. first[sibling] = first[leaf] + Repeats(t.nodes[leaf])
    BY <1>0, <1>6, <2>3
  <2>7. IsMultiple(first[leaf], 2 * Repeats(t.nodes[leaf]))
    BY <1>0, <1>6, <2>1
  <2>8. AreSiblings(t, parent, first, p, leaf, sibling, start, right, leaf, sibling)
    BY <1>0, <1>1, <1>2, <1>5, <1>6, <1>14, <2>2, <2>4, <2>5, <2>6, <2>7 DEF AreSiblings
  <2> QED
    BY <2>4, <2>5, <2>8
<1>15. CASE ~right
  <2>1. /\ start - 1 \in 0 .. num - 1 /\ sibling = t.nodes[p].children_[start - 1]
        /\ RunStart(start - 1, r) = start - r /\ IsMultiple(start - r, 2 * r)
    BY <1>4, <1>11, <1>15
  <2>2. sibling \in Nodes(t) /\ parent[sibling] = p /\ RunStart(start - 1, r) = first[sibling]
    BY <1>12, <1>13, <2>1
  <2>3. first[sibling] = start - r
    BY <2>1, <2>2
  <2>4. sibling \in Leaves(t)
    BY <1>5, <2>2 DEF Leaves, Nodes
  <2>5. sibling # leaf
    BY <1>6, <1>8, <2>3
  <2>6. first[leaf] = first[sibling] + r
    BY <1>6, <1>8, <2>3
  <2>7. first[leaf] = first[sibling] + Repeats(t.nodes[leaf])
    BY <1>0, <2>6
  <2>8. IsMultiple(first[sibling], 2 * Repeats(t.nodes[leaf]))
    BY <1>0, <2>1, <2>3
  <2>9. AreSiblings(t, parent, first, p, leaf, sibling, start, right, sibling, leaf)
    BY <1>0, <1>1, <1>2, <1>5, <1>6, <1>15, <2>2, <2>4, <2>5, <2>7, <2>8 DEF AreSiblings
  <2> QED
    BY <2>4, <2>5, <2>9
<1> QED
  BY <1>2, <1>14, <1>15

-----------------------------------------------------------------------------
\* What a merge makes of the tree when the leaf takes its parent's place.
RaiseTree(t, g, upper, p, l) ==
    Redirected(Deleted(WithNode(t, l, [t.nodes[l] EXCEPT !.duplication_factor_ =
                                           t.nodes[p].duplication_factor_]), p),
               g, upper, upper + Repeats(t.nodes[p]), l)

\* And of the superroot, when the leaf becomes the root.
RaiseToRoot(t, upper, p, l) ==
    LET t2 == RaiseTree(t, Superroot, upper, p, l)
    IN  WithNode(t2, Superroot, [t2.nodes[Superroot] EXCEPT !.level_ = t.nodes[l].level_ - 1])

\* All but the superroot's level.
LEMMA RaiseTreeFacts ==
    ASSUME NEW t, IsTree(t), NEW l \in Leaves(t), NEW p \in Models(t), p # Superroot,
           NEW g \in Models(t), g # p, NEW upper,
           NEW t2, t2 = RaiseTree(t, g, upper, p, l)
    PROVE  /\ IsTree(t2) /\ DOMAIN t2.nodes = DOMAIN t.nodes \ {p}
           /\ t2.key_domain_min_ = t.key_domain_min_ /\ t2.key_domain_max_ = t.key_domain_max_
           /\ \A i \in Models(t) \ {p, g} : t2.nodes[i] = t.nodes[i]
           /\ \A i \in Leaves(t) \ {l} : t2.nodes[i] = t.nodes[i]
           /\ t2.nodes[g].is_leaf_ = t.nodes[g].is_leaf_
           /\ t2.nodes[g].level_ = t.nodes[g].level_
           /\ t2.nodes[g].duplication_factor_ = t.nodes[g].duplication_factor_
           /\ t2.nodes[g].start = t.nodes[g].start
           /\ t2.nodes[g].width = t.nodes[g].width
           /\ t2.nodes[g].num_children_ = t.nodes[g].num_children_
           /\ \A b \in 0 .. t.nodes[g].num_children_ - 1 :
                  t2.nodes[g].children_[b] =
                      IF upper <= b /\ b < upper + Repeats(t.nodes[p]) THEN l
                      ELSE t.nodes[g].children_[b]
           /\ t2.nodes[l].is_leaf_ = t.nodes[l].is_leaf_
           /\ t2.nodes[l].level_ = t.nodes[l].level_
           /\ t2.nodes[l].duplication_factor_ = t.nodes[p].duplication_factor_
           /\ t2.nodes[l].keys = t.nodes[l].keys
           /\ t2.nodes[l].prev_leaf_ = t.nodes[l].prev_leaf_
           /\ t2.nodes[l].next_leaf_ = t.nodes[l].next_leaf_
<1> DEFINE d == t.nodes[p].duplication_factor_
           n == [t.nodes[l] EXCEPT !.duplication_factor_ = d]
           a1 == WithNode(t, l, n)
           a2 == Deleted(a1, p)
           a3 == Redirected(a2, g, upper, upper + Repeats(t.nodes[p]), l)
<1>0. t2 = a3
  BY DEF RaiseTree
<1>1. /\ l \in DOMAIN t.nodes /\ l # Superroot /\ l \in Int /\ l # p /\ l # g
      /\ t.nodes[l] \in LeafNodes /\ d \in Nat
      /\ p \in DOMAIN t.nodes /\ g \in DOMAIN t.nodes
      /\ \A i \in Models(t) : i \in DOMAIN t.nodes /\ i \notin Leaves(t)
      /\ \A i \in Leaves(t) : i \in DOMAIN t.nodes
      /\ IsModel(t.nodes[g])
  <2>1. l \in Nodes(t) /\ t.nodes[l] \in LeafNodes
    BY NodeFacts
  <2>2. /\ \A i \in Models(t) : i \in DOMAIN t.nodes /\ i \notin Leaves(t)
        /\ \A i \in Leaves(t) : i \in DOMAIN t.nodes
    BY DEF Models, Leaves
  <2>3. d \in Nat
    BY <2>2, NodeFacts
  <2>4. l \in Int
    BY <2>2, NodeFacts
  <2>5. IsModel(t.nodes[g])
    BY NodeFacts
  <2> QED
    BY <2>1, <2>2, <2>3, <2>4, <2>5 DEF Nodes
<1> HIDE DEF d
<1>2. /\ n \in LeafNodes /\ n.is_leaf_ /\ n.level_ = t.nodes[l].level_
      /\ n.duplication_factor_ = d /\ n.keys = t.nodes[l].keys
      /\ n.prev_leaf_ = t.nodes[l].prev_leaf_ /\ n.next_leaf_ = t.nodes[l].next_leaf_
  BY <1>1, LeafWithDuplication
<1> HIDE DEF n
<1>3. /\ IsTree(a1) /\ DOMAIN a1.nodes = DOMAIN t.nodes
      /\ a1.key_domain_min_ = t.key_domain_min_ /\ a1.key_domain_max_ = t.key_domain_max_
      /\ a1.nodes[l] = n
      /\ \A j \in DOMAIN t.nodes : j # l => a1.nodes[j] = t.nodes[j]
  BY <1>1, <1>2, WithNodeFacts
<1> HIDE DEF a1
<1>4. /\ IsTree(a2) /\ DOMAIN a2.nodes = DOMAIN a1.nodes \ {p}
      /\ a2.key_domain_min_ = a1.key_domain_min_ /\ a2.key_domain_max_ = a1.key_domain_max_
      /\ \A j \in DOMAIN a1.nodes : j # p => a2.nodes[j] = a1.nodes[j]
  BY <1>3, DeletedFacts
<1> HIDE DEF a2
<1>5. g \in Models(a2) /\ a2.nodes[g] = t.nodes[g]
  <2>1. g \in DOMAIN a2.nodes /\ a2.nodes[g] = t.nodes[g]
    BY <1>1, <1>3, <1>4
  <2>2. ~t.nodes[g].is_leaf_
    BY <1>1, NodeFacts
  <2> QED
    BY <1>4, <2>1, <2>2, NodeFacts
<1>6. /\ IsTree(a3) /\ DOMAIN a3.nodes = DOMAIN a2.nodes
      /\ a3.key_domain_min_ = a2.key_domain_min_
      /\ a3.key_domain_max_ = a2.key_domain_max_
      /\ \A j \in DOMAIN a2.nodes : j # g => a3.nodes[j] = a2.nodes[j]
      /\ ~a3.nodes[g].is_leaf_
      /\ a3.nodes[g].level_ = a2.nodes[g].level_
      /\ a3.nodes[g].duplication_factor_ = a2.nodes[g].duplication_factor_
      /\ a3.nodes[g].start = a2.nodes[g].start
      /\ a3.nodes[g].width = a2.nodes[g].width
      /\ a3.nodes[g].num_children_ = a2.nodes[g].num_children_
      /\ \A b \in 0 .. a2.nodes[g].num_children_ - 1 :
             a3.nodes[g].children_[b] =
                 IF upper <= b /\ b < upper + Repeats(t.nodes[p]) THEN l
                 ELSE a2.nodes[g].children_[b]
  BY <1>1, <1>4, <1>5, RedirectedFacts
<1> HIDE DEF a3
<1>7. a3.nodes[g].is_leaf_ = t.nodes[g].is_leaf_
  <2>1. g \in Models(a3)
    BY <1>1, <1>3, <1>4, <1>6, NodeFacts
  <2>2. IsModel(a3.nodes[g])
    BY <1>6, <2>1, NodeFacts
  <2>3. a3.nodes[g].is_leaf_ \in {FALSE} /\ t.nodes[g].is_leaf_ \in {FALSE}
    BY <1>1, <2>2 DEF IsModel
  <2> QED
    BY <2>3
<1>8. a3.nodes[l] = n
  BY <1>1, <1>3, <1>4, <1>6
<1>9. n.is_leaf_ = t.nodes[l].is_leaf_
  <2>1. n.is_leaf_ \in {TRUE} /\ t.nodes[l].is_leaf_ \in {TRUE}
    BY <1>1, <1>2 DEF LeafNodes
  <2> QED
    BY <2>1
<1>10. \A i \in DOMAIN t.nodes \ {p, g, l} : a3.nodes[i] = t.nodes[i]
  BY <1>3, <1>4, <1>6
<1>11. d = t.nodes[p].duplication_factor_
  BY DEF d
<1>12. DOMAIN a3.nodes = DOMAIN t.nodes \ {p}
  BY <1>3, <1>4, <1>6
<1>13. /\ \A i \in Models(t) \ {p, g} : a3.nodes[i] = t.nodes[i]
       /\ \A i \in Leaves(t) \ {l} : a3.nodes[i] = t.nodes[i]
  BY <1>1, <1>10
<1> HIDE <1>0
<1>14. /\ a3.nodes[g].level_ = t.nodes[g].level_
       /\ a3.nodes[g].duplication_factor_ = t.nodes[g].duplication_factor_
       /\ a3.nodes[g].start = t.nodes[g].start
       /\ a3.nodes[g].width = t.nodes[g].width
       /\ a3.nodes[g].num_children_ = t.nodes[g].num_children_
       /\ \A b \in 0 .. t.nodes[g].num_children_ - 1 :
              a3.nodes[g].children_[b] =
                  IF upper <= b /\ b < upper + Repeats(t.nodes[p]) THEN l
                  ELSE t.nodes[g].children_[b]
  BY <1>5, <1>6
<1>15. /\ a3.nodes[l].is_leaf_ = t.nodes[l].is_leaf_
       /\ a3.nodes[l].level_ = t.nodes[l].level_
       /\ a3.nodes[l].duplication_factor_ = t.nodes[p].duplication_factor_
       /\ a3.nodes[l].keys = t.nodes[l].keys
       /\ a3.nodes[l].prev_leaf_ = t.nodes[l].prev_leaf_
       /\ a3.nodes[l].next_leaf_ = t.nodes[l].next_leaf_
  BY <1>2, <1>8, <1>9, <1>11
<1> QED
  BY <1>0, <1>3, <1>4, <1>6, <1>7, <1>12, <1>13, <1>14, <1>15

\* The leaf takes the place of a node other than the root.
LEMMA RaiseTreeIsLifted ==
    ASSUME NEW t, IsTree(t), NEW l \in Leaves(t), NEW p \in Models(t), p # Superroot,
           NEW g \in Models(t), g # p, g # Superroot, NEW upper
    PROVE  IsLifted(t, RaiseTree(t, g, upper, p, l), g, p, l,
                    upper, upper + Repeats(t.nodes[p]))
<1> DEFINE t2 == RaiseTree(t, g, upper, p, l)
<1>1. t2 = RaiseTree(t, g, upper, p, l)
  OBVIOUS
<1> HIDE DEF t2
<1>2. /\ IsTree(t2) /\ DOMAIN t2.nodes = DOMAIN t.nodes \ {p}
      /\ t2.key_domain_min_ = t.key_domain_min_ /\ t2.key_domain_max_ = t.key_domain_max_
      /\ \A i \in Models(t) \ {p, g} : t2.nodes[i] = t.nodes[i]
      /\ \A i \in Leaves(t) \ {l} : t2.nodes[i] = t.nodes[i]
      /\ t2.nodes[g].is_leaf_ = t.nodes[g].is_leaf_
      /\ t2.nodes[g].level_ = t.nodes[g].level_
      /\ t2.nodes[g].duplication_factor_ = t.nodes[g].duplication_factor_
      /\ t2.nodes[g].start = t.nodes[g].start
      /\ t2.nodes[g].width = t.nodes[g].width
      /\ t2.nodes[g].num_children_ = t.nodes[g].num_children_
      /\ \A b \in 0 .. t.nodes[g].num_children_ - 1 :
             t2.nodes[g].children_[b] =
                 IF upper <= b /\ b < upper + Repeats(t.nodes[p]) THEN l
                 ELSE t.nodes[g].children_[b]
      /\ t2.nodes[l].is_leaf_ = t.nodes[l].is_leaf_
      /\ t2.nodes[l].level_ = t.nodes[l].level_
      /\ t2.nodes[l].duplication_factor_ = t.nodes[p].duplication_factor_
      /\ t2.nodes[l].keys = t.nodes[l].keys
      /\ t2.nodes[l].prev_leaf_ = t.nodes[l].prev_leaf_
      /\ t2.nodes[l].next_leaf_ = t.nodes[l].next_leaf_
  BY <1>1, RaiseTreeFacts
<1>3. Superroot \in Models(t) /\ \A i \in DOMAIN t.nodes : i \in Leaves(t) \/ i \in Models(t)
  BY NodeFacts DEF Models
<1>4. t2.nodes[Superroot] = t.nodes[Superroot]
  BY <1>2, <1>3
<1>5. \A i \in DOMAIN t.nodes \ {p} :
          /\ t2.nodes[i].is_leaf_ = t.nodes[i].is_leaf_
          /\ i # Superroot => t2.nodes[i].level_ = t.nodes[i].level_
          /\ i # l => t2.nodes[i].duplication_factor_ = t.nodes[i].duplication_factor_
  BY <1>2, <1>3
<1>6. \A i \in Models(t) \ {p} :
          /\ t2.nodes[i].start = t.nodes[i].start
          /\ t2.nodes[i].width = t.nodes[i].width
          /\ t2.nodes[i].num_children_ = t.nodes[i].num_children_
          /\ i # g => t2.nodes[i].children_ = t.nodes[i].children_
  BY <1>2
<1>7. \A i \in Leaves(t) :
          /\ t2.nodes[i].keys = t.nodes[i].keys
          /\ t2.nodes[i].next_leaf_ = t.nodes[i].next_leaf_
          /\ t2.nodes[i].prev_leaf_ = t.nodes[i].prev_leaf_
  BY <1>2
<1>8. IsLifted(t, t2, g, p, l, upper, upper + Repeats(t.nodes[p]))
  BY <1>2, <1>4, <1>5, <1>6, <1>7 DEF IsLifted
<1> QED
  BY <1>1, <1>8

\* The leaf takes the root's place.
LEMMA RaiseToRootIsLifted ==
    ASSUME NEW t, IsTree(t), NEW l \in Leaves(t), NEW p \in Models(t), p # Superroot, NEW upper
    PROVE  IsLifted(t, RaiseToRoot(t, upper, p, l), Superroot, p, l,
                    upper, upper + Repeats(t.nodes[p]))
<1> DEFINE t2 == RaiseTree(t, Superroot, upper, p, l)
           g == Superroot
           n == [t2.nodes[Superroot] EXCEPT !.level_ = t.nodes[l].level_ - 1]
           t3 == WithNode(t2, Superroot, n)
<1>0. t3 = RaiseToRoot(t, upper, p, l)
  BY DEF RaiseToRoot
<1>1. t2 = RaiseTree(t, g, upper, p, l)
  OBVIOUS
<1>2. g \in Models(t) /\ g # p /\ \A i \in DOMAIN t.nodes : i \in Leaves(t) \/ i \in Models(t)
  BY NodeFacts DEF Models
<1> HIDE DEF t2, g
<1>3. /\ IsTree(t2) /\ DOMAIN t2.nodes = DOMAIN t.nodes \ {p}
      /\ t2.key_domain_min_ = t.key_domain_min_ /\ t2.key_domain_max_ = t.key_domain_max_
      /\ \A i \in Models(t) \ {p, g} : t2.nodes[i] = t.nodes[i]
      /\ \A i \in Leaves(t) \ {l} : t2.nodes[i] = t.nodes[i]
      /\ t2.nodes[g].is_leaf_ = t.nodes[g].is_leaf_
      /\ t2.nodes[g].level_ = t.nodes[g].level_
      /\ t2.nodes[g].duplication_factor_ = t.nodes[g].duplication_factor_
      /\ t2.nodes[g].start = t.nodes[g].start
      /\ t2.nodes[g].width = t.nodes[g].width
      /\ t2.nodes[g].num_children_ = t.nodes[g].num_children_
      /\ \A b \in 0 .. t.nodes[g].num_children_ - 1 :
             t2.nodes[g].children_[b] =
                 IF upper <= b /\ b < upper + Repeats(t.nodes[p]) THEN l
                 ELSE t.nodes[g].children_[b]
      /\ t2.nodes[l].is_leaf_ = t.nodes[l].is_leaf_
      /\ t2.nodes[l].level_ = t.nodes[l].level_
      /\ t2.nodes[l].duplication_factor_ = t.nodes[p].duplication_factor_
      /\ t2.nodes[l].keys = t.nodes[l].keys
      /\ t2.nodes[l].prev_leaf_ = t.nodes[l].prev_leaf_
      /\ t2.nodes[l].next_leaf_ = t.nodes[l].next_leaf_
  BY <1>1, <1>2, RaiseTreeFacts
<1>4. /\ IsModel(n) /\ ~n.is_leaf_ /\ n.level_ = t.nodes[l].level_ - 1
      /\ n.duplication_factor_ = t2.nodes[g].duplication_factor_
      /\ n.start = t2.nodes[g].start /\ n.width = t2.nodes[g].width
      /\ n.num_children_ = t2.nodes[g].num_children_ /\ n.children_ = t2.nodes[g].children_
      /\ n.num_children_ = 1 /\ g \in DOMAIN t2.nodes
  <2>1. IsModel(t2.nodes[g]) /\ t2.nodes[g].num_children_ = 1 /\ g \in DOMAIN t2.nodes
    BY <1>3 DEF IsTree, g
  <2>2. t.nodes[l].level_ - 1 \in Int
    BY NodeFacts DEF Leaves
  <2>3. n = [t2.nodes[g] EXCEPT !.level_ = t.nodes[l].level_ - 1]
    BY DEF g
  <2> HIDE DEF n
  <2> QED
    BY <2>1, <2>2, <2>3, ModelWithLevel
<1> HIDE DEF n
<1>5. /\ IsTree(t3) /\ DOMAIN t3.nodes = DOMAIN t2.nodes
      /\ t3.key_domain_min_ = t2.key_domain_min_
      /\ t3.key_domain_max_ = t2.key_domain_max_
      /\ t3.nodes[g] = n
      /\ \A j \in DOMAIN t2.nodes : j # g => t3.nodes[j] = t2.nodes[j]
  BY <1>3, <1>4, WithNodeFacts DEF g
<1> HIDE DEF t3
<1>6. n.is_leaf_ = t.nodes[g].is_leaf_
  <2>1. n.is_leaf_ \in {FALSE}
    BY <1>4 DEF IsModel
  <2>2. IsModel(t.nodes[g])
    BY <1>2, NodeFacts
  <2>3. t.nodes[g].is_leaf_ \in {FALSE}
    BY <2>2 DEF IsModel
  <2> QED
    BY <2>1, <2>3
<1>7. l # g /\ l \in DOMAIN t.nodes /\ l # p
  BY <1>2 DEF Leaves, Models
<1>8. ASSUME NEW i \in DOMAIN t.nodes \ {p}
      PROVE  /\ t3.nodes[i].is_leaf_ = t.nodes[i].is_leaf_
             /\ i # g => t3.nodes[i].level_ = t.nodes[i].level_
             /\ i # l => t3.nodes[i].duplication_factor_ = t.nodes[i].duplication_factor_
  <2>1. CASE i = g
    BY <1>3, <1>4, <1>5, <1>6, <2>1
  <2>2. CASE i # g
    <3>1. t3.nodes[i] = t2.nodes[i]
      BY <1>3, <1>5, <2>2
    <3> QED
      BY <1>2, <1>3, <2>2, <3>1
  <2> QED
    BY <2>1, <2>2
<1>9. \A i \in Models(t) \ {p} :
          /\ t3.nodes[i].start = t.nodes[i].start
          /\ t3.nodes[i].width = t.nodes[i].width
          /\ t3.nodes[i].num_children_ = t.nodes[i].num_children_
          /\ i # g => t3.nodes[i].children_ = t.nodes[i].children_
  <2>1. \A i \in Models(t) \ {p} : i # g => t3.nodes[i] = t.nodes[i]
    BY <1>3, <1>5 DEF Models
  <2>2. /\ t3.nodes[g].start = t.nodes[g].start
        /\ t3.nodes[g].width = t.nodes[g].width
        /\ t3.nodes[g].num_children_ = t.nodes[g].num_children_
    BY <1>3, <1>4, <1>5
  <2> QED
    BY <2>1, <2>2
<1>10. \A i \in Leaves(t) :
           /\ t3.nodes[i].keys = t.nodes[i].keys
           /\ t3.nodes[i].next_leaf_ = t.nodes[i].next_leaf_
           /\ t3.nodes[i].prev_leaf_ = t.nodes[i].prev_leaf_
  <2>0. \A i \in Leaves(t) : i \in DOMAIN t.nodes
    BY DEF Leaves
  <2>1. \A i \in Leaves(t) : i \in DOMAIN t.nodes \ {p} /\ i # g
    BY <1>2, <2>0 DEF Models
  <2>2. \A i \in Leaves(t) : t3.nodes[i] = t2.nodes[i]
    BY <1>3, <1>5, <2>1
  <2> QED
    BY <1>3, <2>2
<1>11. \A b \in 0 .. t.nodes[g].num_children_ - 1 :
           t3.nodes[g].children_[b] =
               IF upper <= b /\ b < upper + Repeats(t.nodes[p]) THEN l
               ELSE t.nodes[g].children_[b]
  <2>1. t3.nodes[g].children_ = t2.nodes[g].children_
    BY <1>4, <1>5
  <2> QED
    BY <1>3, <2>1
<1>12. t3.nodes[l].duplication_factor_ = t.nodes[p].duplication_factor_
  BY <1>3, <1>5, <1>7
<1>13. t3.nodes[g].level_ = t.nodes[l].level_ - 1
  BY <1>4, <1>5
<1>14. IsLifted(t, t3, g, p, l, upper, upper + Repeats(t.nodes[p]))
  BY <1>3, <1>5, <1>8, <1>9, <1>10, <1>11, <1>12, <1>13 DEF IsLifted, g
<1> QED
  BY <1>0, <1>14 DEF g

-----------------------------------------------------------------------------
\* The levels of a path's nodes grow.
LEMMA PathRises ==
    ASSUME NEW t, NEW parent, NEW first, IsTree(t), HasRuns(t, parent, first),
           parent \in [Nodes(t) -> Models(t)],
           NEW path, IsPath(t, path)
    PROVE  \A j \in 1 .. Len(path) : \A i \in 1 .. Len(path) :
               i < j => path[i].node # path[j].node
<1> DEFINE level(j) == t.nodes[path[j].node].level_
           Rises(j) == \A i \in 1 .. Len(path) : i < j => level(i) < level(j)
           bad == {j \in 1 .. Len(path) : ~Rises(j)}
<1>1. /\ Len(path) \in Nat /\ Len(path) > 0
      /\ \A j \in 1 .. Len(path) :
             path[j].node \in Models(t)
             /\ path[j].bucketID \in 0 .. t.nodes[path[j].node].num_children_ - 1
      /\ \A j \in 1 .. Len(path) : j > 1 => path[j].node = ChildOf(t, path[j - 1])
  <2>1. /\ Len(path) \in Nat /\ Len(path) > 0
        /\ \A j \in 1 .. Len(path) : j > 1 => path[j].node = ChildOf(t, path[j - 1])
    BY PathFacts
  <2> QED
    BY <2>1 DEF IsPath
<1>2. \A j \in 1 .. Len(path) : level(j) \in Int
  <2>1. \A i \in Models(t) : t.nodes[i].level_ \in Int
    BY NodeFacts DEF Models
  <2> QED
    BY <1>1, <2>1
<1>3. ASSUME NEW j \in 1 .. Len(path), j > 1
      PROVE  level(j - 1) < level(j)
  <2>1. j - 1 \in 1 .. Len(path)
    BY <1>1, <1>3
  <2> DEFINE n == path[j - 1].node
             b == path[j - 1].bucketID
  <2>2. n \in Models(t) /\ b \in 0 .. t.nodes[n].num_children_ - 1
    BY <1>1, <2>1
  <2>3. path[j].node = t.nodes[n].children_[b]
    BY <1>1, <1>3 DEF ChildOf
  <2> HIDE DEF n, b
  <2>4. t.nodes[t.nodes[n].children_[b]].level_ > t.nodes[n].level_
    BY <2>2, PickedChild
  <2>5. t.nodes[path[j].node].level_ > t.nodes[n].level_
    BY <2>3, <2>4
  <2>6. t.nodes[path[j].node].level_ > t.nodes[path[j - 1].node].level_
    BY <2>5 DEF n
  <2> QED
    BY <1>2, <2>1, <2>6
<1> HIDE DEF level
<1>4. bad = {}
  <2>1. SUFFICES ASSUME bad # {} PROVE FALSE
    OBVIOUS
  <2>2. bad \in SUBSET Nat
    BY <1>1
  <2>3. PICK j \in bad : \A k \in bad : j <= k
    BY <2>1, <2>2, LeastElement
  <2>4. j \in 1 .. Len(path) /\ ~Rises(j)
    OBVIOUS
  <2>5. PICK i \in 1 .. Len(path) : i < j /\ ~(level(i) < level(j))
    BY <2>4
  <2>6. j > 1 /\ j - 1 \in 1 .. Len(path)
    BY <1>1, <2>4, <2>5
  <2>7. Rises(j - 1)
    BY <2>3, <2>6
  <2>8. level(j - 1) < level(j)
    BY <1>3, <2>4, <2>6
  <2>9. CASE i = j - 1
    BY <2>5, <2>8, <2>9
  <2>10. CASE i # j - 1
    <3>1. i < j - 1
      BY <2>4, <2>5, <2>10
    <3>2. level(i) < level(j - 1)
      BY <2>7, <3>1
    <3> QED
      BY <1>2, <2>4, <2>5, <2>6, <2>8, <3>2
  <2> QED
    BY <2>9, <2>10
<1>5. ASSUME NEW j \in 1 .. Len(path), NEW i \in 1 .. Len(path), i < j
      PROVE  level(i) < level(j)
  BY <1>4, <1>5
<1> QED
  BY <1>2, <1>5 DEF level

\* A merge's state: its leaf is at the path's position pos, or it is over.
MergeState(t, leaf, pos) == [t |-> t, leaf |-> leaf, pos |-> pos]

IsDistinct(path) ==
    \A j \in 1 .. Len(path) : \A i \in 1 .. Len(path) : i < j => path[i].node # path[j].node

LeadsTo(t, path, leaf, pos) ==
    /\ Len(path) \in Nat /\ pos \in 2 .. Len(path) /\ path[1].node = Superroot
    /\ \A j \in 1 .. pos :
           /\ path[j].node \in Models(t)
           /\ path[j].bucketID \in 0 .. t.nodes[path[j].node].num_children_ - 1
           /\ ChildOf(t, path[j]) = IF j = pos THEN leaf ELSE path[j + 1].node

IsMerging(t0, t, path, leaf, pos) ==
    /\ IsMerged(t0, t)
    /\ leaf \in Leaves(t)
    /\ pos = 0 \/ LeadsTo(t, path, leaf, pos)

\* What is not changed by a step of a merge, on the path above it.
LEMMA LeadsOn ==
    ASSUME NEW t, NEW path, NEW leaf, NEW pos, LeadsTo(t, path, leaf, pos), IsDistinct(path),
           NEW t2, NEW leaf2, NEW at \in 2 .. pos,
           \A i \in {path[j].node : j \in 1 .. at} :
               /\ i \in Models(t2)
               /\ t2.nodes[i].num_children_ = t.nodes[i].num_children_
               /\ i # path[at].node => t2.nodes[i].children_ = t.nodes[i].children_,
           ChildOf(t2, path[at]) = leaf2
    PROVE  LeadsTo(t2, path, leaf2, at)
<1>1. /\ Len(path) \in Nat /\ pos \in 2 .. Len(path) /\ path[1].node = Superroot
      /\ at \in 2 .. Len(path)
  BY DEF LeadsTo
<1>2. ASSUME NEW j \in 1 .. at
      PROVE  /\ path[j].node \in Models(t2)
             /\ path[j].bucketID \in 0 .. t2.nodes[path[j].node].num_children_ - 1
             /\ ChildOf(t2, path[j]) = IF j = at THEN leaf2 ELSE path[j + 1].node
  <2>1. j \in 1 .. pos /\ j \in 1 .. Len(path)
    BY <1>1
  <2>2. /\ path[j].bucketID \in 0 .. t.nodes[path[j].node].num_children_ - 1
        /\ ChildOf(t, path[j]) = IF j = pos THEN leaf ELSE path[j + 1].node
    BY <2>1 DEF LeadsTo
  <2>3. /\ path[j].node \in Models(t2)
        /\ t2.nodes[path[j].node].num_children_ = t.nodes[path[j].node].num_children_
        /\ path[j].node # path[at].node =>
               t2.nodes[path[j].node].children_ = t.nodes[path[j].node].children_
    OBVIOUS
  <2>4. CASE j = at
    BY <2>2, <2>3, <2>4
  <2>5. CASE j # at
    <3>1. j < at /\ j # pos
      BY <1>1, <2>5
    <3>2. path[j].node # path[at].node
      BY <1>1, <2>1, <3>1 DEF IsDistinct
    <3>3. ChildOf(t2, path[j]) = ChildOf(t, path[j])
      BY <2>3, <3>2 DEF ChildOf
    <3> QED
      BY <2>2, <2>3, <2>5, <3>1, <3>3
  <2> QED
    BY <2>4, <2>5
<1> QED
  BY <1>1, <1>2 DEF LeadsTo

-----------------------------------------------------------------------------
\* Merges of merges are merges.
LEMMA MergedIsTransitive ==
    ASSUME NEW t0, NEW t, NEW t2, IsMerged(t0, t), IsMerged(t, t2)
    PROVE  IsMerged(t0, t2)
BY DEF IsMerged

\* The neighbours of a leaf.
LEMMA NeighboursFacts ==
    ASSUME NEW t, NEW from, NEW to, IsChained(t, from, to), NEW l \in Leaves(t)
    PROVE  /\ t.nodes[l].prev_leaf_ = NoNode \/ t.nodes[l].prev_leaf_ \in Leaves(t)
           /\ t.nodes[l].next_leaf_ = NoNode \/ t.nodes[l].next_leaf_ \in Leaves(t)
           /\ t.nodes[l].prev_leaf_ # l \/ t.nodes[l].prev_leaf_ = NoNode
           /\ t.nodes[l].next_leaf_ # l \/ t.nodes[l].next_leaf_ = NoNode
BY DEF IsChained

\* The leaf joins its sibling.
LEMMA JoinKeepsMerging ==
    ASSUME NEW t0, NEW t, NEW path, NEW leaf, NEW pos,
           IsMerging(t0, t, path, leaf, pos), pos # 0, IsDistinct(path),
           NEW p, p = path[pos].node, NEW b, b = path[pos].bucketID,
           NEW r, NEW start, NEW right, NEW sibling,
           MayJoin(t, p, b, leaf, r, start, right, sibling)
    PROVE  IsMerging(t0, JoinTree(t, p, leaf, sibling, start, right), path, sibling, pos)
<1>1. IsMerged(t0, t) /\ leaf \in Leaves(t) /\ LeadsTo(t, path, leaf, pos)
  BY DEF IsMerging
<1>2. PICK parent, first, from, to : WellFormed(t, parent, first, from, to)
  BY <1>1 DEF IsMerged
<1>3. /\ IsTree(t) /\ HasRuns(t, parent, first)
      /\ parent \in [Nodes(t) -> Models(t)] /\ first \in [Nodes(t) -> Nat]
  BY <1>2, WellFormedParts
<1>4. /\ sibling \in Leaves(t) /\ sibling # leaf
      /\ \E lo, hi : AreSiblings(t, parent, first, p, leaf, sibling, start, right, lo, hi)
  BY <1>3, SiblingsArePaired
<1>5. PICK lo, hi : AreSiblings(t, parent, first, p, leaf, sibling, start, right, lo, hi)
  BY <1>4
<1>6. /\ p \in Models(t) /\ right \in BOOLEAN /\ b \in 0 .. t.nodes[p].num_children_ - 1
      /\ leaf = t.nodes[p].children_[b] /\ p # Superroot
  BY DEF MayJoin
<1> DEFINE t2 == JoinTree(t, p, leaf, sibling, start, right)
<1>7. IsJoined(t, t2, p, leaf, sibling, start, right)
  <2>1. IsChained(t, from, to)
    BY <1>2 DEF WellFormed
  <2>2. /\ t.nodes[leaf].prev_leaf_ = NoNode \/ t.nodes[leaf].prev_leaf_ \in Leaves(t)
        /\ t.nodes[leaf].next_leaf_ = NoNode \/ t.nodes[leaf].next_leaf_ \in Leaves(t)
    BY <1>1, <2>1, NeighboursFacts
  <2> QED
    <3>1. /\ IsTree(t) /\ leaf \in Leaves(t) /\ sibling \in Leaves(t)
          /\ leaf # sibling /\ right \in BOOLEAN /\ p \in Models(t)
      BY <1>1, <1>3, <1>4, <1>6
    <3> QED
      BY <2>2, <3>1, JoinTreeIsJoined
<1> HIDE DEF t2
<1>8. IsMerged(t, t2) /\ Models(t2) = Models(t) /\ sibling \in Leaves(t2)
  BY <1>2, <1>5, <1>7, JoinedIsMerged
<1>9. IsMerged(t0, t2)
  BY <1>1, <1>8, MergedIsTransitive
<1>10. /\ \A i \in Models(t) :
              /\ t2.nodes[i].num_children_ = t.nodes[i].num_children_
              /\ i # p => t2.nodes[i].children_ = t.nodes[i].children_
       /\ \A c \in 0 .. t.nodes[p].num_children_ - 1 :
              t2.nodes[p].children_[c] =
                  IF start <= c /\ c < start + Repeats(t.nodes[leaf]) THEN sibling
                  ELSE t.nodes[p].children_[c]
  BY <1>7 DEF IsJoined
<1>11. t2.nodes[p].children_[b] = sibling
  <2>0. \A c \in 0 .. t.nodes[p].num_children_ - 1 :
            /\ first[t.nodes[p].children_[c]] <= c
            /\ c < first[t.nodes[p].children_[c]] + Repeats(t.nodes[t.nodes[p].children_[c]])
    BY <1>3, <1>6, RunFacts
  <2>1. first[leaf] <= b /\ b < first[leaf] + Repeats(t.nodes[leaf])
    BY <1>6, <2>0
  <2>2. start = first[leaf]
    BY <1>5 DEF AreSiblings
  <2> QED
    BY <1>6, <1>10, <2>1, <2>2
<1>12. ChildOf(t2, path[pos]) = sibling
  BY <1>11 DEF ChildOf
<1>13. pos \in 2 .. pos /\ pos \in Nat
  BY <1>1 DEF LeadsTo
<1>14. \A i \in {path[j].node : j \in 1 .. pos} :
           /\ i \in Models(t2)
           /\ t2.nodes[i].num_children_ = t.nodes[i].num_children_
           /\ i # path[pos].node => t2.nodes[i].children_ = t.nodes[i].children_
  <2>1. ASSUME NEW j \in 1 .. pos PROVE path[j].node \in Models(t)
    BY <1>1 DEF LeadsTo
  <2> QED
    BY <1>8, <1>10, <2>1
<1>15. LeadsTo(t2, path, sibling, pos)
  BY <1>1, <1>12, <1>13, <1>14, LeadsOn
<1>16. IsMerging(t0, t2, path, sibling, pos)
  BY <1>8, <1>9, <1>15 DEF IsMerging
<1> QED
  BY <1>16 DEF t2

\* What a merge knows of a leaf that takes its parent's place.
MayRise(t, path, leaf, pos, p, g, upper) ==
    /\ p = path[pos].node /\ g = path[pos - 1].node
    /\ Repeats(t.nodes[leaf]) = t.nodes[p].num_children_
    /\ upper = RunStart(path[pos - 1].bucketID, Repeats(t.nodes[p]))

\* That is so of an only child.
LEMMA RiseIsOfOnlyChild ==
    ASSUME NEW t, NEW path, NEW leaf, NEW pos, LeadsTo(t, path, leaf, pos), leaf \in Leaves(t),
           NEW parent, NEW first, IsTree(t), HasRuns(t, parent, first),
           parent \in [Nodes(t) -> Models(t)], first \in [Nodes(t) -> Nat],
           NEW p, NEW g, NEW upper, MayRise(t, path, leaf, pos, p, g, upper)
    PROVE  /\ p \in Models(t) /\ p # Superroot /\ g \in Models(t) /\ g # p
           /\ IsOnlyChild(t, parent, first, g, p, leaf, upper, upper + Repeats(t.nodes[p]))
           /\ path[pos - 1].bucketID \in 0 .. t.nodes[g].num_children_ - 1
           /\ upper <= path[pos - 1].bucketID
           /\ path[pos - 1].bucketID < upper + Repeats(t.nodes[p])
           /\ parent[p] = g
<1>1. /\ pos \in Nat /\ pos - 1 \in Nat /\ pos - 1 \in 1 .. pos /\ pos \in 1 .. pos
      /\ pos - 1 # pos /\ (pos - 1) + 1 = pos
  BY DEF LeadsTo
<1>2. /\ p = path[pos].node /\ g = path[pos - 1].node
      /\ Repeats(t.nodes[leaf]) = t.nodes[p].num_children_
      /\ upper = RunStart(path[pos - 1].bucketID, Repeats(t.nodes[p]))
  BY DEF MayRise
<1> DEFINE a == path[pos - 1].bucketID
           b == path[pos].bucketID
<1>3. p \in Models(t) /\ b \in 0 .. t.nodes[p].num_children_ - 1
      /\ leaf = t.nodes[p].children_[b]
  BY <1>1, <1>2 DEF LeadsTo, ChildOf
<1>4. g \in Models(t) /\ a \in 0 .. t.nodes[g].num_children_ - 1
      /\ p = t.nodes[g].children_[a]
  BY <1>1, <1>2 DEF LeadsTo, ChildOf
<1>5. upper = RunStart(a, Repeats(t.nodes[p]))
  BY <1>2
<1> HIDE DEF a, b
<1>6. parent[leaf] = p
  BY <1>3, RunOfLeaf
<1>7. /\ p \in Nodes(t) /\ parent[p] = g
      /\ first[p] <= a /\ a < first[p] + Repeats(t.nodes[p])
      /\ RunStart(a, Repeats(t.nodes[p])) = first[p]
  BY <1>4, RunOfLeaf
<1>8. p # Superroot
  BY <1>7 DEF Nodes
<1>9. g # p
  <2>1. t.nodes[p].level_ > t.nodes[g].level_
    BY <1>4, PickedChild
  <2>2. t.nodes[p].level_ \in Int
    BY <1>3, NodeFacts
  <2> QED
    BY <2>1, <2>2
<1> QED
  BY <1>2, <1>3, <1>4, <1>5, <1>6, <1>7, <1>8, <1>9 DEF IsOnlyChild, a

\* The leaf takes its parent's place.
LEMMA RiseKeepsMerging ==
    ASSUME NEW t0, NEW t, NEW path, NEW leaf, NEW pos,
           IsMerging(t0, t, path, leaf, pos), pos # 0, IsDistinct(path),
           NEW p, NEW g, NEW upper, MayRise(t, path, leaf, pos, p, g, upper)
    PROVE  /\ p = Root(t) => IsMerging(t0, RaiseToRoot(t, upper, p, leaf), path, leaf, 0)
           /\ p # Root(t) => IsMerging(t0, RaiseTree(t, g, upper, p, leaf), path, leaf, pos - 1)
           /\ p = Root(t) => g = Superroot
<1>1. IsMerged(t0, t) /\ leaf \in Leaves(t) /\ LeadsTo(t, path, leaf, pos)
  BY DEF IsMerging
<1>2. PICK parent, first, from, to : WellFormed(t, parent, first, from, to)
  BY <1>1 DEF IsMerged
<1>3. /\ IsTree(t) /\ HasRuns(t, parent, first)
      /\ parent \in [Nodes(t) -> Models(t)] /\ first \in [Nodes(t) -> Nat]
  BY <1>2, WellFormedParts
<1> DEFINE end == upper + Repeats(t.nodes[p])
           a == path[pos - 1].bucketID
<1>4. /\ p \in Models(t) /\ p # Superroot /\ g \in Models(t) /\ g # p
      /\ IsOnlyChild(t, parent, first, g, p, leaf, upper, end)
      /\ a \in 0 .. t.nodes[g].num_children_ - 1
      /\ upper <= a /\ a < end
      /\ parent[p] = g
  BY <1>1, <1>3, RiseIsOfOnlyChild
<1>5. p \in Nodes(t) /\ parent[Root(t)] = Superroot
      /\ (parent[p] = Superroot => p = Root(t))
  <2>1. p \in Nodes(t)
    BY <1>4 DEF Models, Nodes
  <2> QED
    BY <1>3, <2>1, RootFacts
<1>6. CASE p = Root(t)
  <2>1. g = Superroot
    BY <1>4, <1>5, <1>6
  <2> DEFINE t2 == RaiseToRoot(t, upper, p, leaf)
  <2>2. IsLifted(t, t2, g, p, leaf, upper, end)
    BY <1>1, <1>3, <1>4, <2>1, RaiseToRootIsLifted
  <2> HIDE DEF t2, end
  <2>3. IsMerged(t, t2) /\ leaf \in Leaves(t2)
    BY <1>2, <1>4, <2>2, LiftedIsMerged
  <2>4. IsMerged(t0, t2)
    BY <1>1, <2>3, MergedIsTransitive
  <2>5. IsMerging(t0, t2, path, leaf, 0)
    BY <2>3, <2>4 DEF IsMerging
  <2> QED
    BY <1>6, <2>1, <2>5 DEF t2
<1>7. CASE p # Root(t)
  <2>1. g # Superroot
    BY <1>4, <1>5, <1>7
  <2> DEFINE t2 == RaiseTree(t, g, upper, p, leaf)
  <2>2. IsLifted(t, t2, g, p, leaf, upper, end)
    BY <1>1, <1>3, <1>4, <2>1, RaiseTreeIsLifted
  <2>3. end = upper + Repeats(t.nodes[p])
    OBVIOUS
  <2> HIDE DEF t2, end
  <2>4. IsMerged(t, t2) /\ leaf \in Leaves(t2) /\ Models(t2) = Models(t) \ {p}
    BY <1>2, <1>4, <2>2, LiftedIsMerged
  <2>5. IsMerged(t0, t2)
    BY <1>1, <2>4, MergedIsTransitive
  <2>6. pos \in Nat /\ pos \in 2 .. Len(path) /\ Len(path) \in Nat
        /\ path[1].node = Superroot /\ g = path[pos - 1].node /\ p = path[pos].node
    BY <1>1 DEF LeadsTo, MayRise
  <2>7. pos - 1 \in 2 .. pos
    <3>1. pos - 1 # 1
      BY <2>1, <2>6
    <3> QED
      BY <2>6, <3>1
  <2>8. /\ \A i \in Models(t) \ {p} :
               /\ t2.nodes[i].num_children_ = t.nodes[i].num_children_
               /\ i # g => t2.nodes[i].children_ = t.nodes[i].children_
        /\ \A c \in 0 .. t.nodes[g].num_children_ - 1 :
               t2.nodes[g].children_[c] = IF upper <= c /\ c < end THEN leaf
                                          ELSE t.nodes[g].children_[c]
    BY <2>2 DEF IsLifted
  <2>9. ChildOf(t2, path[pos - 1]) = leaf
    BY <1>4, <2>6, <2>8 DEF ChildOf
  <2>10. ASSUME NEW j \in 1 .. pos - 1 PROVE path[j].node \in Models(t) \ {p}
    <3>1. j \in 1 .. pos /\ j \in 1 .. Len(path) /\ j < pos /\ pos \in 1 .. Len(path)
      BY <2>6
    <3>2. path[j].node # path[pos].node
      BY <3>1 DEF IsDistinct
    <3>3. path[j].node \in Models(t)
      BY <1>1, <3>1 DEF LeadsTo
    <3> QED
      BY <2>6, <3>2, <3>3
  <2> DEFINE at == pos - 1
  <2>11. \A i \in {path[j].node : j \in 1 .. at} :
             /\ i \in Models(t2)
             /\ t2.nodes[i].num_children_ = t.nodes[i].num_children_
             /\ i # path[at].node => t2.nodes[i].children_ = t.nodes[i].children_
    BY <2>4, <2>6, <2>8, <2>10
  <2>12. at \in 2 .. pos /\ ChildOf(t2, path[at]) = leaf
    BY <2>7, <2>9
  <2> HIDE DEF at
  <2>13. LeadsTo(t2, path, leaf, at)
    BY <1>1, <2>11, <2>12, LeadsOn
  <2>14. IsMerging(t0, t2, path, leaf, at)
    BY <2>4, <2>5, <2>13 DEF IsMerging
  <2> QED
    BY <1>7, <2>14 DEF t2, at
<1> QED
  BY <1>6, <1>7

-----------------------------------------------------------------------------
\* A step of a merge, by the operators above.
LEMMA MergeStepUnfolds ==
    ASSUME NEW s, NEW path
    PROVE  LET p == path[s.pos].node
               b == path[s.pos].bucketID
               r == Repeats(s.t.nodes[s.leaf])
               start == RunStart(b, r)
               sibling == s.t.nodes[p].children_[IF IsPairedWithNext(b, r) THEN start + r
                                                 ELSE start - 1]
           IN  MergeStep(s, path) =
               IF /\ s.t.nodes[s.leaf].keys = {}
                  /\ r < s.t.nodes[p].num_children_
                  /\ s.t.nodes[sibling].is_leaf_
                  /\ s.t.nodes[sibling].duplication_factor_
                         = s.t.nodes[s.leaf].duplication_factor_
               THEN [s EXCEPT !.t = JoinTree(s.t, p, s.leaf, sibling, start, IsPairedWithNext(b, r)),
                              !.leaf = sibling]
               ELSE IF r # s.t.nodes[p].num_children_ THEN [s EXCEPT !.pos = 0]
               ELSE IF p = Root(s.t)
               THEN [s EXCEPT !.t = WithNode(RaiseTree(s.t, path[s.pos - 1].node,
                                                 RunStart(path[s.pos - 1].bucketID,
                                                          Repeats(s.t.nodes[p])), p, s.leaf),
                                             Superroot,
                                             [RaiseTree(s.t, path[s.pos - 1].node,
                                                 RunStart(path[s.pos - 1].bucketID,
                                                          Repeats(s.t.nodes[p])), p, s.leaf)
                                                  .nodes[Superroot] EXCEPT
                                                 !.level_ = s.t.nodes[s.leaf].level_ - 1]),
                              !.pos = 0]
               ELSE [s EXCEPT !.t = RaiseTree(s.t, path[s.pos - 1].node,
                                        RunStart(path[s.pos - 1].bucketID,
                                                 Repeats(s.t.nodes[p])), p, s.leaf),
                              !.pos = s.pos - 1]
BY DEF MergeStep, JoinTree, Relinked, RaiseTree, IsPairedWithNext

\* What a merge has come to at s.
Merges(t0, path, s) ==
    \E t, leaf, pos : s = MergeState(t, leaf, pos) /\ IsMerging(t0, t, path, leaf, pos)

\* A step of a merge.
LEMMA MergeStepMerges ==
    ASSUME NEW t0, NEW path, IsDistinct(path), NEW s, Merges(t0, path, s), s.pos # 0
    PROVE  Merges(t0, path, MergeStep(s, path))
<1>1. PICK t, leaf, pos :
          s = MergeState(t, leaf, pos) /\ IsMerging(t0, t, path, leaf, pos)
  BY DEF Merges
<1>2. s.t = t /\ s.leaf = leaf /\ s.pos = pos
  BY <1>1 DEF MergeState
<1> DEFINE p == path[pos].node
           b == path[pos].bucketID
           r == Repeats(t.nodes[leaf])
           start == RunStart(b, r)
           right == IsPairedWithNext(b, r)
           sibling == t.nodes[p].children_[IF right THEN start + r ELSE start - 1]
           g == path[pos - 1].node
           upper == RunStart(path[pos - 1].bucketID, Repeats(t.nodes[p]))
           canJoin == /\ t.nodes[leaf].keys = {}
                      /\ r < t.nodes[p].num_children_
                      /\ t.nodes[sibling].is_leaf_
                      /\ t.nodes[sibling].duplication_factor_
                             = t.nodes[leaf].duplication_factor_
           joined == JoinTree(t, p, leaf, sibling, start, right)
           raised == RaiseTree(t, g, upper, p, leaf)
           n == [raised.nodes[Superroot] EXCEPT !.level_ = t.nodes[leaf].level_ - 1]
           top == WithNode(raised, Superroot, n)
<1>3. MergeStep(s, path) =
          IF canJoin THEN [s EXCEPT !.t = joined, !.leaf = sibling]
          ELSE IF r # t.nodes[p].num_children_ THEN [s EXCEPT !.pos = 0]
          ELSE IF p = Root(t) THEN [s EXCEPT !.t = top, !.pos = 0]
          ELSE [s EXCEPT !.t = raised, !.pos = pos - 1]
  BY <1>2, MergeStepUnfolds
<1> HIDE DEF joined, raised, n, top, sibling, right
<1>4. MergeStep(s, path) =
          IF canJoin THEN MergeState(joined, sibling, pos)
          ELSE IF r # t.nodes[p].num_children_ THEN MergeState(t, leaf, 0)
          ELSE IF p = Root(t) THEN MergeState(top, leaf, 0)
          ELSE MergeState(raised, leaf, pos - 1)
  <2>1. /\ [s EXCEPT !.t = joined, !.leaf = sibling] = MergeState(joined, sibling, pos)
        /\ [s EXCEPT !.pos = 0] = MergeState(t, leaf, 0)
        /\ [s EXCEPT !.t = top, !.pos = 0] = MergeState(top, leaf, 0)
        /\ [s EXCEPT !.t = raised, !.pos = pos - 1] = MergeState(raised, leaf, pos - 1)
    <3> HIDE DEF p, r, canJoin
    <3> DEFINE S(x, y, z) == [t : {x}, leaf : {y}, pos : {z}]
    <3>1. s \in S(t, leaf, pos)
      BY <1>1 DEF MergeState
    <3>2. \A x, y, z : \A m \in S(x, y, z) : m = MergeState(x, y, z)
      BY DEF MergeState
    <3>3. /\ [s EXCEPT !.t = joined, !.leaf = sibling] \in S(joined, sibling, pos)
          /\ [s EXCEPT !.pos = 0] \in S(t, leaf, 0)
          /\ [s EXCEPT !.t = top, !.pos = 0] \in S(top, leaf, 0)
          /\ [s EXCEPT !.t = raised, !.pos = pos - 1] \in S(raised, leaf, pos - 1)
      BY <3>1
    <3> HIDE DEF S
    <3> QED
      BY <3>2, <3>3
  <2> HIDE DEF canJoin, r, p
  <2> QED
    BY <1>3, <2>1
<1>5. /\ IsMerged(t0, t) /\ leaf \in Leaves(t) /\ LeadsTo(t, path, leaf, pos)
      /\ pos # 0
  BY <1>1, <1>2 DEF IsMerging
<1>6. PICK parent, first, from, to : WellFormed(t, parent, first, from, to)
  BY <1>5 DEF IsMerged
<1>7. /\ IsTree(t) /\ HasRuns(t, parent, first)
      /\ parent \in [Nodes(t) -> Models(t)] /\ first \in [Nodes(t) -> Nat]
  BY <1>6, WellFormedParts
<1>8. /\ p \in Models(t) /\ b \in 0 .. t.nodes[p].num_children_ - 1
      /\ leaf = t.nodes[p].children_[b] /\ p # Superroot
  <2>1. /\ p \in Models(t) /\ b \in 0 .. t.nodes[p].num_children_ - 1
        /\ leaf = t.nodes[p].children_[b]
    <3>1. pos \in 1 .. pos
      BY <1>5 DEF LeadsTo
    <3> QED
      BY <1>5, <3>1 DEF LeadsTo, ChildOf
  <2>2. p # Superroot
    <3>1. pos - 1 \in 1 .. pos /\ pos - 1 # pos /\ (pos - 1) + 1 = pos
      BY <1>5 DEF LeadsTo
    <3> DEFINE a == path[pos - 1].bucketID
    <3>2. g \in Models(t) /\ a \in 0 .. t.nodes[g].num_children_ - 1
          /\ p = t.nodes[g].children_[a]
      BY <1>5, <3>1 DEF LeadsTo, ChildOf
    <3> HIDE DEF a, g, p
    <3>3. p \in Nodes(t)
      BY <1>7, <3>2, RunFacts
    <3> QED
      BY <3>3 DEF Nodes
  <2> QED
    BY <2>1, <2>2
<1>9. CASE canJoin
  <2>1. right \in BOOLEAN
    BY DEF right, IsPairedWithNext
  <2>2. sibling = t.nodes[p].children_[IF right THEN start + r ELSE start - 1]
    BY DEF sibling
  <2>3. right <=> IsPairedWithNext(b, r)
    BY DEF right
  <2>4. MayJoin(t, p, b, leaf, r, start, right, sibling)
    <3> HIDE DEF p, b
    <3> QED
      BY <1>5, <1>8, <1>9, <2>1, <2>2, <2>3 DEF MayJoin
  <2> HIDE DEF r, start
  <2>5. IsMerging(t0, joined, path, sibling, pos)
    BY <1>1, <1>5, <2>4, JoinKeepsMerging DEF joined
  <2>6. MergeStep(s, path) = MergeState(joined, sibling, pos)
    BY <1>4, <1>9
  <2> HIDE DEF p, b
  <2> QED
    BY <2>5, <2>6 DEF Merges
<1>10. CASE ~canJoin /\ r # t.nodes[p].num_children_
  <2>1. MergeStep(s, path) = MergeState(t, leaf, 0)
    BY <1>4, <1>10
  <2>2. IsMerging(t0, t, path, leaf, 0)
    BY <1>5 DEF IsMerging
  <2> QED
    BY <2>1, <2>2 DEF Merges
<1>11. CASE ~canJoin /\ r = t.nodes[p].num_children_
  <2>1. MayRise(t, path, leaf, pos, p, g, upper)
    BY <1>11 DEF MayRise
  <2>2. /\ p = Root(t) => IsMerging(t0, RaiseToRoot(t, upper, p, leaf), path, leaf, 0)
        /\ p # Root(t) => IsMerging(t0, RaiseTree(t, g, upper, p, leaf), path, leaf, pos - 1)
        /\ p = Root(t) => g = Superroot
    BY <1>1, <1>5, <2>1, RiseKeepsMerging
  <2>3. CASE p = Root(t)
    <3>1. top = RaiseToRoot(t, upper, p, leaf)
      BY <2>2, <2>3 DEF top, n, raised, RaiseToRoot
    <3>2. MergeStep(s, path) = MergeState(top, leaf, 0)
      BY <1>4, <1>11, <2>3
    <3>3. IsMerging(t0, top, path, leaf, 0)
      BY <2>2, <2>3, <3>1
    <3> QED
      BY <3>2, <3>3 DEF Merges
  <2>4. CASE p # Root(t)
    <3>1. raised = RaiseTree(t, g, upper, p, leaf)
      BY DEF raised
    <3>2. MergeStep(s, path) = MergeState(raised, leaf, pos - 1)
      BY <1>4, <1>11, <2>4
    <3>3. IsMerging(t0, raised, path, leaf, pos - 1)
      BY <2>2, <2>4, <3>1
    <3> QED
      BY <3>2, <3>3 DEF Merges
  <2> QED
    BY <2>3, <2>4
<1> QED
  BY <1>9, <1>10, <1>11

-----------------------------------------------------------------------------
\* A tree has as many nodes as a natural number says.
LEMMA NodesAreCounted ==
    ASSUME NEW t, IsTree(t)
    PROVE  Cardinality(DOMAIN t.nodes) \in Nat
<1>1. t.fresh \in Nat /\ DOMAIN t.nodes \subseteq 0 .. t.fresh - 1
  BY DEF IsTree
<1>2. IsFiniteSet(0 .. t.fresh - 1)
  BY <1>1, FS_Interval
<1>3. IsFiniteSet(DOMAIN t.nodes)
  BY <1>1, <1>2, FS_Subset
<1> QED
  BY <1>3, FS_CardinalityType

\* The turns of a merge.
Turned(s, path) == IF s.pos = 0 THEN s ELSE MergeStep(s, path)

Turns(t, leaf, path, m) ==
    LET turns[n \in 0 .. m] ==
            IF n = 0 THEN MergeState(t, leaf, Len(path))
            ELSE Turned(turns[n - 1], path)
    IN  turns[m]

\* However many turns a merge takes, what holds of its state before them holds
\* after them.
LEMMA TurnsMerge ==
    ASSUME NEW t0, NEW leaf, NEW path, NEW m \in Nat, IsDistinct(path),
           Merges(t0, path, MergeState(t0, leaf, Len(path)))
    PROVE  Merges(t0, path, Turns(t0, leaf, path, m))
<1> DEFINE begin == MergeState(t0, leaf, Len(path))
           Body(f, n) == IF n = 0 THEN begin ELSE Turned(f[n - 1], path)
           Solved(n) == \E f : f = [j \in 0 .. n |-> Body(f, j)]
           open == {n \in Nat : ~Solved(n)}
<1>1. Solved(0)
  <2> DEFINE f == [j \in 0 .. 0 |-> begin]
  <2> HIDE DEF begin
  <2>1. f = [j \in 0 .. 0 |-> Body(f, j)]
    OBVIOUS
  <2> QED
    BY <2>1
<1>2. ASSUME NEW n \in Nat, Solved(n)
      PROVE  Solved(n + 1)
  <2>1. PICK f : f = [j \in 0 .. n |-> Body(f, j)]
    BY <1>2
  <2> DEFINE g == [j \in 0 .. n + 1 |-> Body(f, j)]
  <2> HIDE DEF begin
  <2>2. ASSUME NEW j \in 0 .. n + 1
        PROVE  Body(f, j) = Body(g, j)
    <3>1. CASE j = 0
      BY <3>1
    <3>2. CASE j # 0
      <4>1. j - 1 \in 0 .. n /\ j - 1 \in 0 .. n + 1
        BY <3>2
      <4> DEFINE i == j - 1
      <4> HIDE DEF i
      <4>2. f[i] = Body(f, i)
        <5> HIDE DEF Body
        <5> QED
          BY <2>1, <4>1 DEF i
      <4>3. g[i] = Body(f, i)
        <5> HIDE DEF Body
        <5> QED
          BY <4>1 DEF i
      <4> QED
        BY <3>2, <4>2, <4>3 DEF i
    <3> QED
      BY <3>1, <3>2
  <2> HIDE DEF Body
  <2>3. g = [j \in 0 .. n + 1 |-> Body(g, j)]
    BY <2>2
  <2> HIDE DEF g
  <2> QED
    BY <2>3
<1>3. Solved(m)
  <2> HIDE DEF Solved
  <2>1. SUFFICES ASSUME open # {} PROVE FALSE
    OBVIOUS
  <2>2. PICK n \in open : \A k \in open : n <= k
    BY <2>1, LeastElement
  <2>3. n \in Nat /\ n # 0
    BY <1>1, <2>2
  <2>4. n - 1 \in Nat /\ (n - 1) + 1 = n /\ Solved(n - 1)
    BY <2>2, <2>3
  <2>5. Solved(n)
    BY <2>4, <1>2
  <2> QED
    BY <2>2, <2>5
<1> DEFINE e == CHOOSE f : f = [j \in 0 .. m |-> Body(f, j)]
<1>4. e = [j \in 0 .. m |-> Body(e, j)]
  <2> HIDE DEF Body
  <2> QED
    BY <1>3
<1>5. Turns(t0, leaf, path, m) = e[m]
  BY DEF Turns
<1> HIDE DEF e
<1>6. \A j \in 0 .. m : e[j] = Body(e, j)
  <2> HIDE DEF Body
  <2> QED
    BY <1>4
<1>7. e[0] = begin
  BY <1>6
<1>8. \A j \in 1 .. m : e[j] = Turned(e[j - 1], path)
  BY <1>6
<1> HIDE DEF begin
<1>9. \A j \in 0 .. m : Merges(t0, path, e[j])
  <2> DEFINE bad == {j \in 0 .. m : ~Merges(t0, path, e[j])}
  <2>1. SUFFICES ASSUME bad # {} PROVE FALSE
    OBVIOUS
  <2>2. bad \in SUBSET Nat
    OBVIOUS
  <2>3. PICK j \in bad : \A i \in bad : j <= i
    BY <2>1, <2>2, LeastElement
  <2>4. j # 0
    BY <1>7, <2>3 DEF begin
  <2>5. j \in 1 .. m /\ j - 1 \in 0 .. m /\ j - 1 \notin bad
    BY <2>3, <2>4
  <2>6. Merges(t0, path, e[j - 1])
    BY <2>5
  <2>7. e[j] = Turned(e[j - 1], path)
    BY <1>8, <2>5
  <2> DEFINE s == e[j - 1]
  <2> HIDE DEF s
  <2>8. Merges(t0, path, Turned(s, path))
    <3>1. Merges(t0, path, s)
      BY <2>6 DEF s
    <3>2. CASE s.pos = 0
      BY <3>1, <3>2 DEF Turned
    <3>3. CASE s.pos # 0
      <4>1. Merges(t0, path, MergeStep(s, path))
        BY <3>1, <3>3, MergeStepMerges
      <4> QED
        BY <4>1, <3>3 DEF Turned
    <3> QED
      BY <3>2, <3>3
  <2> QED
    BY <2>3, <2>7, <2>8 DEF s
<1> QED
  BY <1>5, <1>9

\* A merge, by these.
LEMMA MergeUnfolds ==
    ASSUME NEW t, NEW leaf, NEW key, leaf = get_leaf(t, key).leaf,
           t.nodes[leaf].prev_leaf_ # leaf, t.nodes[leaf].next_leaf_ # leaf
    PROVE  merge(t, leaf, key) =
               LET path == get_leaf(t, key).path
               IN  IF Len(path) = 1 THEN t
                   ELSE Turns(t, leaf, path, Cardinality(DOMAIN t.nodes)).t
BY DEF merge, Turns, Turned, MergeState

\* A merge is of a leaf that the key belongs to.
MayMerge(t, leaf, key) ==
    \E parent, first, from, to :
        /\ WellFormed(t, parent, first, from, to)
        /\ ~t.nodes[Root(t)].is_leaf_ => IsIn(t, from, to, leaf, key)

\* merge keeps a tree well-formed, and its keys, when the leaf is where a lookup
\* of the key goes: however far the leaf joins siblings and rises.
THEOREM MergeIsMerged ==
    ASSUME NEW t, NEW leaf \in Leaves(t), NEW key \in Key, MayMerge(t, leaf, key)
    PROVE  IsMerged(t, merge(t, leaf, key))
<1>1. PICK parent, first, from, to :
          /\ WellFormed(t, parent, first, from, to)
          /\ ~t.nodes[Root(t)].is_leaf_ => IsIn(t, from, to, leaf, key)
  BY DEF MayMerge
<1>2. /\ IsTree(t) /\ HasRuns(t, parent, first) /\ IsChained(t, from, to)
      /\ parent \in [Nodes(t) -> Models(t)] /\ first \in [Nodes(t) -> Nat]
  BY <1>1, WellFormedParts DEF AreGhosts, WellFormed
<1> DEFINE found == get_leaf(t, key)
           path == found.path
<1>3. /\ IsPath(t, path) /\ path[1] = Step(Superroot, 0)
      /\ found.leaf \in Leaves(t) /\ found.leaf = LeafOf(t, path)
      /\ t.nodes[Root(t)].is_leaf_ => found.leaf = Root(t) /\ path = <<Step(Superroot, 0)>>
      /\ ~t.nodes[Root(t)].is_leaf_ =>
             Len(path) > 1 /\ IsIn(t, from, to, found.leaf, key)
  BY <1>1, LookupFinds
<1> HIDE DEF found
<1>4. key \in Int
  BY KeysAreWithinTheType
<1>5. found.leaf = leaf
  <2>1. CASE t.nodes[Root(t)].is_leaf_
    BY <1>2, <1>3, <2>1, RootLeafIsAlone
  <2>2. CASE ~t.nodes[Root(t)].is_leaf_
    BY <1>1, <1>3, <1>4, <2>2, OneLeafIsForKey
  <2> QED
    BY <2>1, <2>2
<1>6. t.nodes[leaf].prev_leaf_ # leaf /\ t.nodes[leaf].next_leaf_ # leaf
  <2>1. leaf \in Nat
    BY <1>2, NodeFacts DEF Leaves
  <2>2. leaf # NoNode
    BY <2>1 DEF NoNode
  <2> QED
    BY <1>2, <2>2, NeighboursFacts
<1> DEFINE m == Cardinality(DOMAIN t.nodes)
<1>7. merge(t, leaf, key) = IF Len(path) = 1 THEN t ELSE Turns(t, leaf, path, m).t
  BY <1>5, <1>6, MergeUnfolds DEF found
<1>8. m \in Nat
  BY <1>2, NodesAreCounted
<1> HIDE DEF m
<1>9. IsMerged(t, t)
  BY <1>1 DEF IsMerged
<1>10. CASE Len(path) = 1
  BY <1>7, <1>9, <1>10
<1>11. CASE Len(path) # 1
  <2>1. /\ Len(path) \in Nat /\ Len(path) > 0
        /\ \A j \in 1 .. Len(path) :
               /\ path[j].node \in Models(t)
               /\ path[j].bucketID \in 0 .. t.nodes[path[j].node].num_children_ - 1
        /\ \A j \in 1 .. Len(path) - 1 : path[j + 1].node = ChildOf(t, path[j])
        /\ LeafOf(t, path) = ChildOf(t, path[Len(path)])
    BY <1>2, <1>3, PathFacts DEF IsPath
  <2>2. IsDistinct(path)
    BY <1>2, <1>3, PathRises DEF IsDistinct
  <2>3. path[1].node = Superroot
    BY <1>3 DEF Step
  <2>4. LeadsTo(t, path, leaf, Len(path))
    <3>1. ASSUME NEW j \in 1 .. Len(path)
          PROVE  ChildOf(t, path[j]) = IF j = Len(path) THEN leaf ELSE path[j + 1].node
      <4>1. CASE j = Len(path)
        BY <1>3, <1>5, <2>1, <4>1
      <4>2. CASE j # Len(path)
        BY <2>1, <4>2
      <4> QED
        BY <4>1, <4>2
    <3> QED
      <4>1. Len(path) \in 2 .. Len(path)
        <5> DEFINE n == Len(path)
        <5>1. n \in Nat /\ n > 0 /\ n # 1
          BY <1>11, <2>1
        <5> HIDE DEF n
        <5>2. n \in 2 .. n
          BY <5>1
        <5> QED
          BY <5>2 DEF n
      <4> QED
        BY <2>1, <2>3, <3>1, <4>1 DEF LeadsTo
  <2>5. IsMerging(t, t, path, leaf, Len(path))
    BY <1>9, <2>4 DEF IsMerging
  <2>6. Merges(t, path, MergeState(t, leaf, Len(path)))
    BY <2>5 DEF Merges
  <2>7. Merges(t, path, Turns(t, leaf, path, m))
    BY <1>8, <2>2, <2>6, TurnsMerge
  <2>8. IsMerged(t, Turns(t, leaf, path, m).t)
    <3>1. PICK t2, leaf2, pos2 :
              /\ Turns(t, leaf, path, m) = MergeState(t2, leaf2, pos2)
              /\ IsMerging(t, t2, path, leaf2, pos2)
      BY <2>7 DEF Merges
    <3> QED
      BY <3>1 DEF IsMerging, MergeState
  <2> QED
    BY <1>7, <1>11, <2>8
<1> QED
  BY <1>10, <1>11
=============================================================================
