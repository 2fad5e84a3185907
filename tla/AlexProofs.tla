------------------------------ MODULE AlexProofs ------------------------------
(***************************************************************************)
(* Theorems about the index, for all keys, loads and fanouts, when models  *)
(* predict exactly and no split goes upwards: expansions of the root       *)
(* (ExpandRootIsMerged) keep a tree well-formed and its keys, as splits    *)
(* and merges do, so all calls keep the inductive invariant IInv.  It      *)
(* implies all invariants of Alex (TreeStaysSound and the theorems after   *)
(* it), and that each step is one that a set of keys allows                *)
(* (IndexIsKeySet).                                                        *)
(***************************************************************************)
EXTENDS Alex, RmiUpdatesProofs

-----------------------------------------------------------------------------
(* The root grows to one side.                                             *)

\* Groups of n buckets each.
LEMMA Groups ==
    ASSUME NEW f \in Nat, NEW n \in Nat, n > 0, NEW b \in 0 .. n * f - 1
    PROVE  /\ b \div n \in 0 .. f - 1 /\ b % n \in 0 .. n - 1
           /\ b = (b \div n) * n + (b % n)
<1> DEFINE s == b \div n
           d == b % n
<1>1. b \in Int /\ b >= 0 /\ b < n * f
  BY Products
<1>2. s \in Int /\ d \in 0 .. n - 1 /\ b = s * n + d
  BY <1>1, Remainders
<1> HIDE DEF s, d
<1>3. s >= 0
  <2>1. SUFFICES ASSUME s < 0 PROVE FALSE
    BY <1>2
  <2>2. s * n + n <= 0 * n /\ s * n \in Int /\ 0 * n = 0
    BY <1>2, <2>1, Products
  <2> QED
    BY <1>1, <1>2, <2>2
<1>4. s < f
  <2>1. SUFFICES ASSUME f <= s PROVE FALSE
    BY <1>2
  <2>2. f * n <= s * n
    BY <1>2, <2>1, Products
  <2>3. f * n = n * f /\ f * n \in Int /\ s * n \in Int
    BY <1>2, Products
  <2> QED
    BY <1>1, <1>2, <2>2, <2>3
<1> QED
  BY <1>2, <1>3, <1>4 DEF s, d

\* A group has the buckets that its number says.
LEMMA GroupOf ==
    ASSUME NEW f \in Nat, NEW n \in Nat, n > 0, NEW b \in 0 .. n * f - 1,
           NEW s \in 0 .. f - 1
    PROVE  /\ b \div n = s <=> s * n <= b /\ b < s * n + n
           /\ b \div n = s => b % n = b - s * n
           /\ s * n \in Nat /\ s * n + n <= n * f
<1> DEFINE u == b \div n
           d == b % n
<1>1. u \in 0 .. f - 1 /\ d \in 0 .. n - 1 /\ b = u * n + d
  BY Groups
<1> HIDE DEF u, d
<1>2. /\ u * n \in Int /\ s * n \in Int
      /\ u < s => u * n + n <= s * n
      /\ s < u => s * n + n <= u * n
  BY <1>1, Products
<1>3. s * n + n <= f * n /\ f * n = n * f /\ 0 * n = 0 /\ 0 * n <= s * n
  BY Products
<1>4. u = s <=> s * n <= b /\ b < s * n + n
  <2>1. CASE u = s
    BY <1>1, <1>2, <2>1
  <2>2. CASE u < s
    BY <1>1, <1>2, <2>2
  <2>3. CASE s < u
    BY <1>1, <1>2, <2>3
  <2> QED
    BY <1>1, <2>1, <2>2, <2>3
<1>5. u = s => d = b - s * n
  BY <1>1, <1>2
<1> QED
  BY <1>2, <1>3, <1>4, <1>5 DEF u, d

\* The new domain has f slots of the size of the old one, which is slot q.
AreSlots(edges, f, q) ==
    /\ f \in Nat /\ q \in 0 .. f - 1
    /\ \A s \in 0 .. f : edges[s] \in Int
    /\ \A s, u \in 0 .. f : s < u => edges[s] < edges[u]

InSlot(edges, f, s, key) ==
    /\ s > 0 => edges[s] <= key
    /\ s < f - 1 => key < edges[s + 1]

\* Every key is for one of the slots.
LEMMA SlotExists ==
    ASSUME NEW edges, NEW f, NEW q, AreSlots(edges, f, q), NEW key \in Int
    PROVE  \E s \in 0 .. f - 1 : InSlot(edges, f, s, key)
<1> DEFINE ends == {s \in 0 .. f - 1 : s = f - 1 \/ key < edges[s + 1]}
<1>1. f \in Nat /\ f > 0 /\ \A s \in 0 .. f : edges[s] \in Int
  BY DEF AreSlots
<1>2. f - 1 \in ends /\ ends \in SUBSET Nat
  BY <1>1
<1>3. PICK s \in ends : \A u \in ends : s <= u
  BY <1>2, LeastElement
<1>4. s > 0 => edges[s] <= key
  <2>1. SUFFICES ASSUME s > 0 PROVE edges[s] <= key
    OBVIOUS
  <2>2. s - 1 \in 0 .. f - 1 /\ s - 1 \notin ends /\ (s - 1) + 1 = s /\ s - 1 # f - 1
        /\ s \in 0 .. f
    BY <1>1, <1>3, <2>1
  <2>3. ~(key < edges[s])
    BY <2>2
  <2> QED
    BY <1>1, <2>2, <2>3
<1> QED
  BY <1>1, <1>3, <1>4 DEF InSlot

\* The tree after that: leaves[s] is the leaf for slot s, the old outermost one
\* for slot q, else a new one; slot[i] is the slot of a new leaf.
NewLeaves(t, t2) == DOMAIN t2.nodes \ DOMAIN t.nodes

AreForSlots(t, t2, f, q, out, leaves, slot) ==
    /\ DOMAIN t.nodes \subseteq DOMAIN t2.nodes
    /\ leaves[q] = out
    /\ \A s \in 0 .. f - 1 : s # q => leaves[s] \in NewLeaves(t, t2) /\ slot[leaves[s]] = s
    /\ \A i \in NewLeaves(t, t2) :
           slot[i] \in 0 .. f - 1 /\ slot[i] # q /\ leaves[slot[i]] = i

KeepsNodes(t, t2, g) ==
    /\ \A i \in DOMAIN t.nodes :
           /\ t2.nodes[i].is_leaf_ = t.nodes[i].is_leaf_
           /\ t2.nodes[i].duplication_factor_ = t.nodes[i].duplication_factor_
           /\ i # Superroot => t2.nodes[i].level_ = t.nodes[i].level_
    /\ t2.nodes[Superroot].level_ < t2.nodes[g].level_
    /\ \A i \in Models(t) : i # g =>
           /\ t2.nodes[i].start = t.nodes[i].start
           /\ t2.nodes[i].width = t.nodes[i].width
           /\ t2.nodes[i].num_children_ = t.nodes[i].num_children_
           /\ t2.nodes[i].children_ = t.nodes[i].children_

GrowsRoot(t, t2, g, edges, f, q, leaves) ==
    LET n == t.nodes[g].num_children_
    IN  /\ t2.nodes[g].num_children_ = n * f
        /\ \E y \in Nat : f = 2^y
        /\ \A b \in 0 .. n * f - 1 :
               t2.nodes[g].children_[b] = IF b \div n = q THEN t.nodes[g].children_[b % n]
                                          ELSE leaves[b \div n]
        /\ \A b \in Int : Edge(t2.nodes[g], b + q * n) = Edge(t.nodes[g], b)
        /\ \A s \in 0 .. f : Edge(t2.nodes[g], s * n) = edges[s]
        /\ t2.key_domain_min_ = edges[0] /\ t2.key_domain_max_ = edges[f]

AddsLeaves(t, t2, g, edges, f, q, out, leaves) ==
    /\ \A s \in 0 .. f - 1 : s # q =>
           LET n == t2.nodes[leaves[s]]
           IN  /\ n.is_leaf_ /\ n.level_ > t2.nodes[g].level_
               /\ Repeats(n) = t.nodes[g].num_children_
               /\ n.keys = {k \in t.nodes[out].keys : InSlot(edges, f, s, k)}
               /\ n.next_leaf_ = IF s = f - 1 THEN NoNode ELSE leaves[s + 1]
               /\ n.prev_leaf_ = IF s = 0 THEN NoNode ELSE leaves[s - 1]
    /\ t2.nodes[out].keys = {k \in t.nodes[out].keys : InSlot(edges, f, q, k)}
    /\ t2.nodes[out].next_leaf_ = IF q = f - 1 THEN t.nodes[out].next_leaf_ ELSE leaves[q + 1]
    /\ t2.nodes[out].prev_leaf_ = IF q = 0 THEN t.nodes[out].prev_leaf_ ELSE leaves[q - 1]
    /\ \A i \in Leaves(t) : i # out =>
           /\ t2.nodes[i].keys = t.nodes[i].keys
           /\ t2.nodes[i].next_leaf_ = t.nodes[i].next_leaf_
           /\ t2.nodes[i].prev_leaf_ = t.nodes[i].prev_leaf_

IsOutermost(t, from, to, edges, f, q, out) ==
    /\ out \in Leaves(t) /\ ~t.nodes[Root(t)].is_leaf_
    /\ q > 0 => from[out] = t.key_domain_min_
    /\ q < f - 1 => to[out] = t.key_domain_max_
    /\ edges[q] = t.key_domain_min_ /\ edges[q + 1] = t.key_domain_max_

IsGrown(t, from, to, t2, g, edges, f, q, out, leaves, slot) ==
    /\ IsTree(t2) /\ g = Root(t)
    /\ AreSlots(edges, f, q) /\ AreForSlots(t, t2, f, q, out, leaves, slot)
    /\ KeepsNodes(t, t2, g) /\ GrowsRoot(t, t2, g, edges, f, q, leaves)
    /\ AddsLeaves(t, t2, g, edges, f, q, out, leaves)
    /\ IsOutermost(t, from, to, edges, f, q, out)

\* Its parents, first pointers and regions.
GrownParent(t, t2, parent, g) ==
    [i \in Nodes(t2) |-> IF i \in NewLeaves(t, t2) THEN g ELSE parent[i]]

GrownFirst(t, t2, parent, first, g, q, slot) ==
    [i \in Nodes(t2) |->
        IF i \in NewLeaves(t, t2) THEN slot[i] * t.nodes[g].num_children_
        ELSE IF parent[i] = g THEN first[i] + q * t.nodes[g].num_children_
        ELSE first[i]]

GrownFrom(t, t2, from, g, edges, slot) ==
    [i \in Nodes(t2) |->
        IF i \in NewLeaves(t, t2) THEN edges[slot[i]] ELSE IF i = g THEN edges[0] ELSE from[i]]

GrownTo(t, t2, to, g, edges, f, slot) ==
    [i \in Nodes(t2) |->
        IF i \in NewLeaves(t, t2) THEN edges[slot[i] + 1]
        ELSE IF i = g THEN edges[f] ELSE to[i]]

-----------------------------------------------------------------------------
\* All of that.
Grows(t, parent, first, from, to, t2, parent2, first2, from2, to2,
      g, edges, f, q, out, leaves, slot) ==
    /\ WellFormed(t, parent, first, from, to)
    /\ IsGrown(t, from, to, t2, g, edges, f, q, out, leaves, slot)
    /\ parent2 = GrownParent(t, t2, parent, g)
    /\ first2 = GrownFirst(t, t2, parent, first, g, q, slot)
    /\ from2 = GrownFrom(t, t2, from, g, edges, slot)
    /\ to2 = GrownTo(t, t2, to, g, edges, f, slot)

\* The nodes of a tree that grew.
GrownNodes(t, parent, first, from, to, t2, parent2, first2, from2, to2,
           g, edges, f, q, out, leaves, slot) ==
    /\ IsTree(t) /\ IsTree(t2) /\ HasRuns(t, parent, first)
    /\ parent \in [Nodes(t) -> Models(t)] /\ first \in [Nodes(t) -> Nat]
    /\ f \in Nat /\ f > 0 /\ q \in 0 .. f - 1
    /\ g = Root(t) /\ g \in Models(t) /\ g \in Nodes(t) /\ g # Superroot
    /\ parent[g] = Superroot /\ \A c \in Nodes(t) : parent[c] = Superroot => c = g
    /\ out \in Leaves(t) /\ leaves[q] = out
    /\ \A i \in NewLeaves(t, t2) :
           /\ i \in Leaves(t2) /\ i \in Nodes(t2) /\ i \notin DOMAIN t.nodes
           /\ slot[i] \in 0 .. f - 1 /\ slot[i] # q /\ leaves[slot[i]] = i
           /\ parent2[i] = g /\ first2[i] = slot[i] * t.nodes[g].num_children_
           /\ from2[i] = edges[slot[i]] /\ to2[i] = edges[slot[i] + 1]
    /\ \A s \in 0 .. f - 1 : s # q => leaves[s] \in NewLeaves(t, t2) /\ slot[leaves[s]] = s
    /\ \A i \in Nodes(t) :
           /\ i \in Nodes(t2) /\ i \notin NewLeaves(t, t2) /\ parent2[i] = parent[i]
           /\ first2[i] = IF parent[i] = g THEN first[i] + q * t.nodes[g].num_children_
                          ELSE first[i]
           /\ i # g => from2[i] = from[i] /\ to2[i] = to[i]
    /\ from2[g] = edges[0] /\ to2[g] = edges[f]
    /\ \A i : i \in Nodes(t2) <=> i \in Nodes(t) \/ i \in NewLeaves(t, t2)
    /\ \A i : i \in Leaves(t2) <=> i \in Leaves(t) \/ i \in NewLeaves(t, t2)
    /\ Models(t2) = Models(t)
    /\ \A i \in Nodes(t) : Repeats(t2.nodes[i]) = Repeats(t.nodes[i])
    /\ t.nodes[g].num_children_ \in Nat /\ t.nodes[g].num_children_ > 0

\* The nodes of a tree whose root grew, and their ghosts.
LEMMA GrownNodeFacts ==
    ASSUME NEW t, NEW parent, NEW first, NEW from, NEW to,
           NEW t2, NEW parent2, NEW first2, NEW from2, NEW to2,
           NEW g, NEW edges, NEW f, NEW q, NEW out, NEW leaves, NEW slot,
           Grows(t, parent, first, from, to, t2, parent2, first2, from2, to2,
                 g, edges, f, q, out, leaves, slot)
    PROVE  GrownNodes(t, parent, first, from, to, t2, parent2, first2, from2, to2,
                      g, edges, f, q, out, leaves, slot)
<1>1. /\ WellFormed(t, parent, first, from, to)
      /\ IsGrown(t, from, to, t2, g, edges, f, q, out, leaves, slot)
      /\ parent2 = GrownParent(t, t2, parent, g)
      /\ first2 = GrownFirst(t, t2, parent, first, g, q, slot)
      /\ from2 = GrownFrom(t, t2, from, g, edges, slot)
      /\ to2 = GrownTo(t, t2, to, g, edges, f, slot)
  BY DEF Grows
<1>2. /\ IsTree(t) /\ HasRuns(t, parent, first)
      /\ parent \in [Nodes(t) -> Models(t)] /\ first \in [Nodes(t) -> Nat]
  BY <1>1, WellFormedParts
<1>3. /\ IsTree(t2) /\ g = Root(t) /\ AreSlots(edges, f, q)
      /\ AreForSlots(t, t2, f, q, out, leaves, slot) /\ KeepsNodes(t, t2, g)
      /\ AddsLeaves(t, t2, g, edges, f, q, out, leaves)
      /\ IsOutermost(t, from, to, edges, f, q, out)
  BY <1>1 DEF IsGrown
<1>4. f \in Nat /\ f > 0 /\ q \in 0 .. f - 1
  BY <1>3 DEF AreSlots
<1>5. /\ g \in Nodes(t) /\ g \in DOMAIN t.nodes /\ g # Superroot
      /\ parent[g] = Superroot /\ \A c \in Nodes(t) : parent[c] = Superroot => c = g
  BY <1>2, <1>3, RootFacts DEF Nodes
<1>6. out \in Leaves(t) /\ ~t.nodes[g].is_leaf_ /\ leaves[q] = out
  BY <1>3 DEF IsOutermost, AreForSlots
<1>7. g \in Models(t)
  BY <1>5, <1>6 DEF Models, Leaves
<1>8. /\ DOMAIN t.nodes \subseteq DOMAIN t2.nodes
      /\ \A s \in 0 .. f - 1 : s # q => leaves[s] \in NewLeaves(t, t2) /\ slot[leaves[s]] = s
      /\ \A i \in NewLeaves(t, t2) :
             slot[i] \in 0 .. f - 1 /\ slot[i] # q /\ leaves[slot[i]] = i
  BY <1>3 DEF AreForSlots
<1>9. \A i \in NewLeaves(t, t2) : t2.nodes[i].is_leaf_
  BY <1>3, <1>8 DEF AddsLeaves
<1>10. /\ \A i : i \in NewLeaves(t, t2) <=> i \in DOMAIN t2.nodes /\ i \notin DOMAIN t.nodes
       /\ \A i : i \in Leaves(t) <=> i \in DOMAIN t.nodes /\ t.nodes[i].is_leaf_
       /\ \A i : i \in Models(t) <=> i \in DOMAIN t.nodes /\ ~t.nodes[i].is_leaf_
       /\ \A i : i \in Nodes(t) <=> i \in DOMAIN t.nodes /\ i # Superroot
       /\ \A i : i \in Leaves(t2) <=> i \in DOMAIN t2.nodes /\ t2.nodes[i].is_leaf_
       /\ \A i : i \in Models(t2) <=> i \in DOMAIN t2.nodes /\ ~t2.nodes[i].is_leaf_
       /\ \A i : i \in Nodes(t2) <=> i \in DOMAIN t2.nodes /\ i # Superroot
  BY DEF NewLeaves, Leaves, Models, Nodes
<1>11. \A i \in DOMAIN t.nodes :
           /\ t2.nodes[i].is_leaf_ = t.nodes[i].is_leaf_
           /\ t2.nodes[i].duplication_factor_ = t.nodes[i].duplication_factor_
  BY <1>3 DEF KeepsNodes
<1>12. Superroot \in DOMAIN t.nodes
  BY <1>2 DEF IsTree
<1>13. /\ \A i : i \in Nodes(t2) <=> i \in Nodes(t) \/ i \in NewLeaves(t, t2)
       /\ \A i : i \in Leaves(t2) <=> i \in Leaves(t) \/ i \in NewLeaves(t, t2)
       /\ Models(t2) = Models(t)
       /\ \A i \in Nodes(t) : i \notin NewLeaves(t, t2)
  <2>1. ASSUME NEW i PROVE i \in Nodes(t2) <=> i \in Nodes(t) \/ i \in NewLeaves(t, t2)
    BY <1>8, <1>10, <1>12
  <2>2. ASSUME NEW i PROVE i \in Leaves(t2) <=> i \in Leaves(t) \/ i \in NewLeaves(t, t2)
    BY <1>8, <1>9, <1>10, <1>11
  <2>3. ASSUME NEW i PROVE i \in Models(t2) <=> i \in Models(t)
    BY <1>8, <1>9, <1>10, <1>11
  <2> QED
    BY <1>10, <2>1, <2>2, <2>3
<1>14. \A i \in NewLeaves(t, t2) :
           /\ parent2[i] = g /\ first2[i] = slot[i] * t.nodes[g].num_children_
           /\ from2[i] = edges[slot[i]] /\ to2[i] = edges[slot[i] + 1]
  BY <1>1, <1>13 DEF GrownParent, GrownFirst, GrownFrom, GrownTo
<1>15. \A i \in Nodes(t) :
           /\ parent2[i] = parent[i]
           /\ first2[i] = IF parent[i] = g THEN first[i] + q * t.nodes[g].num_children_
                          ELSE first[i]
           /\ i # g => from2[i] = from[i] /\ to2[i] = to[i]
  BY <1>1, <1>13 DEF GrownParent, GrownFirst, GrownFrom, GrownTo
<1>16. from2[g] = edges[0] /\ to2[g] = edges[f]
  BY <1>1, <1>5, <1>13 DEF GrownFrom, GrownTo
<1>17. \A i \in Nodes(t) : Repeats(t2.nodes[i]) = Repeats(t.nodes[i])
  BY <1>10, <1>11 DEF Repeats
<1>18. t.nodes[g].num_children_ \in Nat /\ t.nodes[g].num_children_ > 0
  BY <1>2, <1>7, NodeFacts
<1>19. \A i \in NewLeaves(t, t2) : i \in Leaves(t2) /\ i \in Nodes(t2) /\ i \notin DOMAIN t.nodes
  BY <1>10, <1>13
<1>20. \A i \in Nodes(t) : i \in Nodes(t2) /\ i \notin NewLeaves(t, t2)
  BY <1>13
<1> QED
  BY <1>2, <1>3, <1>4, <1>5, <1>6, <1>7, <1>8, <1>13, <1>14, <1>15, <1>16, <1>17, <1>18,
     <1>19, <1>20 DEF GrownNodes

\* The runs of the old children are moved, those of new leaves fill the rest.
LEMMA GrownKeepsRuns ==
    ASSUME NEW t, NEW parent, NEW first, NEW from, NEW to,
           NEW t2, NEW parent2, NEW first2, NEW from2, NEW to2,
           NEW g, NEW edges, NEW f, NEW q, NEW out, NEW leaves, NEW slot,
           Grows(t, parent, first, from, to, t2, parent2, first2, from2, to2,
                 g, edges, f, q, out, leaves, slot)
    PROVE  HasRuns(t2, parent2, first2)
<1> DEFINE n == t.nodes[g].num_children_
<1>1. GrownNodes(t, parent, first, from, to, t2, parent2, first2, from2, to2,
                 g, edges, f, q, out, leaves, slot)
  BY GrownNodeFacts
<1>2. /\ IsTree(t) /\ IsTree(t2) /\ HasRuns(t, parent, first)
      /\ parent \in [Nodes(t) -> Models(t)] /\ first \in [Nodes(t) -> Nat]
      /\ f \in Nat /\ f > 0 /\ q \in 0 .. f - 1
      /\ g \in Models(t) /\ g # Superroot /\ g \in Nodes(t)
      /\ \A c \in Nodes(t) : parent[c] = Superroot => c = g
      /\ Models(t2) = Models(t) /\ n \in Nat /\ n > 0
  BY <1>1 DEF GrownNodes
<1>3. /\ KeepsNodes(t, t2, g) /\ GrowsRoot(t, t2, g, edges, f, q, leaves)
      /\ AddsLeaves(t, t2, g, edges, f, q, out, leaves)
  BY DEF Grows, IsGrown
<1>4. /\ t2.nodes[g].num_children_ = n * f
      /\ \E y \in Nat : f = 2^y
      /\ \A b \in 0 .. n * f - 1 :
             t2.nodes[g].children_[b] = IF b \div n = q THEN t.nodes[g].children_[b % n]
                                        ELSE leaves[b \div n]
  BY <1>3 DEF GrowsRoot
<1>5. /\ \A i \in Nodes(t) :
             /\ i \in Nodes(t2) /\ parent2[i] = parent[i]
             /\ first2[i] = IF parent[i] = g THEN first[i] + q * n ELSE first[i]
             /\ Repeats(t2.nodes[i]) = Repeats(t.nodes[i])
             /\ i \notin NewLeaves(t, t2)
      /\ \A i \in NewLeaves(t, t2) :
             /\ i \in Nodes(t2) /\ parent2[i] = g /\ first2[i] = slot[i] * n
             /\ slot[i] \in 0 .. f - 1 /\ slot[i] # q /\ leaves[slot[i]] = i
      /\ \A s \in 0 .. f - 1 : s # q => leaves[s] \in NewLeaves(t, t2) /\ slot[leaves[s]] = s
      /\ \A i \in Nodes(t2) : i \in Nodes(t) \/ i \in NewLeaves(t, t2)
  BY <1>1 DEF GrownNodes
<1>6. /\ \A i \in Models(t) : i # g =>
             /\ t2.nodes[i].num_children_ = t.nodes[i].num_children_
             /\ t2.nodes[i].children_ = t.nodes[i].children_
      /\ \A i \in Nodes(t) : t2.nodes[i].level_ = t.nodes[i].level_
      /\ t2.nodes[Superroot].level_ < t2.nodes[g].level_
  BY <1>3 DEF KeepsNodes, Nodes
<1>7. \A s \in 0 .. f - 1 : s # q =>
          /\ t2.nodes[leaves[s]].level_ > t2.nodes[g].level_
          /\ Repeats(t2.nodes[leaves[s]]) = n
  BY <1>3 DEF AddsLeaves
<1>8. \A c \in Nodes(t) : HasRun(t.nodes[parent[c]], c, t.nodes[c], first[c])
  BY <1>2 DEF HasRuns
<1>9. \A b \in 0 .. n - 1 : t.nodes[g].children_[b] \in Nodes(t)
                              /\ parent[t.nodes[g].children_[b]] = g
  BY <1>2 DEF HasRuns
<1>10. \A i \in Models(t) : \E x \in Nat : t.nodes[i].num_children_ = 2^x
  BY <1>2 DEF HasRuns
<1> DEFINE N(c) == t2.nodes[g].children_[c]
<1>11. \A i \in Models(t2) : \E x \in Nat : t2.nodes[i].num_children_ = 2^x
  <2>1. PICK x \in Nat : n = 2^x
    BY <1>2, <1>10
  <2>2. PICK y \in Nat : f = 2^y
    BY <1>4
  <2>3. n * f = 2^(x + y) /\ x + y \in Nat
    <3> HIDE DEF n
    <3>1. 2^(x + y) = 2^x * 2^y /\ x + y \in Nat
      BY PowerOfSum
    <3>2. n * f = 2^x * 2^y
      BY <2>1, <2>2
    <3> QED
      BY <3>1, <3>2
  <2> HIDE DEF n
  <2>4. \E z \in Nat : t2.nodes[g].num_children_ = 2^z
    BY <1>4, <2>3
  <2> QED
    BY <1>2, <1>6, <1>10, <2>4
<1>12. ASSUME NEW c \in Nodes(t), parent[c] # g
       PROVE  HasRun(t2.nodes[parent2[c]], c, t2.nodes[c], first2[c])
  <2> DEFINE p == parent[c]
  <2>1. /\ p \in Models(t) /\ p # g /\ parent2[c] = p /\ first2[c] = first[c]
        /\ Repeats(t2.nodes[c]) = Repeats(t.nodes[c])
        /\ t2.nodes[c].level_ = t.nodes[c].level_
        /\ t2.nodes[p].num_children_ = t.nodes[p].num_children_
        /\ t2.nodes[p].children_ = t.nodes[p].children_
    BY <1>2, <1>5, <1>6, <1>12
  <2>2. HasRun(t.nodes[p], c, t.nodes[c], first[c])
    BY <1>8
  <2>3. /\ t2.nodes[c].level_ \in Int /\ t2.nodes[p].level_ \in Int
        /\ t2.nodes[g].level_ \in Int
        /\ p = Superroot => c = g
        /\ p # Superroot => p \in Nodes(t)
    <3>1. c \in DOMAIN t2.nodes /\ p \in DOMAIN t2.nodes /\ g \in DOMAIN t2.nodes
      BY <1>2, <1>5, <2>1 DEF Nodes, Models
    <3>2. p = Superroot => c = g
      BY <1>2
    <3>3. p # Superroot => p \in Nodes(t)
      BY <2>1 DEF Models, Nodes
    <3> QED
      BY <1>2, <3>1, <3>2, <3>3, NodeFacts
  <2> HIDE DEF p
  <2>4. t2.nodes[c].level_ > t2.nodes[p].level_
    <3>1. CASE p = Superroot
      <4>1. c = g /\ t2.nodes[Superroot].level_ < t2.nodes[g].level_
        <5>1. c = g
          BY <2>3, <3>1
        <5>2. t2.nodes[Superroot].level_ < t2.nodes[g].level_
          BY <1>6
        <5> QED
          BY <5>1, <5>2
      <4>2. t2.nodes[Superroot].level_ \in Int
        BY <2>3, <3>1
      <4> QED
        BY <2>3, <3>1, <4>1, <4>2
    <3>2. CASE p # Superroot
      BY <1>6, <2>1, <2>2, <2>3, <3>2 DEF HasRun
    <3> QED
      BY <3>1, <3>2
  <2> QED
    BY <2>1, <2>2, <2>4 DEF HasRun
<1>13. ASSUME NEW c \in Nodes(t), parent[c] = g
       PROVE  HasRun(t2.nodes[parent2[c]], c, t2.nodes[c], first2[c])
  <2> DEFINE r == Repeats(t.nodes[c])
  <2>1. /\ parent2[c] = g /\ first2[c] = first[c] + q * n
        /\ Repeats(t2.nodes[c]) = r
        /\ t2.nodes[c].level_ = t.nodes[c].level_
        /\ t2.nodes[g].level_ = t.nodes[g].level_
    BY <1>2, <1>5, <1>6, <1>13
  <2>2. HasRun(t.nodes[g], c, t.nodes[c], first[c])
    BY <1>8, <1>13
  <2>3. t2.nodes[c].level_ > t2.nodes[g].level_
    BY <2>1, <2>2 DEF HasRun
  <2>4. /\ first[c] \in Nat /\ r \in Nat /\ r > 0 /\ first[c] % r = 0
        /\ first[c] + r <= n
        /\ \A b \in 0 .. n - 1 : t.nodes[g].children_[b] = c
                                     <=> first[c] <= b /\ b < first[c] + r
    BY <1>2, <1>13, RunFacts
  <2>5. PICK x \in Nat : n = 2^x
    BY <1>2, <1>10
  <2>6. \E k \in Nat : n = k * r
    <3> DEFINE d == t.nodes[c].duplication_factor_
    <3>1. d \in Nat /\ r = 2^d
      <4>1. c \in DOMAIN t.nodes
        BY DEF Nodes
      <4> QED
        BY <1>2, <4>1, NodeFacts DEF Repeats
    <3> HIDE DEF d, n, r
    <3>2. CASE d = x
      <4>1. n = 1 * r
        BY <2>4, <2>5, <3>1, <3>2
      <4> QED
        BY <4>1
    <3>3. CASE d < x
      <4>1. 2^x = 2^d * 2^(x - d) /\ 2^(x - d) >= 2
        BY <2>5, <3>1, <3>3, PowerGrows
      <4>2. x - d \in Nat
        BY <2>5, <3>1, <3>3
      <4>3. 2^(x - d) \in Nat
        BY <4>2, PowerFacts
      <4>4. n = 2^(x - d) * r
        BY <2>4, <2>5, <3>1, <4>1, <4>3
      <4> QED
        BY <4>3, <4>4
    <3>4. CASE x < d
      <4>1. 2^x < 2^d
        BY <2>5, <3>1, <3>4, PowerGrows
      <4> QED
        BY <1>2, <2>4, <2>5, <3>1, <4>1
    <3> QED
      BY <2>5, <3>1, <3>2, <3>3, <3>4
  <2>7. (first[c] + q * n) % r = 0
    <3>1. PICK k \in Nat : n = k * r
      BY <2>6
    <3> DEFINE a == first[c]
               e == a \div r
    <3> HIDE DEF r, n
    <3>2. e \in Int /\ a = e * r + (a % r) /\ a % r = 0
      BY <2>4, Remainders
    <3> HIDE DEF a, e
    <3>3. a = e * r
      BY <2>4, <3>2
    <3>4. q \in Int /\ q * k \in Int
      BY <1>2
    <3>5. a + q * n = (e + q * k) * r
      BY <1>2, <2>4, <3>1, <3>2, <3>3, <3>4
    <3>6. a + q * n = (e + q * k) * r + 0 /\ e + q * k \in Int /\ a + q * n \in Int
          /\ 0 \in 0 .. r - 1
      BY <1>2, <2>4, <3>2, <3>4, <3>5
    <3> QED
      BY <2>4, <3>6, Remainders DEF a
  <2>8. q * n \in Nat /\ q * n + n <= n * f
    <3>1. 0 \in 0 .. n * f - 1
      BY <1>2, Products
    <3> HIDE DEF n
    <3> QED
      BY <1>2, <3>1, GroupOf
  <2>9. ASSUME NEW b \in 0 .. n * f - 1
        PROVE  N(b) = c <=> first[c] + q * n <= b /\ b < first[c] + q * n + r
    <3> DEFINE u == b \div n
               v == b % n
    <3>0. n * f \in Nat /\ b \in Int
      <4> HIDE DEF n
      <4> QED
        BY <1>2
    <3>1. /\ u \in 0 .. f - 1 /\ v \in 0 .. n - 1
          /\ u = q <=> q * n <= b /\ b < q * n + n
          /\ u = q => v = b - q * n
      <4> HIDE DEF n
      <4>1. u \in 0 .. f - 1 /\ v \in 0 .. n - 1
        BY <1>2, Groups
      <4>2. /\ u = q <=> q * n <= b /\ b < q * n + n
            /\ u = q => v = b - q * n
        BY <1>2, GroupOf
      <4> QED
        BY <4>1, <4>2
    <3>2. N(b) = IF u = q THEN t.nodes[g].children_[v] ELSE leaves[u]
      BY <1>4
    <3> HIDE DEF u, v, n, N, r
    <3>3. CASE u = q
      <4>1. N(b) = c <=> first[c] <= v /\ v < first[c] + r
        BY <2>4, <3>1, <3>2, <3>3 DEF n, r
      <4> QED
        BY <2>4, <2>8, <3>1, <3>3, <4>1
    <3>4. CASE u # q
      <4>1. N(b) # c
        BY <1>5, <3>1, <3>2, <3>4
      <4> DEFINE z == q * n
      <4>2. ~(z <= b /\ b < z + n) /\ z \in Nat
        BY <2>8, <3>1, <3>4
      <4>3. first[c] + r <= n /\ n \in Nat /\ first[c] \in Nat /\ r \in Nat
        BY <1>2, <2>4 DEF n, r
      <4> HIDE DEF z
      <4>4. ~(first[c] + z <= b /\ b < first[c] + z + r)
        BY <3>0, <4>2, <4>3
      <4> QED
        BY <4>1, <4>4 DEF z
    <3> QED
      BY <3>3, <3>4
  <2>10. first[c] + q * n + r <= n * f
    <3> HIDE DEF n, r
    <3>1. n * f \in Int
      BY <1>2
    <3> QED
      BY <1>2, <2>4, <2>8, <3>1
  <2> HIDE DEF n, r
  <2> QED
    BY <1>4, <2>1, <2>3, <2>7, <2>9, <2>10 DEF HasRun
<1>14. ASSUME NEW c \in NewLeaves(t, t2)
       PROVE  HasRun(t2.nodes[parent2[c]], c, t2.nodes[c], first2[c])
  <2> DEFINE s == slot[c]
  <2>1. /\ s \in 0 .. f - 1 /\ s # q /\ leaves[s] = c /\ parent2[c] = g /\ first2[c] = s * n
    BY <1>5
  <2>2. t2.nodes[c].level_ > t2.nodes[g].level_ /\ Repeats(t2.nodes[c]) = n
    BY <1>7, <2>1
  <2> HIDE DEF s
  <2>3. s * n \in Nat /\ s * n + n <= n * f /\ (s * n) % n = 0
    <3>1. 0 \in 0 .. n * f - 1 /\ s \in Nat
      BY <1>2, <2>1, Products
    <3> HIDE DEF n
    <3> QED
      BY <1>2, <2>1, <3>1, GroupOf, DivisionIsExact
  <2>4. ASSUME NEW b \in 0 .. n * f - 1
        PROVE  N(b) = c <=> s * n <= b /\ b < s * n + n
    <3> DEFINE u == b \div n
               v == b % n
    <3>1. /\ u \in 0 .. f - 1 /\ v \in 0 .. n - 1
          /\ u = s <=> s * n <= b /\ b < s * n + n
      BY <1>2, <2>1, Groups, GroupOf
    <3>2. N(b) = IF u = q THEN t.nodes[g].children_[v] ELSE leaves[u]
      BY <1>4
    <3>3. u = q => t.nodes[g].children_[v] \in Nodes(t)
      BY <1>9, <3>1
    <3> HIDE DEF u, v, n, N
    <3>4. N(b) = c <=> u = s
      <4>1. CASE u = q
        BY <1>5, <2>1, <3>2, <3>3, <4>1
      <4>2. CASE u # q
        BY <1>5, <2>1, <3>1, <3>2, <4>2
      <4> QED
        BY <4>1, <4>2
    <3> QED
      BY <3>1, <3>4
  <2> HIDE DEF n
  <2> QED
    BY <1>4, <2>1, <2>2, <2>3, <2>4 DEF HasRun
<1>15. ASSUME NEW i \in Models(t2), NEW b \in 0 .. t2.nodes[i].num_children_ - 1
       PROVE  /\ t2.nodes[i].children_[b] \in Nodes(t2)
              /\ parent2[t2.nodes[i].children_[b]] = i
  <2>1. CASE i # g
    <3>1. i \in Models(t) /\ b \in 0 .. t.nodes[i].num_children_ - 1
          /\ t2.nodes[i].children_ = t.nodes[i].children_
      BY <1>2, <1>6, <2>1
    <3>2. t.nodes[i].children_[b] \in Nodes(t) /\ parent[t.nodes[i].children_[b]] = i
      BY <1>2, <3>1 DEF HasRuns
    <3> QED
      BY <1>5, <3>1, <3>2
  <2>2. CASE i = g
    <3> DEFINE u == b \div n
               v == b % n
    <3>1. b \in 0 .. n * f - 1
      BY <1>4, <2>2
    <3>2. u \in 0 .. f - 1 /\ v \in 0 .. n - 1
      BY <1>2, <3>1, Groups
    <3>3. N(b) = IF u = q THEN t.nodes[g].children_[v] ELSE leaves[u]
      BY <1>4, <3>1
    <3>4. u = q => t.nodes[g].children_[v] \in Nodes(t)
                   /\ parent[t.nodes[g].children_[v]] = g
      BY <1>9, <3>2
    <3> HIDE DEF u, v, n
    <3> QED
      BY <1>5, <2>2, <3>2, <3>3, <3>4
  <2> QED
    BY <2>1, <2>2
<1>16. ASSUME NEW c \in Nodes(t2)
       PROVE  HasRun(t2.nodes[parent2[c]], c, t2.nodes[c], first2[c])
  BY <1>5, <1>12, <1>13, <1>14
<1> QED
  BY <1>11, <1>15, <1>16 DEF HasRuns

-----------------------------------------------------------------------------
\* The slots of a domain that grew, and what lies in which.
GrownSlots(t, from, to, t2, from2, to2, edges, f, q, out) ==
    /\ f \in Nat /\ f > 0 /\ q \in 0 .. f - 1
    /\ \A s \in 0 .. f : edges[s] \in Int
    /\ \A s, u \in 0 .. f : s < u => edges[s] < edges[u]
    /\ \A s \in 0 .. f - 1 : \A u \in 0 .. f - 1 : s < u => edges[s + 1] <= edges[u]
    /\ \A s \in 0 .. f - 1 : /\ edges[0] <= edges[s] /\ edges[s] < edges[s + 1]
                             /\ edges[s + 1] <= edges[f]
                             /\ edges[s] \in Int /\ edges[s + 1] \in Int
    /\ edges[q] = t.key_domain_min_ /\ edges[q + 1] = t.key_domain_max_
    /\ t2.key_domain_min_ = edges[0] /\ t2.key_domain_max_ = edges[f]
    /\ \A i \in Nodes(t) : /\ from[i] \in Int /\ to[i] \in Int
                           /\ t.key_domain_min_ <= from[i] /\ from[i] < to[i]
                           /\ to[i] <= t.key_domain_max_
    /\ out \in Nodes(t)
    /\ q > 0 => from[out] = t.key_domain_min_
    /\ q < f - 1 => to[out] = t.key_domain_max_
    /\ t.key_domain_min_ \in Int /\ t.key_domain_max_ \in Int
    /\ t.key_domain_min_ < t.key_domain_max_

\* The slots of a domain that grew lie one after the other.
LEMMA GrownSlotFacts ==
    ASSUME NEW t, NEW parent, NEW first, NEW from, NEW to,
           NEW t2, NEW parent2, NEW first2, NEW from2, NEW to2,
           NEW g, NEW edges, NEW f, NEW q, NEW out, NEW leaves, NEW slot,
           Grows(t, parent, first, from, to, t2, parent2, first2, from2, to2,
                 g, edges, f, q, out, leaves, slot)
    PROVE  GrownSlots(t, from, to, t2, from2, to2, edges, f, q, out)
<1>1. /\ WellFormed(t, parent, first, from, to)
      /\ AreSlots(edges, f, q) /\ GrowsRoot(t, t2, g, edges, f, q, leaves)
      /\ IsOutermost(t, from, to, edges, f, q, out)
  BY DEF Grows, IsGrown
<1>2. /\ f \in Nat /\ f > 0 /\ q \in 0 .. f - 1
      /\ \A s \in 0 .. f : edges[s] \in Int
      /\ \A s, u \in 0 .. f : s < u => edges[s] < edges[u]
  BY <1>1 DEF AreSlots
<1>3. t2.key_domain_min_ = edges[0] /\ t2.key_domain_max_ = edges[f]
  BY <1>1 DEF GrowsRoot
<1>4. /\ out \in Leaves(t) /\ ~t.nodes[Root(t)].is_leaf_
      /\ q > 0 => from[out] = t.key_domain_min_
      /\ q < f - 1 => to[out] = t.key_domain_max_
      /\ edges[q] = t.key_domain_min_ /\ edges[q + 1] = t.key_domain_max_
  BY <1>1 DEF IsOutermost
<1>5. /\ \A i \in Nodes(t) : /\ from[i] \in Int /\ to[i] \in Int
                             /\ t.key_domain_min_ <= from[i] /\ from[i] < to[i]
                             /\ to[i] <= t.key_domain_max_
      /\ t.key_domain_min_ \in Int /\ t.key_domain_max_ \in Int
      /\ t.key_domain_min_ < t.key_domain_max_
  BY <1>1, <1>4, RegionFacts
<1>6. ASSUME NEW s \in 0 .. f - 1
      PROVE  /\ edges[0] <= edges[s] /\ edges[s] < edges[s + 1]
             /\ edges[s + 1] <= edges[f]
             /\ edges[s] \in Int /\ edges[s + 1] \in Int
             /\ \A u \in 0 .. f - 1 : s < u => edges[s + 1] <= edges[u]
  <2>1. 0 \in 0 .. f /\ s \in 0 .. f /\ s + 1 \in 0 .. f /\ f \in 0 .. f /\ s < s + 1
    BY <1>2
  <2>2. edges[0] <= edges[s]
    BY <1>2, <2>1
  <2>3. edges[s + 1] <= edges[f]
    BY <1>2, <2>1
  <2>4. ASSUME NEW u \in 0 .. f - 1, s < u PROVE edges[s + 1] <= edges[u]
    <3>1. u \in 0 .. f /\ (s + 1 = u \/ s + 1 < u)
      BY <1>2, <2>4
    <3> QED
      BY <1>2, <2>1, <3>1
  <2> QED
    BY <1>2, <2>1, <2>2, <2>3, <2>4
<1>7. out \in Nodes(t)
  BY <1>1, <1>4, WellFormedParts, RunFacts
<1> QED
  BY <1>2, <1>3, <1>4, <1>5, <1>6, <1>7 DEF GrownSlots

\* Nodes have the regions that their pointers say, and leaves are apart.
LEMMA GrownKeepsRegions ==
    ASSUME NEW t, NEW parent, NEW first, NEW from, NEW to,
           NEW t2, NEW parent2, NEW first2, NEW from2, NEW to2,
           NEW g, NEW edges, NEW f, NEW q, NEW out, NEW leaves, NEW slot,
           Grows(t, parent, first, from, to, t2, parent2, first2, from2, to2,
                 g, edges, f, q, out, leaves, slot)
    PROVE  /\ AreGhosts(t2, parent2, first2, from2, to2)
           /\ HasRegions(t2, parent2, first2, from2, to2)
           /\ HasDomain(t2, from2, to2) /\ AreApart(t2, from2, to2)
<1> DEFINE n == t.nodes[g].num_children_
<1>1. GrownNodes(t, parent, first, from, to, t2, parent2, first2, from2, to2,
                 g, edges, f, q, out, leaves, slot)
  BY GrownNodeFacts
<1>2. /\ IsTree(t) /\ IsTree(t2) /\ HasRuns(t, parent, first)
      /\ parent \in [Nodes(t) -> Models(t)] /\ first \in [Nodes(t) -> Nat]
      /\ g \in Models(t) /\ g # Superroot /\ g \in Nodes(t) /\ parent[g] = Superroot
      /\ \A c \in Nodes(t) : parent[c] = Superroot => c = g
      /\ Models(t2) = Models(t) /\ n \in Nat /\ n > 0
      /\ \A i : i \in Leaves(t2) <=> i \in Leaves(t) \/ i \in NewLeaves(t, t2)
  BY <1>1 DEF GrownNodes
<1>3. /\ \A i \in Nodes(t) :
             /\ i \in Nodes(t2) /\ parent2[i] = parent[i]
             /\ first2[i] = IF parent[i] = g THEN first[i] + q * n ELSE first[i]
             /\ Repeats(t2.nodes[i]) = Repeats(t.nodes[i])
             /\ i \notin NewLeaves(t, t2)
             /\ i # g => from2[i] = from[i] /\ to2[i] = to[i]
      /\ \A i \in NewLeaves(t, t2) :
             /\ i \in Nodes(t2) /\ parent2[i] = g /\ first2[i] = slot[i] * n
             /\ slot[i] \in 0 .. f - 1 /\ slot[i] # q /\ leaves[slot[i]] = i
             /\ from2[i] = edges[slot[i]] /\ to2[i] = edges[slot[i] + 1]
      /\ \A i \in Nodes(t2) : i \in Nodes(t) \/ i \in NewLeaves(t, t2)
      /\ from2[g] = edges[0] /\ to2[g] = edges[f]
  BY <1>1 DEF GrownNodes
<1>4. GrownSlots(t, from, to, t2, from2, to2, edges, f, q, out)
  BY GrownSlotFacts
<1>5. /\ f \in Nat /\ f > 0 /\ q \in 0 .. f - 1
      /\ \A s \in 0 .. f - 1 : \A u \in 0 .. f - 1 : s < u => edges[s + 1] <= edges[u]
      /\ \A s \in 0 .. f - 1 : /\ edges[0] <= edges[s] /\ edges[s] < edges[s + 1]
                               /\ edges[s + 1] <= edges[f]
                               /\ edges[s] \in Int /\ edges[s + 1] \in Int
      /\ edges[q] = t.key_domain_min_ /\ edges[q + 1] = t.key_domain_max_
      /\ t2.key_domain_min_ = edges[0] /\ t2.key_domain_max_ = edges[f]
      /\ \A i \in Nodes(t) : /\ from[i] \in Int /\ to[i] \in Int
                             /\ t.key_domain_min_ <= from[i] /\ from[i] < to[i]
                             /\ to[i] <= t.key_domain_max_
  BY <1>4 DEF GrownSlots
<1>6. /\ WellFormed(t, parent, first, from, to)
      /\ KeepsNodes(t, t2, g) /\ GrowsRoot(t, t2, g, edges, f, q, leaves)
      /\ AddsLeaves(t, t2, g, edges, f, q, out, leaves)
      /\ ~t.nodes[Root(t)].is_leaf_
      /\ parent2 = GrownParent(t, t2, parent, g)
      /\ first2 = GrownFirst(t, t2, parent, first, g, q, slot)
      /\ from2 = GrownFrom(t, t2, from, g, edges, slot)
      /\ to2 = GrownTo(t, t2, to, g, edges, f, slot)
  BY DEF Grows, IsGrown, IsOutermost
<1>7. edges[0] \in Int /\ edges[f] \in Int
  BY <1>4 DEF GrownSlots
<1>8. \A i \in Nodes(t2) : /\ parent2[i] \in Models(t2) /\ first2[i] \in Nat
                           /\ from2[i] \in Int /\ to2[i] \in Int
  <2>1. ASSUME NEW i \in Nodes(t2)
        PROVE  parent2[i] \in Models(t2) /\ first2[i] \in Nat
               /\ from2[i] \in Int /\ to2[i] \in Int
    <3>1. CASE i \in Nodes(t)
      <4>1. first[i] \in Nat /\ parent[i] \in Models(t)
        BY <1>2, <3>1
      <4>2. q * n \in Nat
        <5> HIDE DEF n
        <5> QED
          BY <1>2, <1>5
      <4> HIDE DEF n
      <4> QED
        BY <1>2, <1>3, <1>5, <1>7, <3>1, <4>1, <4>2
    <3>2. CASE i \in NewLeaves(t, t2)
      <4> DEFINE s == slot[i]
      <4>1. /\ parent2[i] = g /\ first2[i] = s * n /\ s \in 0 .. f - 1
            /\ from2[i] = edges[s] /\ to2[i] = edges[s + 1]
        BY <1>3, <3>2
      <4> HIDE DEF s, n
      <4>2. s * n \in Nat
        BY <1>2, <1>5, <4>1
      <4> QED
        BY <1>2, <1>5, <4>1, <4>2
    <3> QED
      BY <1>3, <3>1, <3>2
  <2> QED
    BY <2>1
<1>9. AreGhosts(t2, parent2, first2, from2, to2)
  <2>1. /\ parent2 = [i \in Nodes(t2) |-> parent2[i]]
        /\ first2 = [i \in Nodes(t2) |-> first2[i]]
        /\ from2 = [i \in Nodes(t2) |-> from2[i]]
        /\ to2 = [i \in Nodes(t2) |-> to2[i]]
    BY <1>6 DEF GrownParent, GrownFirst, GrownFrom, GrownTo
  <2> QED
    BY <1>8, <2>1 DEF AreGhosts
<1>10. /\ \A i \in Models(t) : i # g => \A b : Edge(t2.nodes[i], b) = Edge(t.nodes[i], b)
       /\ \A i \in Models(t) : i # g =>
              t2.nodes[i].num_children_ = t.nodes[i].num_children_
  BY <1>6 DEF KeepsNodes, Edge
<1>11. /\ \A b \in Int : Edge(t2.nodes[g], b + q * n) = Edge(t.nodes[g], b)
       /\ \A s \in 0 .. f : Edge(t2.nodes[g], s * n) = edges[s]
       /\ t2.nodes[g].num_children_ = n * f
  BY <1>6 DEF GrowsRoot
<1>12. /\ \A c \in Nodes(t) : parent[c] # Superroot =>
              /\ from[c] = Edge(t.nodes[parent[c]], first[c])
              /\ to[c] = Edge(t.nodes[parent[c]], first[c] + Repeats(t.nodes[c]))
       /\ \A i \in Models(t) : i # Superroot =>
              /\ from[i] = Edge(t.nodes[i], 0)
              /\ to[i] = Edge(t.nodes[i], t.nodes[i].num_children_)
  BY <1>6, RegionFacts
<1>13. HasRegions(t2, parent2, first2, from2, to2)
  <2>1. ASSUME NEW c \in Nodes(t2)
        PROVE  IF parent2[c] = Superroot
               THEN from2[c] = t2.key_domain_min_ /\ to2[c] = t2.key_domain_max_
               ELSE /\ from2[c] = Edge(t2.nodes[parent2[c]], first2[c])
                    /\ to2[c] = Edge(t2.nodes[parent2[c]], first2[c] + Repeats(t2.nodes[c]))
    <3>1. CASE c = g
      BY <1>2, <1>3, <1>5, <3>1
    <3>2. CASE c \in Nodes(t) /\ c # g /\ parent[c] # g
      <4> DEFINE p == parent[c]
      <4>1. /\ p \in Models(t) /\ p # g /\ p # Superroot /\ parent2[c] = p
            /\ first2[c] = first[c]
            /\ Repeats(t2.nodes[c]) = Repeats(t.nodes[c])
            /\ from2[c] = from[c] /\ to2[c] = to[c]
        BY <1>2, <1>3, <3>2
      <4>2. from[c] = Edge(t.nodes[p], first[c])
            /\ to[c] = Edge(t.nodes[p], first[c] + Repeats(t.nodes[c]))
        BY <1>12, <3>2, <4>1
      <4> HIDE DEF p
      <4> QED
        BY <1>10, <4>1, <4>2
    <3>3. CASE c \in Nodes(t) /\ c # g /\ parent[c] = g
      <4> DEFINE r == Repeats(t.nodes[c])
                 z == q * n
                 E(b) == Edge(t2.nodes[g], b)
      <4>1. /\ parent2[c] = g /\ first2[c] = first[c] + z
            /\ Repeats(t2.nodes[c]) = r /\ from2[c] = from[c] /\ to2[c] = to[c]
        BY <1>3, <3>3
      <4>2. from[c] = Edge(t.nodes[g], first[c]) /\ to[c] = Edge(t.nodes[g], first[c] + r)
        BY <1>2, <1>12, <3>3
      <4>3. first[c] \in Nat /\ r \in Nat
        BY <1>2, <3>3, RunFacts
      <4>4. \A b \in Int : E(b + z) = Edge(t.nodes[g], b)
        BY <1>11
      <4>5. z \in Int
        <5> HIDE DEF n
        <5> QED
          BY <1>2, <1>5
      <4> HIDE DEF r, z, E
      <4>6. from2[c] = E(first2[c])
        BY <4>1, <4>2, <4>3, <4>4
      <4>7. first2[c] + r = (first[c] + r) + z
        BY <4>1, <4>3, <4>5
      <4>8. to2[c] = E(first2[c] + r)
        BY <4>1, <4>2, <4>3, <4>4, <4>7
      <4> QED
        BY <1>2, <4>1, <4>6, <4>8 DEF E
    <3>4. CASE c \in NewLeaves(t, t2)
      <4> DEFINE s == slot[c]
      <4>1. /\ parent2[c] = g /\ first2[c] = s * n /\ s \in 0 .. f - 1 /\ s # q
            /\ leaves[s] = c /\ from2[c] = edges[s] /\ to2[c] = edges[s + 1]
        BY <1>3, <3>4
      <4> HIDE DEF s
      <4>2. Repeats(t2.nodes[c]) = n
        BY <1>6, <4>1 DEF AddsLeaves
      <4>3. s \in 0 .. f /\ s + 1 \in 0 .. f
        BY <1>5, <4>1
      <4>4. Edge(t2.nodes[g], s * n) = edges[s] /\ Edge(t2.nodes[g], (s + 1) * n) = edges[s + 1]
        BY <1>11, <4>3
      <4>5. (s + 1) * n = s * n + n
        <5> HIDE DEF n
        <5> QED
          BY <1>2, <4>3
      <4> HIDE DEF n
      <4> QED
        BY <1>2, <4>1, <4>2, <4>4, <4>5
    <3> QED
      BY <1>3, <3>1, <3>2, <3>3, <3>4
  <2>2. ASSUME NEW i \in Models(t2) \ {Superroot}
        PROVE  /\ from2[i] = Edge(t2.nodes[i], 0)
               /\ to2[i] = Edge(t2.nodes[i], t2.nodes[i].num_children_)
    <3>1. CASE i = g
      <4>1. Edge(t2.nodes[g], 0 * n) = edges[0] /\ Edge(t2.nodes[g], f * n) = edges[f]
        BY <1>5, <1>11
      <4>2. 0 * n = 0 /\ f * n = n * f
        <5> HIDE DEF n
        <5> QED
          BY <1>2, <1>5
      <4> HIDE DEF n
      <4> QED
        BY <1>3, <1>11, <3>1, <4>1, <4>2
    <3>2. CASE i # g
      <4>1. i \in Models(t) /\ i \in Nodes(t)
        BY <1>2 DEF Models, Nodes
      <4>2. from[i] = Edge(t.nodes[i], 0) /\ to[i] = Edge(t.nodes[i], t.nodes[i].num_children_)
        BY <1>12, <4>1
      <4> QED
        BY <1>3, <1>10, <3>2, <4>1, <4>2
    <3> QED
      BY <3>1, <3>2
  <2> QED
    BY <2>1, <2>2 DEF HasRegions
<1>14. ASSUME NEW c \in Nodes(t2)
       PROVE  /\ t2.key_domain_min_ <= from2[c] /\ from2[c] < to2[c]
              /\ to2[c] <= t2.key_domain_max_
  <2>1. CASE c = g
    <3>1. edges[0] < edges[f]
      BY <1>5, <1>7
    <3> QED
      BY <1>3, <1>5, <1>7, <2>1, <3>1
  <2>2. CASE c \in Nodes(t) /\ c # g
    <3>1. /\ from2[c] = from[c] /\ to2[c] = to[c] /\ from[c] \in Int /\ to[c] \in Int
          /\ edges[q] <= from[c] /\ from[c] < to[c] /\ to[c] <= edges[q + 1]
      BY <1>3, <1>5, <2>2
    <3>2. /\ edges[0] <= edges[q] /\ edges[q + 1] <= edges[f]
          /\ edges[q] \in Int /\ edges[q + 1] \in Int
      BY <1>5
    <3> QED
      BY <1>5, <1>7, <3>1, <3>2
  <2>3. CASE c \in NewLeaves(t, t2)
    BY <1>3, <1>5, <2>3
  <2> QED
    BY <1>3, <2>1, <2>2, <2>3
<1>15. HasDomain(t2, from2, to2)
  BY <1>14 DEF HasDomain
<1>16. AreApart(t2, from2, to2)
  <2>1. ASSUME NEW i \in Leaves(t), NEW j \in Leaves(t), i # j
        PROVE  to2[i] <= from2[j] \/ to2[j] <= from2[i]
    <3>1. i \in Nodes(t) /\ j \in Nodes(t) /\ i # g /\ j # g
      BY <1>2, RunFacts DEF Models
    <3>2. to[i] <= from[j] \/ to[j] <= from[i]
      BY <1>6, <2>1 DEF WellFormed, AreApart
    <3> QED
      BY <1>3, <3>1, <3>2
  <2>2. ASSUME NEW i \in Leaves(t), NEW j \in NewLeaves(t, t2)
        PROVE  to2[i] <= from2[j] \/ to2[j] <= from2[i]
    <3> DEFINE s == slot[j]
    <3>1. i \in Nodes(t) /\ i # g
      BY <1>2, RunFacts DEF Models
    <3>2. /\ from2[i] = from[i] /\ to2[i] = to[i] /\ from[i] \in Int /\ to[i] \in Int
          /\ edges[q] <= from[i] /\ to[i] <= edges[q + 1]
      BY <1>3, <1>5, <3>1
    <3>3. s \in 0 .. f - 1 /\ s # q /\ from2[j] = edges[s] /\ to2[j] = edges[s + 1]
      BY <1>3
    <3> HIDE DEF s
    <3>4. /\ edges[q] \in Int /\ edges[q + 1] \in Int
          /\ edges[s] \in Int /\ edges[s + 1] \in Int
      BY <1>5, <3>3
    <3>5. CASE s < q
      <4>1. edges[s + 1] <= edges[q]
        BY <1>5, <3>3, <3>5
      <4> QED
        BY <3>2, <3>3, <3>4, <4>1
    <3>6. CASE q < s
      <4>1. edges[q + 1] <= edges[s]
        BY <1>5, <3>3, <3>6
      <4> QED
        BY <3>2, <3>3, <3>4, <4>1
    <3> QED
      BY <1>5, <3>3, <3>5, <3>6
  <2>3. ASSUME NEW i \in NewLeaves(t, t2), NEW j \in NewLeaves(t, t2), i # j
        PROVE  to2[i] <= from2[j] \/ to2[j] <= from2[i]
    <3> DEFINE s == slot[i]
               u == slot[j]
    <3>1. /\ s \in 0 .. f - 1 /\ u \in 0 .. f - 1 /\ leaves[s] = i /\ leaves[u] = j
          /\ from2[i] = edges[s] /\ to2[i] = edges[s + 1]
          /\ from2[j] = edges[u] /\ to2[j] = edges[u + 1]
      BY <1>3
    <3> HIDE DEF s, u
    <3>2. s < u \/ u < s
      BY <1>5, <2>3, <3>1
    <3> QED
      BY <1>5, <3>1, <3>2
  <2>4. \A i, j \in Leaves(t2) : i # j => to2[i] <= from2[j] \/ to2[j] <= from2[i]
    <3>1. ASSUME NEW i \in Leaves(t2), NEW j \in Leaves(t2), i # j
          PROVE  to2[i] <= from2[j] \/ to2[j] <= from2[i]
      <4>1. (i \in Leaves(t) \/ i \in NewLeaves(t, t2))
            /\ (j \in Leaves(t) \/ j \in NewLeaves(t, t2))
        BY <1>2
      <4> QED
        BY <2>1, <2>2, <2>3, <3>1, <4>1
    <3> QED
      BY <3>1
  <2> QED
    BY <2>4 DEF AreApart
<1> QED
  BY <1>9, <1>13, <1>15, <1>16

-----------------------------------------------------------------------------
\* The new leaves are linked in between.
LEMMA GrownKeepsChain ==
    ASSUME NEW t, NEW parent, NEW first, NEW from, NEW to,
           NEW t2, NEW parent2, NEW first2, NEW from2, NEW to2,
           NEW g, NEW edges, NEW f, NEW q, NEW out, NEW leaves, NEW slot,
           Grows(t, parent, first, from, to, t2, parent2, first2, from2, to2,
                 g, edges, f, q, out, leaves, slot)
    PROVE  IsChained(t2, from2, to2)
<1>1. GrownNodes(t, parent, first, from, to, t2, parent2, first2, from2, to2,
                 g, edges, f, q, out, leaves, slot)
  BY GrownNodeFacts
<1>2. /\ IsTree(t) /\ HasRuns(t, parent, first)
      /\ parent \in [Nodes(t) -> Models(t)] /\ first \in [Nodes(t) -> Nat]
      /\ g \in Models(t)
      /\ out \in Leaves(t) /\ leaves[q] = out
      /\ \A i : i \in Leaves(t2) <=> i \in Leaves(t) \/ i \in NewLeaves(t, t2)
      /\ \A s \in 0 .. f - 1 : s # q => leaves[s] \in NewLeaves(t, t2) /\ slot[leaves[s]] = s
      /\ \A i \in Nodes(t) : i \notin NewLeaves(t, t2)
  BY <1>1 DEF GrownNodes
<1>3. /\ \A i \in Nodes(t) : i # g => from2[i] = from[i] /\ to2[i] = to[i]
      /\ \A i \in NewLeaves(t, t2) :
             /\ slot[i] \in 0 .. f - 1 /\ slot[i] # q /\ leaves[slot[i]] = i
             /\ from2[i] = edges[slot[i]] /\ to2[i] = edges[slot[i] + 1]
  BY <1>1 DEF GrownNodes
<1>4. GrownSlots(t, from, to, t2, from2, to2, edges, f, q, out)
  BY GrownSlotFacts
<1>5. /\ f \in Nat /\ f > 0 /\ q \in 0 .. f - 1
      /\ edges[q] = t.key_domain_min_ /\ edges[q + 1] = t.key_domain_max_
      /\ t2.key_domain_min_ = edges[0] /\ t2.key_domain_max_ = edges[f]
      /\ q > 0 => from[out] = t.key_domain_min_
      /\ q < f - 1 => to[out] = t.key_domain_max_
      /\ \A i \in Nodes(t) : /\ from[i] \in Int /\ to[i] \in Int
                             /\ t.key_domain_min_ <= from[i] /\ from[i] < to[i]
                             /\ to[i] <= t.key_domain_max_
      /\ t.key_domain_min_ \in Int /\ t.key_domain_max_ \in Int
  BY <1>4 DEF GrownSlots
<1>6. /\ AddsLeaves(t, t2, g, edges, f, q, out, leaves)
      /\ WellFormed(t, parent, first, from, to)
  BY DEF Grows, IsGrown
<1>7. IsChained(t, from, to) /\ AreApart(t, from, to)
  BY <1>6 DEF WellFormed
<1>8. \A i \in Leaves(t) : i \in Nodes(t) /\ i # g /\ i \notin NewLeaves(t, t2)
  BY <1>2, RunFacts DEF Models
<1>9. \A i \in Leaves(t) : from2[i] = from[i] /\ to2[i] = to[i]
  BY <1>3, <1>8
<1> DEFINE Follower(i) == t2.nodes[i].next_leaf_
           Prev(i) == t2.nodes[i].prev_leaf_
           Chains(i) ==
               /\ \/ Follower(i) = NoNode /\ to2[i] = t2.key_domain_max_
                  \/ Follower(i) \in Leaves(t2) \ {i} /\ from2[Follower(i)] = to2[i]
               /\ \/ Prev(i) = NoNode /\ from2[i] = t2.key_domain_min_
                  \/ Prev(i) \in Leaves(t2) \ {i} /\ to2[Prev(i)] = from2[i]
\* The leaf for each slot, by the ends of its region.
<1>10. /\ \A s \in 0 .. f - 1 : leaves[s] \in Leaves(t2)
       /\ \A s \in 0 .. f - 1 : s > 0 => from2[leaves[s]] = edges[s]
       /\ \A s \in 0 .. f - 1 : s < f - 1 => to2[leaves[s]] = edges[s + 1]
       /\ \A s \in 0 .. f - 1 : \A u \in 0 .. f - 1 : s # u => leaves[s] # leaves[u]
  <2>1. ASSUME NEW s \in 0 .. f - 1
        PROVE  /\ leaves[s] \in Leaves(t2)
               /\ s > 0 => from2[leaves[s]] = edges[s]
               /\ s < f - 1 => to2[leaves[s]] = edges[s + 1]
    <3>1. CASE s = q
      BY <1>2, <1>5, <1>9, <3>1
    <3>2. CASE s # q
      <4>1. leaves[s] \in NewLeaves(t, t2) /\ slot[leaves[s]] = s
        BY <1>2, <3>2
      <4> QED
        BY <1>2, <1>3, <4>1
    <3> QED
      BY <3>1, <3>2
  <2>2. ASSUME NEW s \in 0 .. f - 1, NEW u \in 0 .. f - 1, s # u
        PROVE  leaves[s] # leaves[u]
    <3>1. \A v \in 0 .. f - 1 : v # q => leaves[v] \in NewLeaves(t, t2) /\ slot[leaves[v]] = v
      BY <1>2
    <3>2. leaves[q] \notin NewLeaves(t, t2)
      BY <1>2, <1>8
    <3>3. CASE s = q
      BY <2>2, <3>1, <3>2, <3>3
    <3>4. CASE u = q
      BY <2>2, <3>1, <3>2, <3>4
    <3>5. CASE s # q /\ u # q
      <4>1. slot[leaves[s]] = s /\ slot[leaves[u]] = u
        BY <3>1, <3>5
      <4> QED
        BY <2>2, <4>1
    <3> QED
      BY <3>3, <3>4, <3>5
  <2> QED
    BY <2>1, <2>2
<1>11. ASSUME NEW i \in Leaves(t), i # out PROVE Chains(i)
  <2>1. /\ Follower(i) = t.nodes[i].next_leaf_ /\ Prev(i) = t.nodes[i].prev_leaf_
    BY <1>6, <1>11 DEF AddsLeaves
  <2>2. /\ \/ Follower(i) = NoNode /\ to[i] = t.key_domain_max_
           \/ Follower(i) \in Leaves(t) \ {i} /\ from[Follower(i)] = to[i]
        /\ \/ Prev(i) = NoNode /\ from[i] = t.key_domain_min_
           \/ Prev(i) \in Leaves(t) \ {i} /\ to[Prev(i)] = from[i]
    BY <1>7, <2>1 DEF IsChained
  <2>3. to[i] <= from[out] \/ to[out] <= from[i]
    BY <1>2, <1>7, <1>11 DEF AreApart
  <2>4. /\ from[i] \in Int /\ to[i] \in Int /\ from[out] \in Int /\ to[out] \in Int
        /\ t.key_domain_min_ <= from[i] /\ from[i] < to[i] /\ to[i] <= t.key_domain_max_
        /\ t.key_domain_min_ <= from[out] /\ from[out] < to[out]
        /\ to[out] <= t.key_domain_max_
    BY <1>2, <1>5, <1>8
  <2>5. to[i] = t.key_domain_max_ => q = f - 1
    BY <1>5, <2>3, <2>4
  <2>6. from[i] = t.key_domain_min_ => q = 0
    BY <1>5, <2>3, <2>4
  <2>7. (q - 1) + 1 = q /\ (f - 1) + 1 = f
    BY <1>5
  <2> HIDE DEF Follower, Prev
  <2>8. \/ Follower(i) = NoNode /\ to2[i] = t2.key_domain_max_
        \/ Follower(i) \in Leaves(t2) \ {i} /\ from2[Follower(i)] = to2[i]
    <3>1. CASE Follower(i) = NoNode /\ to[i] = t.key_domain_max_
      BY <1>5, <1>9, <2>5, <2>7, <3>1
    <3>2. CASE Follower(i) \in Leaves(t) \ {i} /\ from[Follower(i)] = to[i]
      BY <1>2, <1>9, <3>2
    <3> QED
      BY <2>2, <3>1, <3>2
  <2>9. \/ Prev(i) = NoNode /\ from2[i] = t2.key_domain_min_
        \/ Prev(i) \in Leaves(t2) \ {i} /\ to2[Prev(i)] = from2[i]
    <3>1. CASE Prev(i) = NoNode /\ from[i] = t.key_domain_min_
      BY <1>5, <1>9, <2>6, <3>1
    <3>2. CASE Prev(i) \in Leaves(t) \ {i} /\ to[Prev(i)] = from[i]
      BY <1>2, <1>9, <3>2
    <3> QED
      BY <2>2, <3>1, <3>2
  <2> QED
    BY <2>8, <2>9
<1>12. Chains(out)
  <2>1. /\ Follower(out) = IF q = f - 1 THEN t.nodes[out].next_leaf_ ELSE leaves[q + 1]
        /\ Prev(out) = IF q = 0 THEN t.nodes[out].prev_leaf_ ELSE leaves[q - 1]
    BY <1>6 DEF AddsLeaves
  <2>2. LET n == t.nodes[out]
        IN  /\ \/ n.next_leaf_ = NoNode /\ to[out] = t.key_domain_max_
               \/ n.next_leaf_ \in Leaves(t) \ {out} /\ from[n.next_leaf_] = to[out]
            /\ \/ n.prev_leaf_ = NoNode /\ from[out] = t.key_domain_min_
               \/ n.prev_leaf_ \in Leaves(t) \ {out} /\ to[n.prev_leaf_] = from[out]
    BY <1>2, <1>7 DEF IsChained
  <2>3. (q - 1) + 1 = q /\ (f - 1) + 1 = f
    BY <1>5
  <2> HIDE DEF Follower, Prev
  <2>4. \/ Follower(out) = NoNode /\ to2[out] = t2.key_domain_max_
        \/ Follower(out) \in Leaves(t2) \ {out} /\ from2[Follower(out)] = to2[out]
    <3>1. CASE q = f - 1
      BY <1>2, <1>5, <1>9, <2>1, <2>2, <2>3, <3>1
    <3>2. CASE q # f - 1
      <4>1. q + 1 \in 0 .. f - 1 /\ q + 1 > 0 /\ q < f - 1 /\ q + 1 # q
        BY <1>5, <3>2
      <4> QED
        BY <1>2, <1>5, <1>10, <2>1, <3>2, <4>1
    <3> QED
      BY <3>1, <3>2
  <2>5. \/ Prev(out) = NoNode /\ from2[out] = t2.key_domain_min_
        \/ Prev(out) \in Leaves(t2) \ {out} /\ to2[Prev(out)] = from2[out]
    <3>1. CASE q = 0
      BY <1>2, <1>5, <1>9, <2>1, <2>2, <3>1
    <3>2. CASE q # 0
      <4>1. q - 1 \in 0 .. f - 1 /\ q - 1 < f - 1 /\ q > 0 /\ q - 1 # q
        BY <1>5, <3>2
      <4>2. to2[leaves[q - 1]] = edges[q]
        BY <1>10, <2>3, <4>1
      <4> QED
        BY <1>2, <1>5, <1>10, <2>1, <3>2, <4>1, <4>2
    <3> QED
      BY <3>1, <3>2
  <2> QED
    BY <2>4, <2>5
<1>13. ASSUME NEW i \in NewLeaves(t, t2) PROVE Chains(i)
  <2> DEFINE s == slot[i]
  <2>1. /\ s \in 0 .. f - 1 /\ s # q /\ leaves[s] = i
        /\ from2[i] = edges[s] /\ to2[i] = edges[s + 1]
    BY <1>3
  <2> HIDE DEF s
  <2>2. /\ Follower(i) = IF s = f - 1 THEN NoNode ELSE leaves[s + 1]
        /\ Prev(i) = IF s = 0 THEN NoNode ELSE leaves[s - 1]
    BY <1>6, <2>1 DEF AddsLeaves
  <2>3. (s - 1) + 1 = s /\ (f - 1) + 1 = f
    BY <1>5, <2>1
  <2> HIDE DEF Follower, Prev
  <2>4. \/ Follower(i) = NoNode /\ to2[i] = t2.key_domain_max_
        \/ Follower(i) \in Leaves(t2) \ {i} /\ from2[Follower(i)] = to2[i]
    <3>1. CASE s = f - 1
      BY <1>5, <2>1, <2>2, <2>3, <3>1
    <3>2. CASE s # f - 1
      <4>1. s + 1 \in 0 .. f - 1 /\ s + 1 > 0 /\ s + 1 # s
        BY <1>5, <2>1, <3>2
      <4> QED
        BY <1>10, <2>1, <2>2, <3>2, <4>1
    <3> QED
      BY <3>1, <3>2
  <2>5. \/ Prev(i) = NoNode /\ from2[i] = t2.key_domain_min_
        \/ Prev(i) \in Leaves(t2) \ {i} /\ to2[Prev(i)] = from2[i]
    <3>1. CASE s = 0
      BY <1>5, <2>1, <2>2, <3>1
    <3>2. CASE s # 0
      <4>1. s - 1 \in 0 .. f - 1 /\ s - 1 < f - 1 /\ s - 1 # s
        BY <1>5, <2>1, <3>2
      <4>2. to2[leaves[s - 1]] = edges[s]
        BY <1>10, <2>3, <4>1
      <4> QED
        BY <1>10, <2>1, <2>2, <3>2, <4>1, <4>2
    <3> QED
      BY <3>1, <3>2
  <2> QED
    BY <2>4, <2>5
<1> HIDE DEF Chains
<1>14. \A i \in Leaves(t2) : Chains(i)
  BY <1>2, <1>11, <1>12, <1>13
<1> QED
  BY <1>14 DEF IsChained, Chains

\* Keys go to the leaves that lookups look for them in, and none is lost.
LEMMA GrownKeepsKeys ==
    ASSUME NEW t, NEW parent, NEW first, NEW from, NEW to,
           NEW t2, NEW parent2, NEW first2, NEW from2, NEW to2,
           NEW g, NEW edges, NEW f, NEW q, NEW out, NEW leaves, NEW slot,
           Grows(t, parent, first, from, to, t2, parent2, first2, from2, to2,
                 g, edges, f, q, out, leaves, slot)
    PROVE  IsRouted(t2, from2, to2) /\ Keys(t2) = Keys(t)
<1>1. GrownNodes(t, parent, first, from, to, t2, parent2, first2, from2, to2,
                 g, edges, f, q, out, leaves, slot)
  BY GrownNodeFacts
<1>2. /\ IsTree(t) /\ HasRuns(t, parent, first)
      /\ parent \in [Nodes(t) -> Models(t)] /\ first \in [Nodes(t) -> Nat]
      /\ g \in Models(t)
      /\ out \in Leaves(t) /\ leaves[q] = out
      /\ \A i : i \in Leaves(t2) <=> i \in Leaves(t) \/ i \in NewLeaves(t, t2)
      /\ \A s \in 0 .. f - 1 : s # q => leaves[s] \in NewLeaves(t, t2) /\ slot[leaves[s]] = s
  BY <1>1 DEF GrownNodes
<1>3. /\ \A i \in Nodes(t) : i # g => from2[i] = from[i] /\ to2[i] = to[i]
      /\ \A i \in NewLeaves(t, t2) :
             /\ slot[i] \in 0 .. f - 1 /\ slot[i] # q /\ leaves[slot[i]] = i
             /\ from2[i] = edges[slot[i]] /\ to2[i] = edges[slot[i] + 1]
  BY <1>1 DEF GrownNodes
<1>4. GrownSlots(t, from, to, t2, from2, to2, edges, f, q, out)
  BY GrownSlotFacts
<1>5. /\ f \in Nat /\ f > 0 /\ q \in 0 .. f - 1
      /\ edges[q] = t.key_domain_min_ /\ edges[q + 1] = t.key_domain_max_
      /\ t2.key_domain_min_ = edges[0] /\ t2.key_domain_max_ = edges[f]
      /\ q > 0 => from[out] = t.key_domain_min_
      /\ q < f - 1 => to[out] = t.key_domain_max_
      /\ t.key_domain_min_ \in Int /\ t.key_domain_max_ \in Int
      /\ t.key_domain_min_ < t.key_domain_max_
      /\ \A s \in 0 .. f - 1 : /\ edges[0] <= edges[s] /\ edges[s] < edges[s + 1]
                               /\ edges[s + 1] <= edges[f]
                               /\ edges[s] \in Int /\ edges[s + 1] \in Int
  BY <1>4 DEF GrownSlots
<1>6. \A i \in Nodes(t) : /\ from[i] \in Int /\ to[i] \in Int
                          /\ t.key_domain_min_ <= from[i] /\ from[i] < to[i]
                          /\ to[i] <= t.key_domain_max_
  BY <1>4 DEF GrownSlots
<1>7. /\ AddsLeaves(t, t2, g, edges, f, q, out, leaves) /\ AreSlots(edges, f, q)
      /\ WellFormed(t, parent, first, from, to) /\ ~t.nodes[Root(t)].is_leaf_
  BY DEF Grows, IsGrown, IsOutermost
<1>8. IsRouted(t, from, to) /\ AreApart(t, from, to)
  BY <1>7 DEF WellFormed
<1>9. \A i \in Leaves(t) : /\ i \in Nodes(t) /\ i # g
                           /\ \A k \in t.nodes[i].keys : k \in Int
  <2>1. ASSUME NEW i \in Leaves(t) PROVE \A k \in t.nodes[i].keys : k \in Int
    BY <1>2, NodeFacts, KeysAreWithinTheType DEF Leaves
  <2> QED
    BY <1>2, <2>1, RunFacts DEF Models
<1>10. /\ t2.nodes[out].keys = {k \in t.nodes[out].keys : InSlot(edges, f, q, k)}
       /\ \A i \in Leaves(t) : i # out => t2.nodes[i].keys = t.nodes[i].keys
       /\ \A s \in 0 .. f - 1 : s # q =>
              t2.nodes[leaves[s]].keys = {k \in t.nodes[out].keys : InSlot(edges, f, s, k)}
  BY <1>7 DEF AddsLeaves
<1>11. edges[0] < edges[f] /\ edges[0] \in Int /\ edges[f] \in Int
  <2>1. 0 \in 0 .. f - 1
    BY <1>5
  <2>2. edges[0] \in Int /\ edges[f] \in Int
    BY <1>4 DEF GrownSlots
  <2>3. edges[0] < edges[0 + 1] /\ edges[0 + 1] <= edges[f] /\ edges[0 + 1] \in Int
    BY <1>5, <2>1
  <2> QED
    BY <2>2, <2>3
<1>12. ASSUME NEW k \in Int, NEW s \in 0 .. f - 1, InSlot(edges, f, s, k)
       PROVE  edges[s] <= Clamped(t2, k) /\ Clamped(t2, k) < edges[s + 1]
  <2>1. /\ edges[0] <= edges[s] /\ edges[s] < edges[s + 1] /\ edges[s + 1] <= edges[f]
        /\ edges[s] \in Int /\ edges[s + 1] \in Int
    BY <1>5
  <2>2. (s > 0 => edges[s] <= k) /\ (s < f - 1 => k < edges[s + 1])
    BY <1>12 DEF InSlot
  <2>3. Clamped(t2, k) = IF k < edges[0] THEN edges[0]
                         ELSE IF k >= edges[f] THEN edges[f] - 1 ELSE k
    BY <1>5 DEF Clamped
  <2>4. s = 0 \/ s > 0
    BY <1>5
  <2>5. s < f - 1 \/ s + 1 = f
    BY <1>5
  <2> QED
    BY <1>11, <2>1, <2>2, <2>3, <2>4, <2>5
<1>13. ASSUME NEW k \in Int, InSlot(edges, f, q, k)
       PROVE  Clamped(t2, k) = Clamped(t, k)
  <2>1. /\ edges[0] <= edges[q] /\ edges[q] < edges[q + 1] /\ edges[q + 1] <= edges[f]
        /\ edges[q] \in Int /\ edges[q + 1] \in Int
    BY <1>5
  <2>2. (q > 0 => edges[q] <= k) /\ (q < f - 1 => k < edges[q + 1])
    BY <1>13 DEF InSlot
  <2>3. /\ Clamped(t2, k) = IF k < edges[0] THEN edges[0]
                            ELSE IF k >= edges[f] THEN edges[f] - 1 ELSE k
        /\ Clamped(t, k) = IF k < edges[q] THEN edges[q]
                           ELSE IF k >= edges[q + 1] THEN edges[q + 1] - 1 ELSE k
    BY <1>5 DEF Clamped
  <2>4. q = 0 \/ q > 0
    BY <1>5
  <2>5. q < f - 1 \/ q + 1 = f
    BY <1>5
  <2> QED
    BY <1>11, <2>1, <2>2, <2>3, <2>4, <2>5
<1>14. ASSUME NEW i \in Leaves(t), NEW k \in t.nodes[i].keys,
              i = out => InSlot(edges, f, q, k)
       PROVE  IsIn(t2, from2, to2, i, k)
  <2>1. k \in Int /\ IsIn(t, from, to, i, k)
    BY <1>7, <1>8, <1>9 DEF IsRouted
  <2>2. InSlot(edges, f, q, k)
    <3>1. CASE i = out
      BY <1>14, <3>1
    <3>2. CASE i # out
      <4>1. to[i] <= from[out] \/ to[out] <= from[i]
        BY <1>2, <1>8, <3>2 DEF AreApart
      <4>2. /\ from[i] \in Int /\ to[i] \in Int /\ from[out] \in Int /\ to[out] \in Int
            /\ t.key_domain_min_ <= from[i] /\ from[i] < to[i] /\ to[i] <= t.key_domain_max_
            /\ t.key_domain_min_ <= from[out] /\ from[out] < to[out]
            /\ to[out] <= t.key_domain_max_
        BY <1>2, <1>6, <1>9
      <4> DEFINE c == Clamped(t, k)
      <4>3. from[i] <= c /\ c < to[i]
        BY <2>1 DEF IsIn
      <4>4. /\ c \in Int
            /\ \/ c = k
               \/ k < t.key_domain_min_ /\ c = t.key_domain_min_
               \/ k >= t.key_domain_max_ /\ c = t.key_domain_max_ - 1
        BY <1>5, <2>1, ClampedFacts
      <4> HIDE DEF c
      <4>5. q > 0 => t.key_domain_min_ <= k
        BY <1>5, <2>1, <4>1, <4>2, <4>3, <4>4
      <4>6. q < f - 1 => k < t.key_domain_max_
        BY <1>5, <2>1, <4>1, <4>2, <4>3, <4>4
      <4> QED
        BY <1>5, <4>5, <4>6 DEF InSlot
    <3> QED
      BY <3>1, <3>2
  <2>3. Clamped(t2, k) = Clamped(t, k)
    BY <1>13, <2>1, <2>2
  <2>4. from2[i] = from[i] /\ to2[i] = to[i]
    BY <1>3, <1>9
  <2> QED
    BY <2>1, <2>3, <2>4 DEF IsIn
<1>15. ASSUME NEW i \in Leaves(t2), NEW k \in t2.nodes[i].keys
       PROVE  /\ IsIn(t2, from2, to2, i, k)
              /\ \/ k \in t.nodes[i].keys /\ i \in Leaves(t)
                 \/ k \in t.nodes[out].keys
  <2>1. CASE i \in Leaves(t)
    BY <1>10, <1>14, <1>15, <2>1
  <2>2. CASE i \in NewLeaves(t, t2)
    <3> DEFINE s == slot[i]
    <3>1. /\ s \in 0 .. f - 1 /\ s # q /\ leaves[s] = i
          /\ from2[i] = edges[s] /\ to2[i] = edges[s + 1]
      BY <1>3, <2>2
    <3> HIDE DEF s
    <3>2. k \in t.nodes[out].keys /\ InSlot(edges, f, s, k)
      BY <1>10, <1>15, <3>1
    <3>3. k \in Int
      BY <1>2, <1>9, <3>2
    <3> QED
      BY <1>12, <3>1, <3>2, <3>3 DEF IsIn
  <2> QED
    BY <1>2, <2>1, <2>2
<1>16. IsRouted(t2, from2, to2)
  BY <1>15 DEF IsRouted
<1>17. ASSUME NEW k \in Keys(t) PROVE k \in Keys(t2)
  <2>1. PICK i \in Leaves(t) : k \in t.nodes[i].keys
    BY KeysFacts
  <2>2. CASE i # out
    <3>1. i \in Leaves(t2) /\ k \in t2.nodes[i].keys
      BY <1>2, <1>10, <2>1, <2>2
    <3> QED
      BY <3>1, KeysFacts
  <2>3. CASE i = out
    <3>1. k \in Int /\ k \in t.nodes[out].keys
      BY <1>9, <2>1, <2>3
    <3>2. PICK s \in 0 .. f - 1 : InSlot(edges, f, s, k)
      BY <1>7, <3>1, SlotExists
    <3>3. leaves[s] \in Leaves(t2) /\ k \in t2.nodes[leaves[s]].keys
      <4>1. CASE s = q
        BY <1>2, <1>10, <3>1, <3>2, <4>1
      <4>2. CASE s # q
        BY <1>2, <1>10, <3>1, <3>2, <4>2
      <4> QED
        BY <4>1, <4>2
    <3> QED
      BY <3>3, KeysFacts
  <2> QED
    BY <2>2, <2>3
<1>18. ASSUME NEW k \in Keys(t2) PROVE k \in Keys(t)
  <2>1. PICK i \in Leaves(t2) : k \in t2.nodes[i].keys
    BY KeysFacts
  <2>2. \E j \in Leaves(t) : k \in t.nodes[j].keys
    BY <1>2, <1>15, <2>1
  <2> QED
    BY <2>2, KeysFacts
<1>19. Keys(t2) = Keys(t)
  BY <1>17, <1>18
<1> QED
  BY <1>16, <1>19

\* So a tree whose root grew is well-formed, and has the same keys.
LEMMA GrownIsMerged ==
    ASSUME NEW t, NEW parent, NEW first, NEW from, NEW to,
           WellFormed(t, parent, first, from, to),
           NEW t2, NEW g, NEW edges, NEW f, NEW q, NEW out, NEW leaves, NEW slot,
           IsGrown(t, from, to, t2, g, edges, f, q, out, leaves, slot)
    PROVE  IsMerged(t, t2)
<1> DEFINE parent2 == GrownParent(t, t2, parent, g)
           first2 == GrownFirst(t, t2, parent, first, g, q, slot)
           from2 == GrownFrom(t, t2, from, g, edges, slot)
           to2 == GrownTo(t, t2, to, g, edges, f, slot)
<1>1. Grows(t, parent, first, from, to, t2, parent2, first2, from2, to2,
            g, edges, f, q, out, leaves, slot)
  BY DEF Grows
<1> HIDE DEF parent2, first2, from2, to2
<1>2. IsTree(t2)
  BY DEF IsGrown
<1>3. HasRuns(t2, parent2, first2)
  BY <1>1, GrownKeepsRuns
<1>4. /\ AreGhosts(t2, parent2, first2, from2, to2)
      /\ HasRegions(t2, parent2, first2, from2, to2)
      /\ HasDomain(t2, from2, to2) /\ AreApart(t2, from2, to2)
  BY <1>1, GrownKeepsRegions
<1>5. IsChained(t2, from2, to2)
  BY <1>1, GrownKeepsChain
<1>6. IsRouted(t2, from2, to2) /\ Keys(t2) = Keys(t)
  BY <1>1, GrownKeepsKeys
<1>7. WellFormed(t2, parent2, first2, from2, to2)
  BY <1>2, <1>3, <1>4, <1>5, <1>6 DEF WellFormed
<1> QED
  BY <1>6, <1>7 DEF IsMerged

-----------------------------------------------------------------------------
\* Nodes that are for keys from x on, and for keys up to x.
StartingAt(t, from, x) == {i \in Nodes(t) : from[i] = x}
EndingAt(t, to, x) == {i \in Nodes(t) : to[i] = x}

\* From a node that is for keys from x on, the leftmost pointers lead to others
\* from x on, and from one for keys up to x the rightmost ones to others up to x.
LEMMA EndsAreClosed ==
    ASSUME NEW t, NEW parent, NEW first, NEW from, NEW to,
           WellFormed(t, parent, first, from, to), ~t.nodes[Root(t)].is_leaf_, NEW x
    PROVE  /\ ArePicks(t, LeftMost(t)) /\ ArePicks(t, RightMost(t))
           /\ IsClosed(t, LeftMost(t), StartingAt(t, from, x))
           /\ IsClosed(t, RightMost(t), EndingAt(t, to, x))
<1>1. /\ IsTree(t) /\ HasRuns(t, parent, first)
      /\ parent \in [Nodes(t) -> Models(t)] /\ first \in [Nodes(t) -> Nat]
  BY WellFormedParts
<1>2. /\ \A c \in Nodes(t) : parent[c] # Superroot =>
             /\ from[c] = Edge(t.nodes[parent[c]], first[c])
             /\ to[c] = Edge(t.nodes[parent[c]], first[c] + Repeats(t.nodes[c]))
      /\ \A i \in Models(t) : i # Superroot =>
             /\ from[i] = Edge(t.nodes[i], 0)
             /\ to[i] = Edge(t.nodes[i], t.nodes[i].num_children_)
  BY RegionFacts
<1>4. ArePicks(t, LeftMost(t)) /\ ArePicks(t, RightMost(t))
  BY <1>1, PicksOfLookups
<1> DEFINE A == {i \in Nodes(t) : from[i] = x}
           Z == {i \in Nodes(t) : to[i] = x}
<1>5. \A i \in Models(t) : i \in Nodes(t) => i # Superroot
  BY DEF Nodes
<1>6. IsClosed(t, LeftMost(t), A)
  <2>1. ASSUME NEW i \in Models(t), i \in A
        PROVE  t.nodes[i].children_[LeftMost(t)[i]] \in A
    <3> DEFINE c == t.nodes[i].children_[0]
    <3>1. LeftMost(t)[i] = 0
      BY DEF LeftMost
    <3>2. 0 \in 0 .. t.nodes[i].num_children_ - 1
      BY <1>4, <3>1 DEF ArePicks
    <3>3. c \in Nodes(t) /\ parent[c] = i /\ first[c] <= 0
      BY <1>1, <3>2, RunFacts
    <3>4. first[c] = 0
      BY <1>1, <3>3
    <3>5. from[c] = Edge(t.nodes[i], 0) /\ from[i] = Edge(t.nodes[i], 0)
      BY <1>2, <1>5, <2>1, <3>3, <3>4
    <3> HIDE DEF c
    <3>6. c \in A
      BY <2>1, <3>3, <3>5
    <3> QED
      BY <3>1, <3>6 DEF c
  <2> HIDE DEF A
  <2> QED
    BY <2>1 DEF IsClosed
<1>7. IsClosed(t, RightMost(t), Z)
  <2>1. ASSUME NEW i \in Models(t), i \in Z
        PROVE  t.nodes[i].children_[RightMost(t)[i]] \in Z
    <3> DEFINE num == t.nodes[i].num_children_
               c == t.nodes[i].children_[num - 1]
    <3>1. RightMost(t)[i] = num - 1
      BY DEF RightMost
    <3>2. num - 1 \in 0 .. num - 1 /\ num \in Nat
      BY <1>1, <1>4, <3>1, NodeFacts DEF ArePicks
    <3>3. /\ c \in Nodes(t) /\ parent[c] = i
          /\ num - 1 < first[c] + Repeats(t.nodes[c])
      BY <1>1, <3>2, RunFacts
    <3>4. /\ first[c] + Repeats(t.nodes[c]) <= num /\ first[c] \in Nat
          /\ Repeats(t.nodes[c]) \in Nat
      <4>1. \A d \in Nodes(t) :
                /\ first[d] + Repeats(t.nodes[d]) <= t.nodes[parent[d]].num_children_
                /\ first[d] \in Nat /\ Repeats(t.nodes[d]) \in Nat
        BY <1>1, RunFacts
      <4> HIDE DEF c
      <4> QED
        BY <3>3, <4>1
    <3> HIDE DEF num, c
    <3>5. first[c] + Repeats(t.nodes[c]) = num
      BY <3>2, <3>3, <3>4
    <3>6. to[c] = Edge(t.nodes[i], num) /\ to[i] = Edge(t.nodes[i], num)
      BY <1>2, <1>5, <2>1, <3>3, <3>5 DEF num
    <3>7. c \in Z
      BY <2>1, <3>3, <3>6
    <3> QED
      BY <3>1, <3>7 DEF c, num
  <2> HIDE DEF Z
  <2> QED
    BY <2>1 DEF IsClosed
<1> QED
  BY <1>4, <1>6, <1>7 DEF StartingAt, EndingAt

\* The first and the last leaf are at the ends of the key domain.
LEMMA OutermostLeaves ==
    ASSUME NEW t, NEW parent, NEW first, NEW from, NEW to,
           WellFormed(t, parent, first, from, to), ~t.nodes[Root(t)].is_leaf_
    PROVE  /\ first_data_node(t) \in Leaves(t) /\ from[first_data_node(t)] = t.key_domain_min_
           /\ last_data_node(t) \in Leaves(t) /\ to[last_data_node(t)] = t.key_domain_max_
<1>1. /\ IsTree(t) /\ HasRuns(t, parent, first)
      /\ parent \in [Nodes(t) -> Models(t)] /\ first \in [Nodes(t) -> Nat]
  BY WellFormedParts
<1>2. from[Root(t)] = t.key_domain_min_ /\ to[Root(t)] = t.key_domain_max_
  BY RegionFacts
<1>3. Root(t) \in Nodes(t)
  BY <1>1, RootFacts
<1> DEFINE A == StartingAt(t, from, t.key_domain_min_)
           Z == EndingAt(t, to, t.key_domain_max_)
<1>5. /\ ArePicks(t, LeftMost(t)) /\ ArePicks(t, RightMost(t))
      /\ IsClosed(t, LeftMost(t), A) /\ IsClosed(t, RightMost(t), Z)
  BY EndsAreClosed
<1>8. Root(t) \in A /\ Root(t) \in Z
  BY <1>2, <1>3 DEF StartingAt, EndingAt
<1>9. first_data_node(t) \in A /\ first_data_node(t) \in Leaves(t)
  <2> HIDE DEF A
  <2> QED
    BY <1>1, <1>5, <1>8, PathFromTopFacts DEF first_data_node
<1>10. last_data_node(t) \in Z /\ last_data_node(t) \in Leaves(t)
  <2> HIDE DEF Z
  <2> QED
    BY <1>1, <1>5, <1>8, PathFromTopFacts DEF last_data_node
<1> QED
  BY <1>9, <1>10 DEF StartingAt, EndingAt

-----------------------------------------------------------------------------
(* expand_root, part by part.                                              *)
Beyond(t, left, size, k, i) ==
    IF left THEN k < t.key_domain_min_ - i * size ELSE k >= t.key_domain_max_ + i * size

Moved(t, left, size, factor, out, i) ==
    {k \in t.nodes[out].keys : /\ Beyond(t, left, size, k, i - 1)
                               /\ i < factor - 1 => ~Beyond(t, left, size, k, i)}

Outward(firstLeaf, factor, i) == IF i < factor - 1 THEN firstLeaf + (i + 1) - 1 ELSE NoNode
Inward(firstLeaf, out, i) == IF i > 1 THEN firstLeaf + (i - 1) - 1 ELSE out

LeafBeyond(t, left, size, factor, out, firstLeaf, n, level, i) ==
    [NewDataNode(Moved(t, left, size, factor, out, i), level + 1, CHOOSE d \in 0 .. n : 2^d = n)
        EXCEPT
        !.prev_leaf_ = IF left THEN Outward(firstLeaf, factor, i) ELSE Inward(firstLeaf, out, i),
        !.next_leaf_ = IF left THEN Inward(firstLeaf, out, i) ELSE Outward(firstLeaf, factor, i)]

Trimmed(t, left, out, least, greatest, firstLeaf) ==
    [t.nodes[out] EXCEPT
        !.keys = {k \in @ : IF left THEN k < least \/ k >= t.key_domain_min_
                            ELSE k < t.key_domain_max_ \/ k > greatest},
        !.prev_leaf_ = IF left THEN firstLeaf + 1 - 1 ELSE @,
        !.next_leaf_ = IF left THEN @ ELSE firstLeaf + 1 - 1]

Group(left, factor, n, b) == IF left THEN factor - 1 - b \div n ELSE b \div n

Filled(bare, left, factor, n, children) ==
    [bare EXCEPT !.start = IF left THEN @ - (factor - 1) * n * bare.width ELSE @,
                 !.children_ = children]

WiderRoot(r, size) == [r EXCEPT !.num_children_ = size]

SuperrootOf(s, node, level) == [s EXCEPT !.children_ = [b \in {0} |-> node], !.level_ = level]

NodesWith(t, node, filled, out, trimmed, left, size, factor, firstLeaf, n) ==
    [i \in DOMAIN t.nodes \cup {node} \cup {firstLeaf + g - 1 : g \in 1 .. factor - 1} |->
        IF i = Superroot THEN SuperrootOf(t.nodes[i], node, filled.level_ - 1)
        ELSE IF i = node THEN filled
        ELSE IF i = out THEN trimmed
        ELSE IF i \in DOMAIN t.nodes THEN t.nodes[i]
        ELSE LeafBeyond(t, left, size, factor, out, firstLeaf, n, filled.level_,
                        i - firstLeaf + 1)]

TreeWith(t, node, filled, out, trimmed, left, size, factor, firstLeaf, n, least, greatest) ==
    [t EXCEPT
        !.nodes = NodesWith(t, node, filled, out, trimmed, left, size, factor, firstLeaf, n),
        !.fresh = firstLeaf + factor - 1,
        !.key_domain_min_ = least,
        !.key_domain_max_ = greatest]

LeastOf(t, left, factor) ==
    IF left THEN t.key_domain_max_ - factor * DomainSize(t) ELSE t.key_domain_min_
GreatestOf(t, left, factor) ==
    IF left THEN t.key_domain_max_ ELSE t.key_domain_min_ + factor * DomainSize(t)

\* The root with more pointers, or a new root above it, if it does not grow.
GrowingNode(t, grows) == IF grows THEN Root(t) ELSE t.fresh
FirstLeafBeyond(t, grows) == IF grows THEN t.fresh ELSE t.fresh + 1
OldPointers(t, grows) == IF grows THEN t.nodes[Root(t)].num_children_ ELSE 1

BareNode(t, factor, grows, rounding) ==
    IF grows
    THEN WiderRoot(t.nodes[Root(t)], OldPointers(t, grows) * factor)
    ELSE NewModelNode(t.nodes[Root(t)].level_ - 1, 0, t.nodes[Root(t)].start,
                      t.nodes[Root(t)].width * t.nodes[Root(t)].num_children_,
                      factor, rounding)

PointersOf(t, left, factor, grows) ==
    [b \in 0 .. OldPointers(t, grows) * factor - 1 |->
        IF Group(left, factor, OldPointers(t, grows), b) > 0
        THEN FirstLeafBeyond(t, grows) + Group(left, factor, OldPointers(t, grows), b) - 1
        ELSE IF grows THEN t.nodes[Root(t)].children_[b % OldPointers(t, grows)] ELSE Root(t)]

ExpandedTree(t, left, factor, grows, rounding) ==
    TreeWith(t, GrowingNode(t, grows),
             Filled(BareNode(t, factor, grows, rounding), left, factor,
                    OldPointers(t, grows), PointersOf(t, left, factor, grows)),
             OutermostNode(t, left),
             Trimmed(t, left, OutermostNode(t, left), LeastOf(t, left, factor),
                     GreatestOf(t, left, factor), FirstLeafBeyond(t, grows)),
             left, DomainSize(t), factor, FirstLeafBeyond(t, grows), OldPointers(t, grows),
             LeastOf(t, left, factor), GreatestOf(t, left, factor))

\* expand_root is the tree that its parts make up.
LEMMA ExpandRootUnfolds ==
    ASSUME NEW t, NEW key, NEW left, NEW rounding
    PROVE  expand_root(t, key, left, rounding) =
               ExpandedTree(t, left, ExpansionFactor(t, key, left),
                            t.nodes[Root(t)].num_children_ * ExpansionFactor(t, key, left)
                                <= max_fanout,
                            rounding)
<1> DEFINE f == ExpansionFactor(t, key, left)
           grows == CanGrow(t, f)
<1>1. ExpandedRoot(t, left, f, rounding) =
          Filled(BareNode(t, f, grows, rounding), left, f, OldPointers(t, grows),
                 PointersOf(t, left, f, grows))
  BY DEF ExpandedRoot, FirstNewLeaf, PointersToEach, Filled, BareNode, OldPointers, PointersOf,
     WiderRoot, Group, FirstLeafBeyond
<1>2. FirstNewLeaf(t, f) = FirstLeafBeyond(t, grows) /\ PointersToEach(t, f) = OldPointers(t, grows)
  BY DEF FirstNewLeaf, PointersToEach, FirstLeafBeyond, OldPointers
<1>3. expand_root(t, key, left, rounding) = ExpandedTree(t, left, f, grows, rounding)
  BY <1>1, <1>2
  DEF expand_root, ExpandedTree, GrowingNode, TreeWith, NodesWith, SuperrootOf, Trimmed,
      LeafBeyond, Inward, Outward, Moved, Beyond, LeastOf, GreatestOf
<1> QED
  BY <1>3 DEF CanGrow

-----------------------------------------------------------------------------
\* Rounding up gives a power of two that is as great.
LEMMA RoundedUp ==
    ASSUME NEW m \in Nat
    PROVE  \E y \in Nat : pow_2_round_up(m) = 2^y /\ 2^y >= m
<1> DEFINE S == {i \in 0 .. m : 2^i >= m}
           P(i) == 2^i >= m /\ \A j \in 0 .. i - 1 : 2^j < m
<1>1. m \in S /\ S \in SUBSET Nat
  BY PowerExceeds, PowerFacts
<1>2. PICK i \in S : \A j \in S : i <= j
  BY <1>1, LeastElement
<1>3. P(i)
  <2>1. ASSUME NEW j \in 0 .. i - 1 PROVE 2^j < m
    <3>1. j \in 0 .. m /\ j \notin S /\ 2^j \in Nat
      BY <1>2, PowerFacts
    <3> QED
      BY <3>1
  <2> QED
    BY <1>2, <2>1
<1> DEFINE c == CHOOSE k \in 0 .. m : P(k)
<1>4. c \in 0 .. m /\ P(c)
  <2>1. i \in 0 .. m
    BY <1>2
  <2> HIDE DEF P
  <2> QED
    BY <1>3, <2>1
<1>5. pow_2_round_up(m) = 2^c
  BY DEF pow_2_round_up
<1> HIDE DEF c
<1> QED
  BY <1>4, <1>5

\* Least and greatest of two numbers.
LEMMA MinAndMaxOfTwo ==
    ASSUME NEW a \in Int, NEW b \in Int
    PROVE  /\ Min({a, b}) \in {a, b} /\ Min({a, b}) <= a /\ Min({a, b}) <= b
           /\ Max({a, b}) \in {a, b} /\ a <= Max({a, b}) /\ b <= Max({a, b})
<1>1. \E x \in {a, b} : \A y \in {a, b} : x <= y
  <2>1. CASE a <= b
    BY <2>1
  <2>2. CASE b <= a
    BY <2>2
  <2> QED
    BY <2>1, <2>2
<1>2. \E x \in {a, b} : \A y \in {a, b} : x >= y
  <2>1. CASE a <= b
    BY <2>1
  <2>2. CASE b <= a
    BY <2>2
  <2> QED
    BY <2>1, <2>2
<1> DEFINE s == CHOOSE x \in {a, b} : \A y \in {a, b} : x <= y
           g == CHOOSE x \in {a, b} : \A y \in {a, b} : x >= y
<1>3. s \in {a, b} /\ \A y \in {a, b} : s <= y
  BY <1>1
<1>4. g \in {a, b} /\ \A y \in {a, b} : g >= y
  BY <1>2
<1>5. Min({a, b}) = s /\ Max({a, b}) = g
  BY DEF Min, Max
<1> HIDE DEF s, g
<1> QED
  BY <1>3, <1>4, <1>5

\* How far a domain grows: by a power of two, to all keys of the outer leaf.
IsGrowth(t, left, f) ==
    /\ left \in BOOLEAN
    /\ f \in Nat /\ f >= 2 /\ \E y \in Nat : f = 2^y
    /\ DomainSize(t) \in Nat /\ DomainSize(t) > 0
    /\ ~t.nodes[Root(t)].is_leaf_ /\ OutermostNode(t, left) \in Leaves(t)
    /\ left => \A k \in t.nodes[OutermostNode(t, left)].keys : LeastOf(t, left, f) <= k
    /\ ~left => \A k \in t.nodes[OutermostNode(t, left)].keys : k <= GreatestOf(t, left, f)

\* By what factor the domain grows, and where to.
LEMMA GrowthFacts ==
    ASSUME NEW t, NEW parent, NEW first, NEW from, NEW to,
           WellFormed(t, parent, first, from, to), ~t.nodes[Root(t)].is_leaf_,
           NEW key \in Key, NEW left \in BOOLEAN,
           left => key < t.key_domain_min_, ~left => key > t.key_domain_max_
    PROVE  IsGrowth(t, left, ExpansionFactor(t, key, left))
<1> DEFINE out == OutermostNode(t, left)
           size == DomainSize(t)
           least == t.key_domain_min_
           greatest == t.key_domain_max_
           d == IF left THEN least - Min({key, first_key(t.nodes[out])})
                ELSE Max({key, last_key(t.nodes[out])}) - greatest
           K == t.nodes[out].keys
           c == (d + 2 * size - 1) \div size
           f == ExpansionFactor(t, key, left)
<1>1. out \in Leaves(t)
  BY OutermostLeaves DEF OutermostNode
<1>2. least \in Int /\ greatest \in Int /\ least < greatest
  BY RegionFacts
<1>3. size = greatest - least /\ size \in Nat /\ size > 0
  BY <1>2 DEF DomainSize
<1>4. K \in SUBSET Key
  BY <1>1, WellFormedParts, NodeFacts DEF Leaves
<1>5. key \in Int /\ kMax \in Int /\ kLowest \in Int /\ \A k \in K : k \in Int
  BY <1>4, KeysAreWithinTheType
<1>6. /\ first_key(t.nodes[out]) \in Int /\ \A k \in K : first_key(t.nodes[out]) <= k
      /\ last_key(t.nodes[out]) \in Int /\ \A k \in K : k <= last_key(t.nodes[out])
  <2>1. CASE K = {}
    BY <1>5, <2>1 DEF first_key, last_key
  <2>2. CASE K # {}
    <3>1. Min(K) \in K /\ (\A k \in K : Min(K) <= k) /\ Max(K) \in K /\ \A k \in K : k <= Max(K)
      BY <1>4, <2>2, MinAndMaxOfKeys
    <3> QED
      BY <1>5, <2>2, <3>1 DEF first_key, last_key
  <2> QED
    BY <2>1, <2>2
<1>7. /\ d \in Nat /\ d > 0
      /\ left => \A k \in K : least - d <= k
      /\ ~left => \A k \in K : k <= greatest + d
  <2> DEFINE u == first_key(t.nodes[out])
             v == last_key(t.nodes[out])
  <2>1. d = IF left THEN least - Min({key, u}) ELSE Max({key, v}) - greatest
    OBVIOUS
  <2>2. /\ u \in Int /\ (\A k \in K : u <= k) /\ v \in Int
        /\ \A k \in K : k <= v
    BY <1>6
  <2> HIDE DEF u, v, d, K, out
  <2>3. CASE left
    <3>1. /\ Min({key, u}) \in {key, u} /\ Min({key, u}) <= key /\ Min({key, u}) <= u
      BY <1>5, <2>2, MinAndMaxOfTwo
    <3> DEFINE m == Min({key, u})
    <3>2. m \in Int /\ m <= key /\ m <= u /\ d = least - m
      BY <1>5, <2>1, <2>2, <2>3, <3>1
    <3> HIDE DEF m
    <3>3. ASSUME NEW k \in K PROVE least - d <= k
      <4>1. k \in Int /\ u <= k
        BY <1>5, <2>2
      <4> QED
        BY <1>2, <1>5, <2>2, <3>2, <4>1
    <3> QED
      BY <1>2, <1>5, <2>3, <3>2, <3>3
  <2>4. CASE ~left
    <3>1. /\ Max({key, v}) \in {key, v} /\ key <= Max({key, v}) /\ v <= Max({key, v})
      BY <1>5, <2>2, MinAndMaxOfTwo
    <3> DEFINE m == Max({key, v})
    <3>2. m \in Int /\ key <= m /\ v <= m /\ d = m - greatest
      BY <1>5, <2>1, <2>2, <2>4, <3>1
    <3> HIDE DEF m
    <3>3. ASSUME NEW k \in K PROVE k <= greatest + d
      <4>1. k \in Int /\ k <= v
        BY <1>5, <2>2
      <4> QED
        BY <1>2, <1>5, <2>2, <3>2, <4>1
    <3> QED
      BY <1>2, <1>5, <2>4, <3>2, <3>3
  <2> QED
    BY <2>3, <2>4
<1>8. c \in Nat /\ c * size >= d + size
  <2> DEFINE a == d + 2 * size - 1
             w == size
             r == a % w
  <2>0. w \in Nat /\ w > 0 /\ d \in Nat /\ d > 0
    BY <1>3, <1>7
  <2> HIDE DEF size, d
  <2>1. a \in Int /\ a >= 0
    BY <2>0
  <2>2. r \in 0 .. w - 1 /\ c \in Int /\ a = c * w + r
    <3> HIDE DEF a
    <3> QED
      BY <2>0, <2>1, Remainders DEF a
  <2> HIDE DEF c, r
  <2>3. c * w \in Int
    BY <2>0, <2>2
  <2>4. c * w >= d + w
    <3> DEFINE z == c * w
    <3>1. z \in Int /\ d + 2 * w - 1 = z + r
      BY <2>2, <2>3
    <3> HIDE DEF z, w
    <3> QED
      BY <2>0, <2>2, <3>1 DEF z
  <2>5. c >= 0
    <3>1. SUFFICES ASSUME c < 0 PROVE FALSE
      BY <2>2
    <3>2. c * w < 0 * w /\ 0 * w = 0
      BY <2>0, <2>2, <3>1, Products
    <3> QED
      BY <2>0, <2>3, <2>4, <3>2
  <2> QED
    BY <2>2, <2>4, <2>5
<1>9. PICK y \in Nat : pow_2_round_up(c) = 2^y /\ 2^y >= c
  <2> HIDE DEF c
  <2> QED
    BY <1>8, RoundedUp
<1>10. f = 2^y /\ f \in Nat /\ f >= c
  BY <1>9, PowerFacts DEF ExpansionFactor
<1> HIDE DEF f, c, size, d
<1>11. f * size >= d + size /\ f * size \in Int
  <2>1. c < f => c * size < f * size
    BY <1>3, <1>8, <1>10, Products
  <2>2. c * size \in Int /\ f * size \in Int
    BY <1>3, <1>8, <1>10
  <2>3. c = f \/ c < f
    BY <1>8, <1>10
  <2> QED
    BY <1>3, <1>7, <1>8, <2>1, <2>2, <2>3
<1>12. f >= 2
  <2>1. SUFFICES ASSUME f < 2 PROVE FALSE
    BY <1>10
  <2>2. f = 0 \/ f = 1
    BY <1>10, <2>1
  <2>3. 0 * size = 0 /\ 1 * size = size
    BY <1>3
  <2> QED
    BY <1>3, <1>7, <1>11, <2>2, <2>3
<1>13. /\ LeastOf(t, left, f) = IF left THEN greatest - f * size ELSE least
       /\ GreatestOf(t, left, f) = IF left THEN greatest ELSE least + f * size
  BY DEF LeastOf, GreatestOf, size
<1> DEFINE z == f * size
<1>14. left => \A k \in K : LeastOf(t, left, f) <= k
  <2>1. SUFFICES ASSUME left, NEW k \in K PROVE greatest - z <= k
    BY <1>13
  <2>2. k \in Int /\ least - d <= k /\ z \in Int /\ z >= d + size
    BY <1>5, <1>7, <1>11, <2>1
  <2> HIDE DEF z, K
  <2> QED
    BY <1>2, <1>3, <1>7, <2>2
<1>15. ~left => \A k \in K : k <= GreatestOf(t, left, f)
  <2>1. SUFFICES ASSUME ~left, NEW k \in K PROVE k <= least + z
    BY <1>13
  <2>2. k \in Int /\ k <= greatest + d /\ z \in Int /\ z >= d + size
    BY <1>5, <1>7, <1>11, <2>1
  <2> HIDE DEF z, K
  <2> QED
    BY <1>2, <1>3, <1>7, <2>2
<1> QED
  BY <1>1, <1>3, <1>10, <1>12, <1>14, <1>15 DEF IsGrowth, size, f

-----------------------------------------------------------------------------
\* A leaf with other keys and neighbours.
LeafLike(n, m, K, prev, next) ==
    /\ m \in LeafNodes /\ m.is_leaf_ /\ m.level_ = n.level_
    /\ m.duplication_factor_ = n.duplication_factor_ /\ m.keys = K
    /\ m.prev_leaf_ = prev /\ m.next_leaf_ = next

\* A leaf with other keys and neighbours.
LEMMA LeafWithKeysAndLinks ==
    ASSUME NEW n \in LeafNodes, NEW K \in SUBSET Key, NEW prev \in Int, NEW next \in Int
    PROVE  LeafLike(n, [n EXCEPT !.keys = K, !.prev_leaf_ = prev, !.next_leaf_ = next],
                    K, prev, next)
BY DEF LeafNodes, LeafLike

\* The old outermost leaf keeps the keys that are not beyond the old domain.
KeptKeys(t, left, out, least, greatest) ==
    {k \in t.nodes[out].keys : IF left THEN k < least \/ k >= t.key_domain_min_
                               ELSE k < t.key_domain_max_ \/ k > greatest}

\* The outermost leaf, without the keys that it gives away.
LEMMA TrimmedFacts ==
    ASSUME NEW t, IsTree(t), NEW out \in Leaves(t), NEW left \in BOOLEAN,
           NEW least, NEW greatest, NEW firstLeaf \in Nat
    PROVE  LeafLike(t.nodes[out], Trimmed(t, left, out, least, greatest, firstLeaf),
                    KeptKeys(t, left, out, least, greatest),
                    IF left THEN firstLeaf ELSE t.nodes[out].prev_leaf_,
                    IF left THEN t.nodes[out].next_leaf_ ELSE firstLeaf)
<1>1. /\ t.nodes[out] \in LeafNodes /\ t.nodes[out].keys \subseteq Key
      /\ t.nodes[out].prev_leaf_ \in Int /\ t.nodes[out].next_leaf_ \in Int
  BY NodeFacts
<1> DEFINE K == KeptKeys(t, left, out, least, greatest)
           prev == IF left THEN firstLeaf ELSE t.nodes[out].prev_leaf_
           next == IF left THEN t.nodes[out].next_leaf_ ELSE firstLeaf
           S == [is_leaf_ : {TRUE}, level_ : {t.nodes[out].level_},
                 duplication_factor_ : {t.nodes[out].duplication_factor_},
                 keys : {K}, prev_leaf_ : {prev}, next_leaf_ : {next}]
<1>2. K \in SUBSET Key
  BY <1>1 DEF KeptKeys
<1>3. prev \in Int /\ next \in Int
  BY <1>1
<1>4. firstLeaf + 1 - 1 = firstLeaf
  OBVIOUS
<1>5. Trimmed(t, left, out, least, greatest, firstLeaf) \in S
  BY <1>1, <1>4 DEF Trimmed, LeafNodes, KeptKeys
<1>6. ASSUME NEW m \in S
      PROVE  LeafLike(t.nodes[out], m, K, prev, next)
  <2> HIDE DEF K, prev, next
  <2> QED
    BY <1>1, <1>2, <1>3 DEF LeafLike, LeafNodes
<1> QED
  BY <1>5, <1>6

\* The log of a power of two is found.
LEMMA LogIsFound ==
    ASSUME NEW x \in Nat
    PROVE  (CHOOSE d \in 0 .. 2^x : 2^d = 2^x) \in Nat
           /\ 2^(CHOOSE d \in 0 .. 2^x : 2^d = 2^x) = 2^x
<1>1. x \in 0 .. 2^x
  BY PowerExceeds, PowerFacts
<1> QED
  BY <1>1

\* A new leaf beyond the old domain.
IsLeafBeyond(t, left, f, out, firstLeaf, n, level, i, m) ==
    /\ m \in LeafNodes /\ m.is_leaf_ /\ m.level_ = level + 1 /\ Repeats(m) = n
    /\ m.keys = Moved(t, left, DomainSize(t), f, out, i)
    /\ m.prev_leaf_ = IF left THEN Outward(firstLeaf, f, i) ELSE Inward(firstLeaf, out, i)
    /\ m.next_leaf_ = IF left THEN Inward(firstLeaf, out, i) ELSE Outward(firstLeaf, f, i)

\* A leaf for keys beyond the old domain.
LEMMA LeafBeyondFacts ==
    ASSUME NEW t, IsTree(t), NEW left \in BOOLEAN, NEW f \in Nat, NEW out \in Leaves(t),
           NEW firstLeaf \in Nat, NEW n, NEW x \in Nat, n = 2^x, NEW level \in Int,
           NEW i \in 1 .. f - 1
    PROVE  IsLeafBeyond(t, left, f, out, firstLeaf, n, level, i,
                        LeafBeyond(t, left, DomainSize(t), f, out, firstLeaf, n, level, i))
<1>1. t.nodes[out].keys \subseteq Key /\ out \in Nat
  <2>1. out \in DOMAIN t.nodes
    BY DEF Leaves
  <2> QED
    BY <2>1, NodeFacts
<1> DEFINE K == Moved(t, left, DomainSize(t), f, out, i)
           log == CHOOSE d \in 0 .. n : 2^d = n
           prev == IF left THEN Outward(firstLeaf, f, i) ELSE Inward(firstLeaf, out, i)
           next == IF left THEN Inward(firstLeaf, out, i) ELSE Outward(firstLeaf, f, i)
           m == NewDataNode(K, level + 1, log)
<1>2. K \in SUBSET Key
  BY <1>1 DEF Moved
<1>3. log \in Nat /\ 2^log = n
  BY LogIsFound
<1>4. Outward(firstLeaf, f, i) \in Int /\ Inward(firstLeaf, out, i) \in Int
  BY <1>1 DEF Outward, Inward, NoNode
<1>5. prev \in Int /\ next \in Int
  BY <1>4
<1> HIDE DEF K, log, prev, next
<1>6. /\ m \in LeafNodes /\ m.level_ = level + 1
      /\ m.duplication_factor_ = log /\ m.keys = K
  BY <1>2, <1>3, NewDataNodeFacts
<1>7. LET w == [m EXCEPT !.prev_leaf_ = prev, !.next_leaf_ = next]
      IN  /\ w \in LeafNodes /\ w.is_leaf_ /\ w.level_ = m.level_
          /\ w.duplication_factor_ = m.duplication_factor_ /\ w.keys = m.keys
          /\ w.prev_leaf_ = prev /\ w.next_leaf_ = next
  <2> HIDE DEF m
  <2> QED
    BY <1>5, <1>6, LeafWithLinks
<1>8. LeafBeyond(t, left, DomainSize(t), f, out, firstLeaf, n, level, i)
          = [m EXCEPT !.prev_leaf_ = prev, !.next_leaf_ = next]
  BY DEF LeafBeyond, K, log, prev, next
<1> HIDE DEF m
<1> QED
  BY <1>3, <1>6, <1>7, <1>8 DEF IsLeafBeyond, K, prev, next, Repeats

\* A model node with another start, other children and more of them.
IsFilled(n, m, start, num, children) ==
    /\ IsModel(m) /\ ~m.is_leaf_ /\ m.level_ = n.level_
    /\ m.duplication_factor_ = n.duplication_factor_ /\ m.start = start
    /\ m.width = n.width /\ m.num_children_ = num /\ m.children_ = children

\* A model node whose pointers are filled in.
LEMMA FilledFacts ==
    ASSUME NEW n, IsModel(n), NEW num \in Nat \ {0}, NEW start \in Int,
           NEW children \in [0 .. num - 1 -> Int]
    PROVE  IsFilled(n, [[n EXCEPT !.num_children_ = num] EXCEPT
                            !.start = start, !.children_ = children],
                    start, num, children)
<1>1. n \in [is_leaf_ : {FALSE}, level_ : Int, duplication_factor_ : Nat,
             start : Int, width : Nat \ {0}, rounding : {Exact},
             num_children_ : Nat \ {0}, children_ : [0 .. n.num_children_ - 1 -> Int]]
  BY DEF IsModel
<1> DEFINE S == [is_leaf_ : {FALSE}, level_ : {n.level_},
                 duplication_factor_ : {n.duplication_factor_},
                 start : {start}, width : {n.width}, rounding : {Exact},
                 num_children_ : {num}, children_ : {children}]
<1>2. [[n EXCEPT !.num_children_ = num] EXCEPT !.start = start, !.children_ = children] \in S
  BY <1>1
<1>3. ASSUME NEW m \in S
      PROVE  IsFilled(n, m, start, num, children)
  BY <1>1 DEF IsFilled, IsModel
<1> QED
  BY <1>2, <1>3

-----------------------------------------------------------------------------
\* A tree with a wider root at some address, and new leaves, node by node.
NewAddresses(firstLeaf, f) == {firstLeaf + i - 1 : i \in 1 .. f - 1}

IsWidened(t, t2, left, f, node, filled, out, firstLeaf, n, least, greatest) ==
    /\ IsTree(t2)
    /\ DOMAIN t2.nodes = DOMAIN t.nodes \cup {node} \cup NewAddresses(firstLeaf, f)
    /\ t2.key_domain_min_ = least /\ t2.key_domain_max_ = greatest
    /\ IsModel(t2.nodes[Superroot]) /\ t2.nodes[Superroot].children_[0] = node
    /\ t2.nodes[Superroot].level_ = filled.level_ - 1
    /\ t2.nodes[Superroot].duplication_factor_ = t.nodes[Superroot].duplication_factor_
    /\ t2.nodes[Superroot].start = t.nodes[Superroot].start
    /\ t2.nodes[Superroot].width = t.nodes[Superroot].width
    /\ t2.nodes[Superroot].num_children_ = 1
    /\ t2.nodes[node] = filled
    /\ LeafLike(t.nodes[out], t2.nodes[out], KeptKeys(t, left, out, least, greatest),
                IF left THEN firstLeaf ELSE t.nodes[out].prev_leaf_,
                IF left THEN t.nodes[out].next_leaf_ ELSE firstLeaf)
    /\ \A i \in DOMAIN t.nodes : i \notin {Superroot, node, out} => t2.nodes[i] = t.nodes[i]
    /\ \A i \in 1 .. f - 1 :
           /\ firstLeaf + i - 1 \notin DOMAIN t.nodes \cup {node}
           /\ IsLeafBeyond(t, left, f, out, firstLeaf, n, filled.level_, i,
                           t2.nodes[firstLeaf + i - 1])

\* The superroot, when its child is another.
LEMMA SuperrootOfFacts ==
    ASSUME NEW s, IsModel(s), s.num_children_ = 1, NEW node \in Nat, NEW level \in Int
    PROVE  LET m == SuperrootOf(s, node, level)
           IN  /\ IsModel(m) /\ m.children_[0] = node /\ m.level_ = level
               /\ m.duplication_factor_ = s.duplication_factor_
               /\ m.start = s.start /\ m.width = s.width /\ m.num_children_ = 1
<1> DEFINE children == [b \in {0} |-> node]
           S == [is_leaf_ : {FALSE}, level_ : {level},
                 duplication_factor_ : {s.duplication_factor_},
                 start : {s.start}, width : {s.width}, rounding : {Exact},
                 num_children_ : {1}, children_ : {children}]
<1>1. s \in [is_leaf_ : {FALSE}, level_ : Int, duplication_factor_ : Nat,
             start : Int, width : Nat \ {0}, rounding : {Exact},
             num_children_ : Nat \ {0}, children_ : [0 .. s.num_children_ - 1 -> Int]]
  BY DEF IsModel
<1>2. children \in [0 .. 1 - 1 -> Int] /\ children[0] = node
  <2>1. 0 .. 1 - 1 = {0}
    OBVIOUS
  <2> QED
    BY <2>1
<1> HIDE DEF children
<1>3. SuperrootOf(s, node, level) \in S
  BY <1>1 DEF SuperrootOf, children
<1>4. ASSUME NEW m \in S
      PROVE  /\ IsModel(m) /\ m.children_[0] = node /\ m.level_ = level
             /\ m.duplication_factor_ = s.duplication_factor_
             /\ m.start = s.start /\ m.width = s.width /\ m.num_children_ = 1
  BY <1>1, <1>2 DEF IsModel
<1> QED
  BY <1>3, <1>4

\* The nodes of a tree whose domain is widened.
LEMMA WidenedFacts ==
    ASSUME NEW t, IsTree(t), NEW left \in BOOLEAN, NEW f \in Nat, f >= 2,
           NEW out \in Leaves(t), NEW node, NEW firstLeaf,
           \/ node \in Models(t) \ {Superroot} /\ firstLeaf = t.fresh
           \/ node = t.fresh /\ firstLeaf = t.fresh + 1,
           NEW filled, IsModel(filled), filled.level_ \in Int,
           NEW n, NEW x \in Nat, n = 2^x,
           NEW least \in Int, NEW greatest \in Int
    PROVE  IsWidened(t, TreeWith(t, node, filled, out,
                                 Trimmed(t, left, out, least, greatest, firstLeaf),
                                 left, DomainSize(t), f, firstLeaf, n, least, greatest),
                     left, f, node, filled, out, firstLeaf, n, least, greatest)
<1> DEFINE trimmed == Trimmed(t, left, out, least, greatest, firstLeaf)
           fresh == firstLeaf + f - 1
           nodes == NodesWith(t, node, filled, out, trimmed, left, DomainSize(t), f, firstLeaf, n)
           t2 == TreeWith(t, node, filled, out, trimmed, left, DomainSize(t), f, firstLeaf, n,
                          least, greatest)
           A == NewAddresses(firstLeaf, f)
           D == DOMAIN t.nodes \cup {node} \cup A
<1>1. /\ t.fresh \in Nat /\ \A i \in DOMAIN t.nodes : i \in Nat /\ i < t.fresh
      /\ Superroot \in DOMAIN t.nodes /\ IsModel(t.nodes[Superroot])
      /\ t.nodes[Superroot].num_children_ = 1
      /\ \A i \in DOMAIN t.nodes : IsModel(t.nodes[i]) \/ t.nodes[i] \in LeafNodes
      /\ out \in DOMAIN t.nodes /\ t.nodes[out].is_leaf_
      /\ \A i \in Models(t) : i \in DOMAIN t.nodes /\ ~t.nodes[i].is_leaf_
      /\ Superroot \in Models(t)
  BY NodeFacts DEF IsTree, Leaves
<1>2. /\ firstLeaf \in Nat /\ firstLeaf >= t.fresh /\ node \in Nat /\ node < firstLeaf
      /\ node # Superroot /\ node # out /\ out # Superroot
      /\ fresh \in Nat /\ t.fresh <= fresh /\ node < fresh
      /\ \A i \in 1 .. f - 1 : /\ firstLeaf + i - 1 \in Nat /\ firstLeaf + i - 1 < fresh
                               /\ firstLeaf + i - 1 >= firstLeaf
                               /\ (firstLeaf + i - 1) - firstLeaf + 1 = i
  <2>1. t.fresh # Superroot /\ t.fresh # out
    BY <1>1
  <2> QED
    BY <1>1, <2>1 DEF Superroot
<1>3. nodes = [i \in D |->
                IF i = Superroot THEN SuperrootOf(t.nodes[i], node, filled.level_ - 1)
                ELSE IF i = node THEN filled
                ELSE IF i = out THEN trimmed
                ELSE IF i \in DOMAIN t.nodes THEN t.nodes[i]
                ELSE LeafBeyond(t, left, DomainSize(t), f, out, firstLeaf, n, filled.level_,
                        i - firstLeaf + 1)]
  BY DEF NodesWith, NewAddresses
<1>4. \A i \in 1 .. f - 1 : /\ firstLeaf + i - 1 \in A /\ firstLeaf + i - 1 \in D
                            /\ firstLeaf + i - 1 \notin DOMAIN t.nodes \cup {node}
  <2> SUFFICES ASSUME NEW i \in 1 .. f - 1
               PROVE  /\ firstLeaf + i - 1 \in A
                      /\ firstLeaf + i - 1 \notin DOMAIN t.nodes \cup {node}
    OBVIOUS
  <2>1. firstLeaf + i - 1 \in A
    BY DEF NewAddresses
  <2>2. firstLeaf + i - 1 >= firstLeaf
    BY <1>2
  <2> HIDE DEF A
  <2> QED
    BY <1>1, <1>2, <2>1, <2>2
<1>5. \A i \in 1 .. f - 1 :
          IsLeafBeyond(t, left, f, out, firstLeaf, n, filled.level_, i, nodes[firstLeaf + i - 1])
  <2> SUFFICES ASSUME NEW i \in 1 .. f - 1
               PROVE  IsLeafBeyond(t, left, f, out, firstLeaf, n, filled.level_, i,
                                   nodes[firstLeaf + i - 1])
    OBVIOUS
  <2> DEFINE a == firstLeaf + i - 1
  <2>1. a \in D /\ a \notin DOMAIN t.nodes /\ a # node /\ a - firstLeaf + 1 = i
    BY <1>2, <1>4
  <2> HIDE DEF a, nodes, trimmed, D
  <2>2. nodes[a] = LeafBeyond(t, left, DomainSize(t), f, out, firstLeaf, n, filled.level_, i)
    BY <1>1, <1>3, <2>1
  <2>3. IsLeafBeyond(t, left, f, out, firstLeaf, n, filled.level_, i,
                     LeafBeyond(t, left, DomainSize(t), f, out, firstLeaf, n, filled.level_, i))
    BY <1>2, LeafBeyondFacts
  <2>4. IsLeafBeyond(t, left, f, out, firstLeaf, n, filled.level_, i, nodes[a])
    BY <2>2, <2>3
  <2> QED
    BY <2>4 DEF a
<1>6. LeafLike(t.nodes[out], trimmed, KeptKeys(t, left, out, least, greatest),
                IF left THEN firstLeaf ELSE t.nodes[out].prev_leaf_,
                IF left THEN t.nodes[out].next_leaf_ ELSE firstLeaf)
  BY <1>2, TrimmedFacts
<1>7. nodes[out] = trimmed /\ nodes[node] = filled
  <2>1. out \in D /\ node \in D
    BY <1>1
  <2> HIDE DEF nodes, trimmed, D
  <2> QED
    BY <1>2, <1>3, <2>1
<1>8. LET m == nodes[Superroot]
      IN  /\ IsModel(m) /\ m.children_[0] = node /\ m.level_ = filled.level_ - 1
          /\ m.duplication_factor_ = t.nodes[Superroot].duplication_factor_
          /\ m.start = t.nodes[Superroot].start
          /\ m.width = t.nodes[Superroot].width /\ m.num_children_ = 1
  <2>1. Superroot \in D
    BY <1>1
  <2> HIDE DEF nodes, trimmed, D
  <2>2. nodes[Superroot] = SuperrootOf(t.nodes[Superroot], node, filled.level_ - 1)
    BY <1>3, <2>1
  <2> DEFINE level == filled.level_ - 1
  <2>3. level \in Int
    OBVIOUS
  <2> HIDE DEF level
  <2>4. LET m == SuperrootOf(t.nodes[Superroot], node, level)
        IN  /\ IsModel(m) /\ m.children_[0] = node /\ m.level_ = level
            /\ m.duplication_factor_ = t.nodes[Superroot].duplication_factor_
            /\ m.start = t.nodes[Superroot].start
            /\ m.width = t.nodes[Superroot].width /\ m.num_children_ = 1
    <3> DEFINE s == t.nodes[Superroot]
    <3>1. IsModel(s) /\ s.num_children_ = 1
      BY <1>1
    <3>2. node \in Nat
      BY <1>2
    <3> HIDE DEF s
    <3>3. LET m == SuperrootOf(s, node, level)
          IN  /\ IsModel(m) /\ m.children_[0] = node /\ m.level_ = level
              /\ m.duplication_factor_ = s.duplication_factor_
              /\ m.start = s.start /\ m.width = s.width /\ m.num_children_ = 1
      BY <2>3, <3>1, <3>2, SuperrootOfFacts
    <3> QED
      BY <3>3 DEF s
  <2> QED
    BY <2>2, <2>4 DEF level
<1>9. \A i \in DOMAIN t.nodes : i \notin {Superroot, node, out} => nodes[i] = t.nodes[i]
  <2>1. \A i \in DOMAIN t.nodes : i \in D
    OBVIOUS
  <2> HIDE DEF nodes, trimmed, D
  <2> QED
    BY <1>3, <2>1
<1>10. DOMAIN nodes = D
  <2> HIDE DEF D, trimmed
  <2> QED
    BY <1>3
<1>11. AreNodes(nodes, fresh)
  <2>1. nodes = [i \in DOMAIN nodes |-> nodes[i]]
    <3> HIDE DEF D, trimmed
    <3> QED
      BY <1>3
  <2>2. D \subseteq 0 .. fresh - 1
    BY <1>1, <1>2 DEF NewAddresses
  <2>3. \A i \in D : IsModel(nodes[i]) \/ nodes[i] \in LeafNodes
    <3> SUFFICES ASSUME NEW i \in D
                 PROVE  IsModel(nodes[i]) \/ nodes[i] \in LeafNodes
      OBVIOUS
    <3> HIDE DEF nodes, trimmed
    <3>1. CASE i \in {Superroot, node, out}
      BY <1>6, <1>7, <1>8, <3>1 DEF LeafLike
    <3>2. CASE i \in DOMAIN t.nodes /\ i \notin {Superroot, node, out}
      BY <1>1, <1>9, <3>2
    <3>3. CASE i \in A
      <4>1. PICK j \in 1 .. f - 1 : i = firstLeaf + j - 1
        BY <3>3 DEF NewAddresses
      <4> QED
        BY <1>5, <4>1 DEF IsLeafBeyond
    <3> QED
      BY <3>1, <3>2, <3>3
  <2>4. Superroot \in D
    BY <1>1
  <2> HIDE DEF nodes, D, fresh
  <2> QED
    BY <1>2, <1>8, <1>10, <2>1, <2>2, <2>3, <2>4 DEF AreNodes
<1>12. t2 = TreeOf(nodes, fresh, least, greatest)
  <2> HIDE DEF nodes, trimmed
  <2>1. t = [nodes |-> t.nodes, fresh |-> t.fresh, key_domain_min_ |-> t.key_domain_min_,
             key_domain_max_ |-> t.key_domain_max_]
    BY DEF IsTree
  <2>2. t2 = [t EXCEPT !.nodes = nodes, !.fresh = fresh,
                       !.key_domain_min_ = least, !.key_domain_max_ = greatest]
    BY DEF TreeWith, nodes, trimmed
  <2> HIDE DEF t2, fresh
  <2> QED
    BY <2>1, <2>2 DEF TreeOf
<1>13. /\ IsTree(t2) /\ t2.nodes = nodes
       /\ t2.key_domain_min_ = least /\ t2.key_domain_max_ = greatest
  <2> HIDE DEF nodes, t2, fresh
  <2> QED
    BY <1>11, <1>12, TreeOfFacts
<1> HIDE DEF t2, nodes, trimmed, fresh
<1>14. IsWidened(t, t2, left, f, node, filled, out, firstLeaf, n, least, greatest)
  BY <1>4, <1>5, <1>6, <1>7, <1>8, <1>9, <1>10, <1>13 DEF IsWidened
<1> QED
  BY <1>14 DEF t2, trimmed

-----------------------------------------------------------------------------
\* The slots of a wider domain: the i-th new leaf is the i-th from the old one.
SlotFor(left, f, i) == IF left THEN f - 1 - i ELSE i
SlotEdges(t, left, f) == [s \in 0 .. f |-> LeastOf(t, left, f) + s * DomainSize(t)]
LeafForSlot(left, f, out, firstLeaf) ==
    [s \in 0 .. f - 1 |-> IF SlotFor(left, f, s) = 0 THEN out
                          ELSE firstLeaf + SlotFor(left, f, s) - 1]
SlotOfLeaf(t2, left, f, firstLeaf) ==
    [i \in DOMAIN t2.nodes |-> SlotFor(left, f, i - firstLeaf + 1)]

\* Where the slots begin, seen from the old domain.
SeenFromOld(t, left, f, edges) ==
    /\ \A s \in 0 .. f : edges[s] \in Int
    /\ \A s, u \in 0 .. f : s < u => edges[s] < edges[u]
    /\ edges[0] = LeastOf(t, left, f) /\ edges[f] = GreatestOf(t, left, f)
    /\ edges[SlotFor(left, f, 0)] = t.key_domain_min_
    /\ edges[SlotFor(left, f, 0) + 1] = t.key_domain_max_
    /\ ~left => \A s \in 0 .. f : edges[s] = t.key_domain_max_ + (s - 1) * DomainSize(t)
    /\ left => \A s \in 0 .. f : edges[s] = t.key_domain_min_ - (f - 1 - s) * DomainSize(t)

\* Where the slots of a widened domain end.
LEMMA SlotEdgeFacts ==
    ASSUME NEW t, t.key_domain_min_ \in Int, t.key_domain_max_ \in Int,
           DomainSize(t) \in Nat, DomainSize(t) > 0,
           NEW left \in BOOLEAN, NEW f \in Nat, f >= 2
    PROVE  SeenFromOld(t, left, f, SlotEdges(t, left, f))
<1> DEFINE e == SlotEdges(t, left, f)
           z == DomainSize(t)
           l == LeastOf(t, left, f)
<1>1. z \in Nat /\ z > 0 /\ t.key_domain_max_ = t.key_domain_min_ + z
  BY DEF DomainSize
<1>2. \A s \in 0 .. f : e[s] = l + s * z
  BY DEF SlotEdges
<1> HIDE DEF e, z, l
<1>3. f * z \in Int /\ (f - 1) * z = f * z - z /\ 0 * z = 0 /\ 1 * z = z
  <2>1. f * z \in Int /\ ((f - 1) + 1) * z = (f - 1) * z + 1 * z /\ (f - 1) * z \in Int
    BY <1>1, Products
  <2>2. (f - 1) + 1 = f
    OBVIOUS
  <2>3. 0 * z = 0 /\ 1 * z = z
    BY <1>1
  <2> QED
    BY <1>1, <2>1, <2>2, <2>3
<1>4. l = IF left THEN t.key_domain_max_ - f * z ELSE t.key_domain_min_
  BY DEF l, z, LeastOf
<1>5. l \in Int
  BY <1>1, <1>3, <1>4
<1>6. ASSUME NEW s \in 0 .. f
      PROVE  e[s] \in Int /\ s * z \in Int
  <2>1. s * z \in Int
    BY <1>1, Products
  <2> QED
    BY <1>2, <1>5, <2>1
<1>7. ASSUME NEW s \in 0 .. f, NEW u \in 0 .. f, s < u
      PROVE  e[s] < e[u]
  <2>1. s * z \in Int /\ u * z \in Int /\ s * z < u * z
    BY <1>1, <1>7, Products
  <2>2. e[s] = l + s * z /\ e[u] = l + u * z
    BY <1>2
  <2> QED
    BY <1>5, <2>1, <2>2
<1>8. ASSUME ~left
      PROVE  \A s \in 0 .. f : e[s] = t.key_domain_max_ + (s - 1) * z
  <2> SUFFICES ASSUME NEW s \in 0 .. f
               PROVE  e[s] = t.key_domain_max_ + (s - 1) * z
    OBVIOUS
  <2>1. ((s - 1) + 1) * z = (s - 1) * z + 1 * z /\ (s - 1) * z \in Int
    BY <1>1, Products
  <2>2. (s - 1) + 1 = s
    OBVIOUS
  <2>3. e[s] = l + s * z
    BY <1>2
  <2> QED
    BY <1>1, <1>3, <1>4, <1>5, <1>6, <1>8, <2>1, <2>2, <2>3
<1>9. ASSUME left
      PROVE  \A s \in 0 .. f : e[s] = t.key_domain_min_ - (f - 1 - s) * z
  <2> SUFFICES ASSUME NEW s \in 0 .. f
               PROVE  e[s] = t.key_domain_min_ - (f - 1 - s) * z
    OBVIOUS
  <2>1. ((f - 1 - s) + s) * z = (f - 1 - s) * z + s * z /\ (f - 1 - s) * z \in Int
    BY <1>1, Products
  <2>2. (f - 1 - s) + s = f - 1
    OBVIOUS
  <2>3. e[s] = l + s * z
    BY <1>2
  <2> QED
    BY <1>1, <1>3, <1>4, <1>5, <1>6, <1>9, <2>1, <2>2, <2>3
<1>10. e[0] = l /\ e[f] = GreatestOf(t, left, f)
  <2>1. GreatestOf(t, left, f) = IF left THEN t.key_domain_max_ ELSE t.key_domain_min_ + f * z
    BY DEF GreatestOf, z
  <2>2. e[0] = l + 0 * z /\ e[f] = l + f * z
    BY <1>2
  <2> QED
    BY <1>1, <1>3, <1>4, <1>5, <2>1, <2>2
<1>11. /\ e[SlotFor(left, f, 0)] = t.key_domain_min_
       /\ e[SlotFor(left, f, 0) + 1] = t.key_domain_max_
  <2>1. CASE left
    <3>1. SlotFor(left, f, 0) = f - 1 /\ f - 1 \in 0 .. f /\ (f - 1) + 1 = f
      BY <2>1 DEF SlotFor
    <3>2. e[f - 1] = l + (f - 1) * z
      BY <1>2, <3>1
    <3>3. e[f - 1] = t.key_domain_min_
      BY <1>1, <1>3, <1>4, <1>5, <2>1, <3>2
    <3>4. e[f] = t.key_domain_max_
      BY <1>10, <2>1 DEF GreatestOf
    <3> QED
      BY <3>1, <3>3, <3>4
  <2>2. CASE ~left
    <3>1. SlotFor(left, f, 0) = 0 /\ 1 \in 0 .. f /\ 0 + 1 = 1
      BY <2>2 DEF SlotFor
    <3>2. e[1] = l + 1 * z /\ e[0] = l
      BY <1>2, <1>10, <3>1
    <3> QED
      BY <1>1, <1>3, <1>4, <1>5, <2>2, <3>1, <3>2
  <2> QED
    BY <2>1, <2>2
<1>12. SeenFromOld(t, left, f, e)
  BY <1>6, <1>7, <1>8, <1>9, <1>10, <1>11 DEF SeenFromOld, l, z
<1> QED
  BY <1>12 DEF e

\* The slots and the leaves for them.
LEMMA SlotForFacts ==
    ASSUME NEW left \in BOOLEAN, NEW f \in Nat, f >= 2
    PROVE  /\ \A i \in 0 .. f - 1 : /\ SlotFor(left, f, i) \in 0 .. f - 1
                                    /\ SlotFor(left, f, SlotFor(left, f, i)) = i
           /\ \A i, j \in 0 .. f - 1 : SlotFor(left, f, i) = j => SlotFor(left, f, j) = i
           /\ SlotFor(left, f, 0) \in 0 .. f - 1
BY DEF SlotFor

\* The edges of a widened domain are in order.
LEMMA WidenedAreSlots ==
    ASSUME NEW t, NEW left \in BOOLEAN, NEW f \in Nat, f >= 2,
           NEW edges, SeenFromOld(t, left, f, edges)
    PROVE  AreSlots(edges, f, SlotFor(left, f, 0))
BY SlotForFacts DEF AreSlots, SeenFromOld

\* The new leaves, and the outermost one, are each for a slot.
LEMMA WidenedAreForSlots ==
    ASSUME NEW t, NEW t1, NEW t2, NEW left \in BOOLEAN, NEW f \in Nat, f >= 2,
           NEW out, NEW firstLeaf \in Nat,
           DOMAIN t2.nodes = DOMAIN t1.nodes \cup NewAddresses(firstLeaf, f),
           \A i \in 1 .. f - 1 : firstLeaf + i - 1 \notin DOMAIN t1.nodes
    PROVE  AreForSlots(t1, t2, f, SlotFor(left, f, 0), out,
                       LeafForSlot(left, f, out, firstLeaf),
                       SlotOfLeaf(t2, left, f, firstLeaf))
<1> DEFINE leaves == LeafForSlot(left, f, out, firstLeaf)
           slot == SlotOfLeaf(t2, left, f, firstLeaf)
           q == SlotFor(left, f, 0)
<1>1. /\ \A i \in 0 .. f - 1 : /\ SlotFor(left, f, i) \in 0 .. f - 1
                               /\ SlotFor(left, f, SlotFor(left, f, i)) = i
      /\ \A i, j \in 0 .. f - 1 : SlotFor(left, f, i) = j => SlotFor(left, f, j) = i
      /\ q \in 0 .. f - 1
  BY SlotForFacts
<1>2. \A s \in 0 .. f - 1 : leaves[s] = IF SlotFor(left, f, s) = 0 THEN out
                                        ELSE firstLeaf + SlotFor(left, f, s) - 1
  BY DEF LeafForSlot
<1>3. \A i \in DOMAIN t2.nodes : slot[i] = SlotFor(left, f, i - firstLeaf + 1)
  BY DEF SlotOfLeaf
<1>4. \A i : i \in NewLeaves(t1, t2) <=> \E j \in 1 .. f - 1 : i = firstLeaf + j - 1
  BY DEF NewLeaves, NewAddresses
<1> HIDE DEF leaves, slot, q
<1>5. leaves[q] = out
  <2>1. SlotFor(left, f, q) = 0
    BY <1>1 DEF q
  <2> QED
    BY <1>1, <1>2, <2>1
<1>6. ASSUME NEW s \in 0 .. f - 1, s # q
      PROVE  leaves[s] \in NewLeaves(t1, t2) /\ slot[leaves[s]] = s
  <2> DEFINE j == SlotFor(left, f, s)
  <2>1. j \in 0 .. f - 1 /\ SlotFor(left, f, j) = s
    BY <1>1
  <2>2. j # 0
    BY <1>6, <2>1 DEF q
  <2>3. leaves[s] = firstLeaf + j - 1 /\ j \in 1 .. f - 1
    BY <1>2, <2>1, <2>2
  <2> HIDE DEF j
  <2>4. leaves[s] \in NewLeaves(t1, t2) /\ leaves[s] \in DOMAIN t2.nodes
    BY <1>4, <2>3 DEF NewLeaves
  <2>5. leaves[s] - firstLeaf + 1 = j
    BY <2>3
  <2> QED
    BY <1>3, <2>1, <2>4, <2>5
<1>7. ASSUME NEW i \in NewLeaves(t1, t2)
      PROVE  slot[i] \in 0 .. f - 1 /\ slot[i] # q /\ leaves[slot[i]] = i
  <2>1. PICK j \in 1 .. f - 1 : i = firstLeaf + j - 1
    BY <1>4
  <2>2. slot[i] = SlotFor(left, f, j) /\ j \in 0 .. f - 1 /\ 0 \in 0 .. f - 1
    <3>1. i \in DOMAIN t2.nodes /\ i - firstLeaf + 1 = j
      BY <2>1 DEF NewLeaves
    <3> QED
      BY <1>3, <3>1
  <2>3. slot[i] \in 0 .. f - 1 /\ SlotFor(left, f, slot[i]) = j
    BY <1>1, <2>2
  <2>4. slot[i] # q
    <3>1. SlotFor(left, f, q) = 0
      BY <1>1, <2>2 DEF q
    <3> QED
      BY <2>3, <3>1
  <2> QED
    BY <1>2, <2>1, <2>3, <2>4
<1>8. DOMAIN t1.nodes \subseteq DOMAIN t2.nodes
  OBVIOUS
<1>9. AreForSlots(t1, t2, f, q, out, leaves, slot)
  BY <1>5, <1>6, <1>7, <1>8 DEF AreForSlots
<1> QED
  BY <1>9 DEF leaves, slot, q

-----------------------------------------------------------------------------
\* A tree that differs from another one only in the node that will be the wider
\* root, which is its root, and in the superroot's level and pointer.
SameBut(t, t1, node) ==
    /\ DOMAIN t1.nodes = DOMAIN t.nodes \cup {node}
    /\ t1.key_domain_min_ = t.key_domain_min_ /\ t1.key_domain_max_ = t.key_domain_max_
    /\ Root(t1) = node /\ node \in Models(t1) /\ node # Superroot
    /\ \A i \in DOMAIN t.nodes : i # node =>
           /\ t1.nodes[i].is_leaf_ = t.nodes[i].is_leaf_
           /\ t1.nodes[i].duplication_factor_ = t.nodes[i].duplication_factor_
           /\ i # Superroot => t1.nodes[i].level_ = t.nodes[i].level_
    /\ \A i \in Models(t) : i # node =>
           /\ t1.nodes[i].start = t.nodes[i].start
           /\ t1.nodes[i].width = t.nodes[i].width
           /\ t1.nodes[i].num_children_ = t.nodes[i].num_children_
           /\ i # Superroot => t1.nodes[i].children_ = t.nodes[i].children_
    /\ \A i \in Leaves(t) :
           /\ t1.nodes[i].keys = t.nodes[i].keys
           /\ t1.nodes[i].next_leaf_ = t.nodes[i].next_leaf_
           /\ t1.nodes[i].prev_leaf_ = t.nodes[i].prev_leaf_

IsWiderRoot(t1, node, filled, left, f, n, firstLeaf) ==
    /\ IsModel(filled)
    /\ t1.nodes[node].num_children_ = n
    /\ t1.nodes[node].duplication_factor_ = filled.duplication_factor_
    /\ t1.nodes[node].level_ = filled.level_
    /\ t1.nodes[node].width = filled.width
    /\ filled.num_children_ = n * f
    /\ filled.start = IF left THEN t1.nodes[node].start - (f - 1) * n * filled.width
                      ELSE t1.nodes[node].start
    /\ \A b \in 0 .. n * f - 1 :
           filled.children_[b] =
               IF SlotFor(left, f, b \div n) > 0
               THEN firstLeaf + SlotFor(left, f, b \div n) - 1
               ELSE t1.nodes[node].children_[b % n]

\* Nodes that are kept.
LEMMA WidenedKeepsNodes ==
    ASSUME NEW t, IsTree(t), NEW t1, IsTree(t1), NEW node, SameBut(t, t1, node),
           NEW filled, NEW left, NEW f \in Nat, NEW n, NEW firstLeaf,
           IsWiderRoot(t1, node, filled, left, f, n, firstLeaf),
           NEW out \in Leaves(t), NEW least, NEW greatest, NEW t2,
           IsWidened(t, t2, left, f, node, filled, out, firstLeaf, n, least, greatest)
    PROVE  KeepsNodes(t1, t2, node)
<1>1. /\ Superroot \in DOMAIN t.nodes /\ Superroot \in Models(t) /\ ~t.nodes[Superroot].is_leaf_
      /\ t.nodes[Superroot].num_children_ = 1
      /\ out \in DOMAIN t.nodes /\ t.nodes[out].is_leaf_
      /\ \A i \in Models(t) : i \in DOMAIN t.nodes /\ ~t.nodes[i].is_leaf_
  BY NodeFacts DEF IsTree, Leaves
<1>2. /\ node # Superroot /\ node \in Models(t1) /\ ~t1.nodes[node].is_leaf_ /\ out # node
      /\ t1.nodes[Superroot].num_children_ = 1 /\ Root(t1) = node
      /\ \A i \in Models(t1) : i # node => i \in Models(t)
      /\ \A i \in DOMAIN t1.nodes : i # node => i \in DOMAIN t.nodes
      /\ t1.nodes[Superroot].children_ \in [0 .. 0 -> Int]
  <2>1. node # Superroot /\ node \in Models(t1) /\ Root(t1) = node
    BY DEF SameBut
  <2>2. ~t1.nodes[node].is_leaf_
    BY <2>1, NodeFacts
  <2>3. \A i \in DOMAIN t1.nodes : i # node => i \in DOMAIN t.nodes
    BY DEF SameBut
  <2>4. \A i \in Models(t1) : i # node => i \in Models(t)
    <3>1. \A i \in DOMAIN t.nodes : i # node => t1.nodes[i].is_leaf_ = t.nodes[i].is_leaf_
      BY DEF SameBut
    <3> QED
      BY <2>3, <3>1 DEF Models, Leaves
  <2>5. t1.nodes[Superroot].num_children_ = 1
    BY DEF IsTree
  <2>6. t1.nodes[Superroot].children_ \in [0 .. t1.nodes[Superroot].num_children_ - 1 -> Int]
    BY NodeFacts
  <2>7. out # node
    <3>1. SUFFICES ASSUME out = node PROVE FALSE
      OBVIOUS
    <3>2. t2.nodes[node] = filled /\ ~filled.is_leaf_
      BY DEF IsWidened, IsWiderRoot, IsModel
    <3>3. t2.nodes[out].is_leaf_
      BY DEF IsWidened, LeafLike
    <3> QED
      BY <3>1, <3>2, <3>3
  <2> QED
    BY <2>1, <2>2, <2>3, <2>4, <2>5, <2>6, <2>7
<1>3. /\ t2.nodes[node] = filled /\ ~filled.is_leaf_
      /\ filled.is_leaf_ \in {FALSE} /\ t1.nodes[node].is_leaf_ \in {FALSE}
      /\ t1.nodes[node].duplication_factor_ = filled.duplication_factor_
      /\ t1.nodes[node].level_ = filled.level_
  <2>1. IsModel(t1.nodes[node])
    BY <1>2, NodeFacts
  <2> QED
    BY <1>2, <2>1 DEF IsWidened, IsWiderRoot, IsModel
<1>4. /\ t2.nodes[Superroot].is_leaf_ \in {FALSE} /\ t.nodes[Superroot].is_leaf_ \in {FALSE}
      /\ t2.nodes[Superroot].children_ \in [0 .. 0 -> Int]
      /\ t2.nodes[Superroot].children_[0] = node
      /\ t2.nodes[Superroot].level_ = filled.level_ - 1
      /\ t2.nodes[Superroot].duplication_factor_ = t.nodes[Superroot].duplication_factor_
      /\ t2.nodes[Superroot].start = t.nodes[Superroot].start
      /\ t2.nodes[Superroot].width = t.nodes[Superroot].width
      /\ t2.nodes[Superroot].num_children_ = 1
  <2>1. IsModel(t2.nodes[Superroot]) /\ t2.nodes[Superroot].num_children_ = 1
    BY DEF IsWidened
  <2>2. IsModel(t.nodes[Superroot])
    BY DEF IsTree
  <2>3. t2.nodes[Superroot].children_ \in [0 .. t2.nodes[Superroot].num_children_ - 1 -> Int]
    BY <2>1 DEF IsModel
  <2>4. t2.nodes[Superroot].is_leaf_ \in {FALSE} /\ t.nodes[Superroot].is_leaf_ \in {FALSE}
    BY <2>1, <2>2 DEF IsModel
  <2>5. t2.nodes[Superroot].children_ \in [0 .. 0 -> Int]
    BY <2>1, <2>3
  <2> QED
    BY <2>1, <2>4, <2>5 DEF IsWidened
<1>5. /\ t2.nodes[out].is_leaf_ \in {TRUE} /\ t.nodes[out].is_leaf_ \in {TRUE}
      /\ t2.nodes[out].duplication_factor_ = t.nodes[out].duplication_factor_
      /\ t2.nodes[out].level_ = t.nodes[out].level_
  <2>1. t2.nodes[out] \in LeafNodes /\ t.nodes[out] \in LeafNodes
    BY NodeFacts DEF IsWidened, LeafLike
  <2> QED
    BY <2>1 DEF IsWidened, LeafLike, LeafNodes
<1>6. \A i \in DOMAIN t.nodes : i \notin {Superroot, node, out} => t2.nodes[i] = t.nodes[i]
  BY DEF IsWidened
<1>7. ASSUME NEW i \in DOMAIN t1.nodes
      PROVE  /\ t2.nodes[i].is_leaf_ = t1.nodes[i].is_leaf_
             /\ t2.nodes[i].duplication_factor_ = t1.nodes[i].duplication_factor_
             /\ i # Superroot => t2.nodes[i].level_ = t1.nodes[i].level_
  <2>1. CASE i = node
    BY <1>3, <2>1
  <2>2. CASE i # node
    <3>1. /\ i \in DOMAIN t.nodes
          /\ t1.nodes[i].is_leaf_ = t.nodes[i].is_leaf_
          /\ t1.nodes[i].duplication_factor_ = t.nodes[i].duplication_factor_
          /\ i # Superroot => t1.nodes[i].level_ = t.nodes[i].level_
      BY <1>2, <2>2 DEF SameBut
    <3>2. CASE i = Superroot
      BY <1>4, <3>1, <3>2
    <3>3. CASE i = out
      BY <1>1, <1>5, <3>1, <3>3
    <3>4. CASE i \notin {Superroot, node, out}
      BY <1>6, <3>1, <3>4
    <3> QED
      BY <2>2, <3>2, <3>3, <3>4
  <2> QED
    BY <2>1, <2>2
<1>8. ASSUME NEW i \in Models(t1), i # node
      PROVE  /\ t2.nodes[i].start = t1.nodes[i].start
             /\ t2.nodes[i].width = t1.nodes[i].width
             /\ t2.nodes[i].num_children_ = t1.nodes[i].num_children_
             /\ t2.nodes[i].children_ = t1.nodes[i].children_
  <2>1. /\ i \in Models(t) /\ t1.nodes[i].start = t.nodes[i].start
        /\ t1.nodes[i].width = t.nodes[i].width
        /\ t1.nodes[i].num_children_ = t.nodes[i].num_children_
        /\ i # Superroot => t1.nodes[i].children_ = t.nodes[i].children_
    BY <1>2, <1>8 DEF SameBut
  <2>2. CASE i = Superroot
    <3>1. t1.nodes[Superroot].children_[0] = node
      BY <1>2 DEF Root
    <3>2. t2.nodes[Superroot].children_ = t1.nodes[Superroot].children_
      <4> DEFINE v == t2.nodes[Superroot].children_
                 w == t1.nodes[Superroot].children_
      <4>1. v \in [0 .. 0 -> Int] /\ w \in [0 .. 0 -> Int] /\ v[0] = w[0]
        BY <1>2, <1>4, <3>1
      <4> HIDE DEF v, w
      <4>2. \A b \in 0 .. 0 : b = 0
        OBVIOUS
      <4>3. v = w
        BY <4>1, <4>2
      <4> QED
        BY <4>3 DEF v, w
    <3> QED
      BY <1>1, <1>2, <1>4, <2>1, <2>2, <3>2
  <2>3. CASE i # Superroot
    <3>1. i # out /\ i \in DOMAIN t.nodes
      BY <1>1, <2>1
    <3> QED
      BY <1>6, <1>8, <2>1, <2>3, <3>1
  <2> QED
    BY <2>2, <2>3
<1>9. t2.nodes[Superroot].level_ < t2.nodes[node].level_
  <2>1. filled.level_ \in Int
    BY DEF IsWiderRoot, IsModel
  <2> QED
    BY <1>3, <1>4, <2>1
<1> QED
  BY <1>7, <1>8, <1>9 DEF KeepsNodes

\* Products of integers.
LEMMA ProductOfInts ==
    ASSUME NEW a \in Int, NEW b \in Int
    PROVE  a * b \in Int
OBVIOUS

\* A product of three factors.
LEMMA ProductOfThree ==
    ASSUME NEW a \in Int, NEW b \in Int, NEW c \in Int
    PROVE  (a * b) * c = a * (b * c)
OBVIOUS

\* An edge of a slot is the first one and so many sizes more.
LEMMA SlotEdgeIs ==
    ASSUME NEW t, NEW left, NEW f, NEW s \in 0 .. f
    PROVE  SlotEdges(t, left, f)[s] = LeastOf(t, left, f) + s * DomainSize(t)
BY DEF SlotEdges

\* The root's pointers and model, which divide the wider domain.
LEMMA WidenedGrowsRoot ==
    ASSUME NEW t, NEW t1, IsTree(t1), NEW node, SameBut(t, t1, node),
           NEW filled, NEW left \in BOOLEAN, NEW f \in Nat, f >= 2, \E y \in Nat : f = 2^y,
           NEW n \in Nat, n > 0, NEW firstLeaf,
           IsWiderRoot(t1, node, filled, left, f, n, firstLeaf),
           DomainSize(t) \in Nat, DomainSize(t) > 0,
           Edge(t1.nodes[node], 0) = t.key_domain_min_,
           Edge(t1.nodes[node], n) = t.key_domain_max_,
           NEW t2, t2.nodes[node] = filled,
           t2.key_domain_min_ = LeastOf(t, left, f),
           t2.key_domain_max_ = GreatestOf(t, left, f),
           NEW out, NEW edges, SeenFromOld(t, left, f, edges),
           edges = SlotEdges(t, left, f)
    PROVE  GrowsRoot(t1, t2, node, edges, f, SlotFor(left, f, 0),
                     LeafForSlot(left, f, out, firstLeaf))
<1> DEFINE s == t1.nodes[node].start
           w == t1.nodes[node].width
           q == SlotFor(left, f, 0)
           z == DomainSize(t)
           leaves == LeafForSlot(left, f, out, firstLeaf)
<1>1. s \in Int /\ w \in Nat /\ w > 0 /\ t1.nodes[node].num_children_ = n
  BY NodeFacts DEF SameBut, IsWiderRoot
<1>2. /\ filled.width = w /\ filled.num_children_ = n * f
      /\ filled.start = IF left THEN s - (f - 1) * n * w ELSE s
      /\ \A b \in 0 .. n * f - 1 :
           filled.children_[b] =
               IF SlotFor(left, f, b \div n) > 0
               THEN firstLeaf + SlotFor(left, f, b \div n) - 1
               ELSE t1.nodes[node].children_[b % n]
  BY DEF IsWiderRoot
<1>3. /\ q \in 0 .. f - 1
      /\ left => q = f - 1
  BY DEF SlotFor
<1>4. ~left => q = 0
  BY DEF SlotFor
<1>5. \A b \in Int : Edge(filled, b) = filled.start + b * w
  BY <1>2 DEF Edge
<1>6. \A b \in Int : Edge(t1.nodes[node], b) = s + b * w
  BY DEF Edge
<1>7. t.key_domain_min_ = s /\ t.key_domain_max_ = s + n * w /\ z = n * w
  <2>1. t.key_domain_min_ = s + 0 * w /\ t.key_domain_max_ = s + n * w
    BY <1>6
  <2>2. n * w \in Int
    BY <1>1, Products
  <2> HIDE DEF s, w
  <2>3. 0 * w = 0
    BY <1>1
  <2>4. z = t.key_domain_max_ - t.key_domain_min_
    BY DEF DomainSize
  <2> QED
    BY <1>1, <2>1, <2>2, <2>3, <2>4
<1>8. filled.start = s - (q * n) * w
  <2>1. CASE left
    <3>1. q = f - 1 /\ filled.start = s - (f - 1) * n * w
      BY <1>2, <1>3, <2>1
    <3> HIDE DEF s, w, q
    <3> QED
      BY <3>1
  <2>2. CASE ~left
    <3> HIDE DEF s, w, q
    <3>1. (0 * n) * w = 0
      BY <1>1
    <3> QED
      BY <1>1, <1>2, <1>4, <2>2, <3>1
  <2> QED
    BY <2>1, <2>2
<1> HIDE DEF s, w, z, q, leaves
<1>9. q * n \in Int /\ (q * n) * w \in Int
  <2>1. q * n \in Int
    BY <1>3, ProductOfInts
  <2> QED
    BY <1>1, <2>1, ProductOfInts
<1>10. \A b \in Int : Edge(filled, b + q * n) = Edge(t1.nodes[node], b)
  <2> SUFFICES ASSUME NEW b \in Int
               PROVE  Edge(filled, b + q * n) = Edge(t1.nodes[node], b)
    OBVIOUS
  <2> DEFINE m == q * n
  <2>1. m \in Int /\ m * w \in Int
    BY <1>9
  <2>2. filled.start = s - m * w
    BY <1>8
  <2> HIDE DEF m
  <2>3. (b + m) * w = b * w + m * w /\ b * w \in Int
    BY <1>1, <2>1, Products
  <2>4. Edge(filled, b + m) = filled.start + (b + m) * w
    BY <1>5, <2>1
  <2>5. Edge(filled, b + m) = s + b * w
    BY <1>1, <2>1, <2>2, <2>3, <2>4
  <2> QED
    BY <1>6, <2>5 DEF m
<1>11. \A u \in 0 .. f : Edge(filled, u * n) = edges[u]
  <2> SUFFICES ASSUME NEW u \in 0 .. f
               PROVE  Edge(filled, u * n) = edges[u]
    OBVIOUS
  <2>1. u * n \in Int
    BY Products
  <2>2. Edge(filled, u * n) = filled.start + (u * n) * w
    BY <1>5, <2>1
  <2>3. (u * n) * w = u * z /\ (q * n) * w = q * z
    <3>1. (u * n) * w = u * (n * w) /\ (q * n) * w = q * (n * w)
      BY <1>1, <1>3, ProductOfThree
    <3> QED
      BY <1>7, <3>1
  <2>4. edges[u] = LeastOf(t, left, f) + u * z /\ edges[q] = LeastOf(t, left, f) + q * z
    <3>1. q \in 0 .. f
      BY <1>3
    <3> QED
      BY <3>1, SlotEdgeIs DEF z
  <2>5. edges[q] = s
    BY <1>7 DEF SeenFromOld, q
  <2>6. u * z \in Int /\ q * z \in Int
    BY <1>3, ProductOfInts DEF z
  <2>7. edges[q] \in Int /\ LeastOf(t, left, f) \in Int
    <3>1. 0 \in 0 .. f
      OBVIOUS
    <3> QED
      BY <1>1, <2>5, <3>1 DEF SeenFromOld
  <2> QED
    BY <1>1, <1>8, <2>2, <2>3, <2>4, <2>5, <2>6, <2>7
<1>12. ASSUME NEW b \in 0 .. n * f - 1
       PROVE  filled.children_[b] = IF b \div n = q THEN t1.nodes[node].children_[b % n]
                                    ELSE leaves[b \div n]
  <2> DEFINE u == b \div n
  <2>1. u \in 0 .. f - 1
    BY Groups
  <2>2. filled.children_[b] = IF SlotFor(left, f, u) > 0 THEN firstLeaf + SlotFor(left, f, u) - 1
                              ELSE t1.nodes[node].children_[b % n]
    BY <1>2
  <2>3. leaves[u] = IF SlotFor(left, f, u) = 0 THEN out ELSE firstLeaf + SlotFor(left, f, u) - 1
    BY <2>1 DEF leaves, LeafForSlot
  <2> HIDE DEF u
  <2>4. SlotFor(left, f, u) \in 0 .. f - 1 /\ (SlotFor(left, f, u) = 0 <=> u = q)
    BY <2>1 DEF SlotFor, q
  <2>5. filled.children_[b] = IF u = q THEN t1.nodes[node].children_[b % n] ELSE leaves[u]
    BY <2>2, <2>3, <2>4
  <2> QED
    BY <2>5 DEF u
<1>13. t2.key_domain_min_ = edges[0] /\ t2.key_domain_max_ = edges[f]
  BY DEF SeenFromOld
<1>14. GrowsRoot(t1, t2, node, edges, f, q, leaves)
  BY <1>1, <1>2, <1>10, <1>11, <1>12, <1>13 DEF GrowsRoot
<1> QED
  BY <1>14 DEF q, leaves

-----------------------------------------------------------------------------
\* What a new leaf gets is what lies in its slot.
LEMMA MovedAreInSlot ==
    ASSUME NEW t, NEW left \in BOOLEAN, NEW f \in Nat, f >= 2,
           NEW edges, SeenFromOld(t, left, f, edges),
           NEW out, t.nodes[out].keys \subseteq Int, NEW i \in 1 .. f - 1
    PROVE  Moved(t, left, DomainSize(t), f, out, i)
               = {k \in t.nodes[out].keys : InSlot(edges, f, SlotFor(left, f, i), k)}
<1> DEFINE s == SlotFor(left, f, i)
           size == DomainSize(t)
<1>1. ASSUME NEW k \in t.nodes[out].keys
      PROVE  (Beyond(t, left, size, k, i - 1) /\ (i < f - 1 => ~Beyond(t, left, size, k, i)))
                 <=> InSlot(edges, f, s, k)
  <2>1. k \in Int
    OBVIOUS
  <2>2. CASE left
    <3>1. s = f - 1 - i /\ s < f - 1 /\ (s > 0 <=> i < f - 1) /\ s \in 0 .. f /\ s + 1 \in 0 .. f
      BY <2>2 DEF SlotFor
    <3>2. f - 1 - s = i /\ f - 1 - (s + 1) = i - 1
      BY <3>1
    <3> HIDE DEF s, size
    <3>3. /\ edges[s] = t.key_domain_min_ - (f - 1 - s) * size
          /\ edges[s + 1] = t.key_domain_min_ - (f - 1 - (s + 1)) * size
          /\ edges[s] \in Int /\ edges[s + 1] \in Int
      <4>1. \A u \in 0 .. f : /\ edges[u] = t.key_domain_min_ - (f - 1 - u) * size
                              /\ edges[u] \in Int
        BY <2>2 DEF SeenFromOld, size
      <4> QED
        BY <3>1, <4>1
    <3>4. edges[s] = t.key_domain_min_ - i * size /\ edges[s + 1] = t.key_domain_min_ - (i - 1) * size
      BY <3>2, <3>3
    <3>5. Beyond(t, left, size, k, i - 1) <=> k < edges[s + 1]
      BY <2>2, <3>4 DEF Beyond
    <3>6. Beyond(t, left, size, k, i) <=> k < edges[s]
      BY <2>2, <3>4 DEF Beyond
    <3>7. InSlot(edges, f, s, k) <=> (i < f - 1 => edges[s] <= k) /\ k < edges[s + 1]
      BY <3>1 DEF InSlot
    <3>8. (~(k < edges[s])) <=> edges[s] <= k
      BY <2>1, <3>3
    <3> QED
      BY <3>5, <3>6, <3>7, <3>8
  <2>3. CASE ~left
    <3>1. s = i /\ s > 0 /\ s \in 0 .. f /\ s + 1 \in 0 .. f
      BY <2>3 DEF SlotFor
    <3> HIDE DEF s, size
    <3>2. s + 1 - 1 = i
      BY <3>1
    <3>3. /\ edges[s] = t.key_domain_max_ + (s - 1) * size
          /\ edges[s + 1] = t.key_domain_max_ + (s + 1 - 1) * size
          /\ edges[s] \in Int /\ edges[s + 1] \in Int
      <4>1. \A u \in 0 .. f : /\ edges[u] = t.key_domain_max_ + (u - 1) * size
                              /\ edges[u] \in Int
        BY <2>3 DEF SeenFromOld, size
      <4> QED
        BY <3>1, <4>1
    <3>4. edges[s] = t.key_domain_max_ + (i - 1) * size /\ edges[s + 1] = t.key_domain_max_ + i * size
      BY <3>1, <3>2, <3>3
    <3>5. Beyond(t, left, size, k, i - 1) <=> k >= edges[s]
      BY <2>3, <3>4 DEF Beyond
    <3>6. Beyond(t, left, size, k, i) <=> k >= edges[s + 1]
      BY <2>3, <3>4 DEF Beyond
    <3>7. InSlot(edges, f, s, k) <=> edges[s] <= k /\ (i < f - 1 => k < edges[s + 1])
      BY <3>1 DEF InSlot
    <3>8. /\ (~(k >= edges[s + 1])) <=> k < edges[s + 1]
          /\ k >= edges[s] <=> edges[s] <= k
      BY <2>1, <3>3
    <3> QED
      BY <3>5, <3>6, <3>7, <3>8
  <2> QED
    BY <2>2, <2>3
<1> HIDE DEF s, size
<1>2. Moved(t, left, size, f, out, i) = {k \in t.nodes[out].keys : InSlot(edges, f, s, k)}
  BY <1>1 DEF Moved
<1> QED
  BY <1>2 DEF s, size

\* What the old outermost leaf keeps is what lies in the old domain's slot.
LEMMA KeptAreInSlot ==
    ASSUME NEW t, NEW left, NEW f, IsGrowth(t, left, f),
           t.key_domain_min_ \in Int, t.key_domain_max_ \in Int,
           NEW edges, SeenFromOld(t, left, f, edges),
           NEW out, out = OutermostNode(t, left), t.nodes[out].keys \subseteq Int
    PROVE  KeptKeys(t, left, out, LeastOf(t, left, f), GreatestOf(t, left, f))
               = {k \in t.nodes[out].keys : InSlot(edges, f, SlotFor(left, f, 0), k)}
<1> DEFINE l == LeastOf(t, left, f)
           g == GreatestOf(t, left, f)
           q == SlotFor(left, f, 0)
<1>1. /\ left \in BOOLEAN /\ f \in Nat /\ f >= 2
      /\ left => \A k \in t.nodes[out].keys : l <= k
      /\ ~left => \A k \in t.nodes[out].keys : k <= g
  BY DEF IsGrowth
<1>2. /\ edges[q] = t.key_domain_min_ /\ edges[q + 1] = t.key_domain_max_
      /\ edges[0] = l /\ edges[f] = g /\ \A u \in 0 .. f : edges[u] \in Int
  BY DEF SeenFromOld
<1>3. l \in Int /\ g \in Int
  BY <1>1, <1>2
<1>4. left => q > 0 /\ ~(q < f - 1)
  BY <1>1 DEF SlotFor
<1>5. ~left => ~(q > 0) /\ q < f - 1
  BY <1>1 DEF SlotFor
<1> HIDE DEF l, g, q
<1>6. ASSUME NEW k \in t.nodes[out].keys
      PROVE  (IF left THEN k < l \/ k >= t.key_domain_min_ ELSE k < t.key_domain_max_ \/ k > g)
                 <=> InSlot(edges, f, q, k)
  <2>1. k \in Int
    OBVIOUS
  <2>2. CASE left
    <3>1. l <= k
      BY <1>1, <2>2
    <3>2. InSlot(edges, f, q, k) <=> t.key_domain_min_ <= k
      BY <1>2, <1>4, <2>2 DEF InSlot
    <3> QED
      BY <1>3, <2>1, <2>2, <3>1, <3>2
  <2>3. CASE ~left
    <3>1. k <= g
      BY <1>1, <2>3
    <3>2. InSlot(edges, f, q, k) <=> k < t.key_domain_max_
      BY <1>2, <1>5, <2>3 DEF InSlot
    <3> QED
      BY <1>3, <2>1, <2>3, <3>1, <3>2
  <2> QED
    BY <1>1, <2>2, <2>3
<1>7. KeptKeys(t, left, out, l, g) = {k \in t.nodes[out].keys : InSlot(edges, f, q, k)}
  BY <1>6 DEF KeptKeys
<1> QED
  BY <1>7 DEF l, g, q

\* The leaves on both sides of a new leaf, and of the old outermost one.
AreLinked(left, f, out, firstLeaf, leaves) ==
    /\ \A i \in 1 .. f - 1 :
           LET s == SlotFor(left, f, i)
           IN  /\ (IF s = f - 1 THEN NoNode ELSE leaves[s + 1])
                      = IF left THEN Inward(firstLeaf, out, i) ELSE Outward(firstLeaf, f, i)
               /\ (IF s = 0 THEN NoNode ELSE leaves[s - 1])
                      = IF left THEN Outward(firstLeaf, f, i) ELSE Inward(firstLeaf, out, i)
    /\ left => SlotFor(left, f, 0) = f - 1 /\ leaves[SlotFor(left, f, 0) - 1] = firstLeaf
    /\ ~left => SlotFor(left, f, 0) = 0 /\ leaves[SlotFor(left, f, 0) + 1] = firstLeaf

\* The links of the leaves in a widened domain.
LEMMA WidenedLinks ==
    ASSUME NEW left \in BOOLEAN, NEW f \in Nat, f >= 2, NEW out, NEW firstLeaf \in Nat
    PROVE  AreLinked(left, f, out, firstLeaf, LeafForSlot(left, f, out, firstLeaf))
<1> DEFINE leaves == LeafForSlot(left, f, out, firstLeaf)
<1>1. \A s \in 0 .. f - 1 : leaves[s] = IF SlotFor(left, f, s) = 0 THEN out
                                        ELSE firstLeaf + SlotFor(left, f, s) - 1
  BY DEF LeafForSlot
<1> HIDE DEF leaves
<1>2. ASSUME left PROVE AreLinked(left, f, out, firstLeaf, leaves)
  <2>1. \A s : SlotFor(left, f, s) = f - 1 - s
    BY <1>2 DEF SlotFor
  <2>2. \A s \in 0 .. f - 1 : leaves[s] = IF f - 1 - s = 0 THEN out ELSE firstLeaf + (f - 1 - s) - 1
    BY <1>1, <2>1
  <2>3. ASSUME NEW i \in 1 .. f - 1
        PROVE  LET s == f - 1 - i
               IN  /\ (IF s = f - 1 THEN NoNode ELSE leaves[s + 1]) = Inward(firstLeaf, out, i)
                   /\ (IF s = 0 THEN NoNode ELSE leaves[s - 1]) = Outward(firstLeaf, f, i)
    <3> DEFINE s == f - 1 - i
    <3>1. s # f - 1 /\ s + 1 \in 0 .. f - 1 /\ f - 1 - (s + 1) = i - 1
      OBVIOUS
    <3>2. leaves[s + 1] = IF i - 1 = 0 THEN out ELSE firstLeaf + (i - 1) - 1
      BY <2>2, <3>1
    <3>3. leaves[s + 1] = Inward(firstLeaf, out, i)
      BY <3>2 DEF Inward
    <3>4. s = 0 <=> ~(i < f - 1)
      OBVIOUS
    <3>5. s # 0 => leaves[s - 1] = firstLeaf + (i + 1) - 1
      <4>1. s # 0 => s - 1 \in 0 .. f - 1 /\ f - 1 - (s - 1) = i + 1 /\ i + 1 # 0
        OBVIOUS
      <4> QED
        BY <2>2, <4>1
    <3> HIDE DEF s
    <3>6. (IF s = 0 THEN NoNode ELSE leaves[s - 1]) = Outward(firstLeaf, f, i)
      BY <3>4, <3>5 DEF Outward
    <3>7. (IF s = f - 1 THEN NoNode ELSE leaves[s + 1]) = Inward(firstLeaf, out, i)
      BY <3>1, <3>3
    <3> QED
      BY <3>6, <3>7 DEF s
  <2>4. leaves[f - 1 - 0 - 1] = firstLeaf
    <3>1. f - 1 - 0 - 1 \in 0 .. f - 1 /\ f - 1 - (f - 1 - 0 - 1) = 1
      OBVIOUS
    <3> QED
      BY <2>2, <3>1
  <2>5. SlotFor(left, f, 0) = f - 1 /\ SlotFor(left, f, 0) = f - 1 - 0
    BY <2>1
  <2>6. leaves[SlotFor(left, f, 0) - 1] = firstLeaf
    BY <2>4, <2>5
  <2>7. \A i \in 1 .. f - 1 :
            LET s == SlotFor(left, f, i)
            IN  /\ (IF s = f - 1 THEN NoNode ELSE leaves[s + 1]) = Inward(firstLeaf, out, i)
                /\ (IF s = 0 THEN NoNode ELSE leaves[s - 1]) = Outward(firstLeaf, f, i)
    BY <2>1, <2>3
  <2> QED
    BY <1>2, <2>5, <2>6, <2>7 DEF AreLinked
<1>3. ASSUME ~left PROVE AreLinked(left, f, out, firstLeaf, leaves)
  <2>1. \A s : SlotFor(left, f, s) = s
    BY <1>3 DEF SlotFor
  <2>2. \A s \in 0 .. f - 1 : leaves[s] = IF s = 0 THEN out ELSE firstLeaf + s - 1
    BY <1>1, <2>1
  <2>3. ASSUME NEW i \in 1 .. f - 1
        PROVE  /\ (IF i = f - 1 THEN NoNode ELSE leaves[i + 1]) = Outward(firstLeaf, f, i)
               /\ (IF i = 0 THEN NoNode ELSE leaves[i - 1]) = Inward(firstLeaf, out, i)
    <3>1. i # 0 /\ i - 1 \in 0 .. f - 1 /\ (i - 1 = 0 <=> ~(i > 1))
      OBVIOUS
    <3>2. leaves[i - 1] = IF i - 1 = 0 THEN out ELSE firstLeaf + (i - 1) - 1
      BY <2>2, <3>1
    <3>3. leaves[i - 1] = Inward(firstLeaf, out, i)
      BY <3>1, <3>2 DEF Inward
    <3>4. i < f - 1 => leaves[i + 1] = firstLeaf + (i + 1) - 1
      BY <2>2
    <3>5. i = f - 1 <=> ~(i < f - 1)
      OBVIOUS
    <3> QED
      BY <3>1, <3>3, <3>4, <3>5 DEF Outward
  <2>4. leaves[0 + 1] = firstLeaf
    <3>1. 0 + 1 \in 0 .. f - 1 /\ 0 + 1 # 0 /\ firstLeaf + (0 + 1) - 1 = firstLeaf
      OBVIOUS
    <3> QED
      BY <2>2, <3>1
  <2> QED
    BY <1>3, <2>1, <2>3, <2>4 DEF AreLinked
<1> QED
  BY <1>2, <1>3 DEF leaves

-----------------------------------------------------------------------------
\* The leaves of the wider tree.
LEMMA WidenedAddsLeaves ==
    ASSUME NEW t, IsTree(t), NEW t1, NEW node, SameBut(t, t1, node),
           NEW filled, NEW left, NEW f, IsGrowth(t, left, f),
           NEW n, NEW firstLeaf \in Nat, IsWiderRoot(t1, node, filled, left, f, n, firstLeaf),
           NEW out, out = OutermostNode(t, left), NEW t2,
           IsWidened(t, t2, left, f, node, filled, out, firstLeaf, n,
                     LeastOf(t, left, f), GreatestOf(t, left, f)),
           NEW edges, SeenFromOld(t, left, f, edges), Leaves(t1) = Leaves(t)
    PROVE  AddsLeaves(t1, t2, node, edges, f, SlotFor(left, f, 0), out,
                      LeafForSlot(left, f, out, firstLeaf))
<1> DEFINE leaves == LeafForSlot(left, f, out, firstLeaf)
           q == SlotFor(left, f, 0)
           old == t.nodes[out]
<1>1. left \in BOOLEAN /\ f \in Nat /\ f >= 2 /\ out \in Leaves(t)
  BY DEF IsGrowth
<1>2. /\ out \in DOMAIN t.nodes /\ old.keys \subseteq Int /\ out # Superroot
      /\ t.key_domain_min_ \in Int /\ t.key_domain_max_ \in Int
      /\ Superroot \notin Leaves(t) /\ \A i \in Leaves(t) : i \in DOMAIN t.nodes
  <2>1. /\ old.keys \subseteq Key /\ Superroot \in Models(t)
        /\ t.key_domain_min_ \in Int /\ t.key_domain_max_ \in Int
    BY <1>1, NodeFacts
  <2> QED
    BY <1>1, <2>1, KeysAreWithinTheType DEF Leaves, Models
<1>3. /\ t1.nodes[node].num_children_ = n /\ t2.nodes[node] = filled
      /\ filled.level_ \in Int /\ node \notin Leaves(t)
  <2>1. node \notin Leaves(t1)
    BY DEF SameBut, Models
  <2> QED
    BY <2>1 DEF IsWiderRoot, IsWidened, IsModel
<1>4. \A i \in Leaves(t) : /\ t1.nodes[i].keys = t.nodes[i].keys
                           /\ t1.nodes[i].next_leaf_ = t.nodes[i].next_leaf_
                           /\ t1.nodes[i].prev_leaf_ = t.nodes[i].prev_leaf_
  BY DEF SameBut
<1>5. /\ \A i \in 1 .. f - 1 :
             LET s == SlotFor(left, f, i)
             IN  /\ (IF s = f - 1 THEN NoNode ELSE leaves[s + 1])
                        = IF left THEN Inward(firstLeaf, out, i)
                          ELSE Outward(firstLeaf, f, i)
                 /\ (IF s = 0 THEN NoNode ELSE leaves[s - 1])
                        = IF left THEN Outward(firstLeaf, f, i)
                          ELSE Inward(firstLeaf, out, i)
      /\ left => q = f - 1 /\ leaves[q - 1] = firstLeaf
      /\ ~left => q = 0 /\ leaves[q + 1] = firstLeaf
  <2>1. AreLinked(left, f, out, firstLeaf, leaves)
    BY <1>1, WidenedLinks
  <2> QED
    BY <2>1 DEF AreLinked
<1>6. \A s \in 0 .. f - 1 : /\ SlotFor(left, f, s) \in 0 .. f - 1
                            /\ SlotFor(left, f, SlotFor(left, f, s)) = s
  BY <1>1, SlotForFacts
<1>7. \A s \in 0 .. f - 1 : leaves[s] = IF SlotFor(left, f, s) = 0 THEN out
                                        ELSE firstLeaf + SlotFor(left, f, s) - 1
  BY DEF LeafForSlot
<1>8. \A i \in 1 .. f - 1 :
          IsLeafBeyond(t, left, f, out, firstLeaf, n, filled.level_, i, t2.nodes[firstLeaf + i - 1])
  BY DEF IsWidened
<1>9. LeafLike(old, t2.nodes[out],
               KeptKeys(t, left, out, LeastOf(t, left, f), GreatestOf(t, left, f)),
               IF left THEN firstLeaf ELSE old.prev_leaf_,
               IF left THEN old.next_leaf_ ELSE firstLeaf)
  BY DEF IsWidened
<1>10. \A i \in DOMAIN t.nodes : i \notin {Superroot, node, out} => t2.nodes[i] = t.nodes[i]
  BY DEF IsWidened
<1> HIDE DEF leaves, q
<1>11. ASSUME NEW s \in 0 .. f - 1, s # q
       PROVE  LET m == t2.nodes[leaves[s]]
              IN  /\ m.is_leaf_ /\ m.level_ > t2.nodes[node].level_
                  /\ Repeats(m) = t1.nodes[node].num_children_
                  /\ m.keys = {k \in t1.nodes[out].keys : InSlot(edges, f, s, k)}
                  /\ m.next_leaf_ = IF s = f - 1 THEN NoNode ELSE leaves[s + 1]
                  /\ m.prev_leaf_ = IF s = 0 THEN NoNode ELSE leaves[s - 1]
  <2> DEFINE i == SlotFor(left, f, s)
             m == t2.nodes[leaves[s]]
  <2>1. i \in 0 .. f - 1 /\ SlotFor(left, f, i) = s
    BY <1>6
  <2>2. i # 0 /\ i \in 1 .. f - 1
    BY <1>1, <1>11, <2>1 DEF q
  <2>3. leaves[s] = firstLeaf + i - 1
    BY <1>7, <2>2
  <2> HIDE DEF i
  <2>4. IsLeafBeyond(t, left, f, out, firstLeaf, n, filled.level_, i, m)
    BY <1>8, <2>2, <2>3
  <2> HIDE DEF m
  <2>5. /\ m.is_leaf_ /\ m.level_ = filled.level_ + 1 /\ Repeats(m) = n
        /\ m.keys = Moved(t, left, DomainSize(t), f, out, i)
        /\ m.prev_leaf_ = IF left THEN Outward(firstLeaf, f, i) ELSE Inward(firstLeaf, out, i)
        /\ m.next_leaf_ = IF left THEN Inward(firstLeaf, out, i) ELSE Outward(firstLeaf, f, i)
    BY <2>4 DEF IsLeafBeyond
  <2>6. m.keys = {k \in old.keys : InSlot(edges, f, s, k)}
    BY <1>1, <1>2, <2>1, <2>2, <2>5, MovedAreInSlot
  <2>7. /\ m.next_leaf_ = IF s = f - 1 THEN NoNode ELSE leaves[s + 1]
        /\ m.prev_leaf_ = IF s = 0 THEN NoNode ELSE leaves[s - 1]
    BY <1>5, <2>1, <2>2, <2>5
  <2>8. m.level_ > t2.nodes[node].level_
    BY <1>3, <2>5
  <2>9. m.keys = {k \in t1.nodes[out].keys : InSlot(edges, f, s, k)}
    BY <1>1, <1>4, <2>6
  <2> QED
    BY <1>3, <2>5, <2>7, <2>8, <2>9 DEF m
<1>12. t2.nodes[out].keys = {k \in t1.nodes[out].keys : InSlot(edges, f, q, k)}
  <2>1. t2.nodes[out].keys = KeptKeys(t, left, out, LeastOf(t, left, f), GreatestOf(t, left, f))
    BY <1>9 DEF LeafLike
  <2>2. KeptKeys(t, left, out, LeastOf(t, left, f), GreatestOf(t, left, f))
            = {k \in old.keys : InSlot(edges, f, SlotFor(left, f, 0), k)}
    BY <1>2, KeptAreInSlot
  <2> QED
    BY <1>1, <1>4, <2>1, <2>2 DEF q
<1>13. /\ t2.nodes[out].next_leaf_ = IF q = f - 1 THEN t1.nodes[out].next_leaf_ ELSE leaves[q + 1]
       /\ t2.nodes[out].prev_leaf_ = IF q = 0 THEN t1.nodes[out].prev_leaf_ ELSE leaves[q - 1]
  <2>1. /\ t2.nodes[out].prev_leaf_ = IF left THEN firstLeaf ELSE old.prev_leaf_
        /\ t2.nodes[out].next_leaf_ = IF left THEN old.next_leaf_ ELSE firstLeaf
    BY <1>9 DEF LeafLike
  <2>2. f - 1 # 0
    BY <1>1
  <2>3. t1.nodes[out].next_leaf_ = old.next_leaf_ /\ t1.nodes[out].prev_leaf_ = old.prev_leaf_
    BY <1>1, <1>4
  <2> QED
    BY <1>1, <1>5, <2>1, <2>2, <2>3
<1>14. ASSUME NEW i \in Leaves(t1), i # out
       PROVE  /\ t2.nodes[i].keys = t1.nodes[i].keys
              /\ t2.nodes[i].next_leaf_ = t1.nodes[i].next_leaf_
              /\ t2.nodes[i].prev_leaf_ = t1.nodes[i].prev_leaf_
  <2>1. i \in Leaves(t) /\ i \in DOMAIN t.nodes /\ i \notin {Superroot, node, out}
    BY <1>2, <1>3, <1>14
  <2>2. t2.nodes[i] = t.nodes[i]
    BY <1>10, <2>1
  <2> QED
    BY <1>4, <2>1, <2>2
<1>15. AddsLeaves(t1, t2, node, edges, f, q, out, leaves)
  BY <1>11, <1>12, <1>13, <1>14 DEF AddsLeaves
<1> QED
  BY <1>15 DEF leaves, q

\* All of that: the root grows.
LEMMA WidenedIsGrown ==
    ASSUME NEW t, IsTree(t), NEW t1, IsTree(t1), NEW node, SameBut(t, t1, node),
           Leaves(t1) = Leaves(t),
           NEW filled, NEW left, NEW f, IsGrowth(t, left, f),
           NEW n \in Nat, n > 0, NEW firstLeaf \in Nat,
           IsWiderRoot(t1, node, filled, left, f, n, firstLeaf),
           NEW t2,
           IsWidened(t, t2, left, f, node, filled, OutermostNode(t, left), firstLeaf, n,
                     LeastOf(t, left, f), GreatestOf(t, left, f)),
           Edge(t1.nodes[node], 0) = t.key_domain_min_,
           Edge(t1.nodes[node], n) = t.key_domain_max_,
           NEW from, NEW to,
           left => from[OutermostNode(t, left)] = t.key_domain_min_,
           ~left => to[OutermostNode(t, left)] = t.key_domain_max_
    PROVE  IsGrown(t1, from, to, t2, node, SlotEdges(t, left, f), f, SlotFor(left, f, 0),
                   OutermostNode(t, left), LeafForSlot(left, f, OutermostNode(t, left), firstLeaf),
                   SlotOfLeaf(t2, left, f, firstLeaf))
<1> DEFINE edges == SlotEdges(t, left, f)
           q == SlotFor(left, f, 0)
           out == OutermostNode(t, left)
           leaves == LeafForSlot(left, f, out, firstLeaf)
           slot == SlotOfLeaf(t2, left, f, firstLeaf)
<1>1. /\ left \in BOOLEAN /\ f \in Nat /\ f >= 2 /\ \E y \in Nat : f = 2^y
      /\ DomainSize(t) \in Nat /\ DomainSize(t) > 0 /\ out \in Leaves(t)
  BY DEF IsGrowth
<1>2. t.key_domain_min_ \in Int /\ t.key_domain_max_ \in Int
  BY NodeFacts
<1>3. SeenFromOld(t, left, f, edges)
  BY <1>1, <1>2, SlotEdgeFacts
<1> HIDE DEF out
<1>4. AreSlots(edges, f, q)
  <2> HIDE DEF edges
  <2> QED
    BY <1>1, <1>3, WidenedAreSlots
<1>5. AreForSlots(t1, t2, f, q, out, leaves, slot)
  <2>1. DOMAIN t2.nodes = DOMAIN t1.nodes \cup NewAddresses(firstLeaf, f)
    BY DEF IsWidened, SameBut
  <2>2. \A i \in 1 .. f - 1 : firstLeaf + i - 1 \notin DOMAIN t1.nodes
    BY DEF IsWidened, SameBut
  <2> QED
    BY <1>1, <2>1, <2>2, WidenedAreForSlots
<1>6. KeepsNodes(t1, t2, node)
  BY <1>1, WidenedKeepsNodes DEF out
<1>7. GrowsRoot(t1, t2, node, edges, f, q, leaves)
  <2>1. /\ t2.nodes[node] = filled
        /\ t2.key_domain_min_ = LeastOf(t, left, f)
        /\ t2.key_domain_max_ = GreatestOf(t, left, f)
    BY DEF IsWidened
  <2> QED
    BY <1>1, <1>3, <2>1, WidenedGrowsRoot
<1>8. AddsLeaves(t1, t2, node, edges, f, q, out, leaves)
  <2> HIDE DEF edges
  <2> QED
    BY <1>3, WidenedAddsLeaves DEF out
<1>9. IsOutermost(t1, from, to, edges, f, q, out)
  <2>1. ~t1.nodes[Root(t1)].is_leaf_
    <3>1. Root(t1) = node /\ node \in Models(t1)
      BY DEF SameBut
    <3> QED
      BY <3>1, NodeFacts
  <2>2. t1.key_domain_min_ = t.key_domain_min_ /\ t1.key_domain_max_ = t.key_domain_max_
    BY DEF SameBut
  <2>3. /\ q > 0 => left
        /\ q < f - 1 => ~left
    BY <1>1 DEF SlotFor
  <2>4. edges[q] = t.key_domain_min_ /\ edges[q + 1] = t.key_domain_max_
    BY <1>3 DEF SeenFromOld
  <2>5. /\ left => from[out] = t.key_domain_min_
        /\ ~left => to[out] = t.key_domain_max_
    BY DEF out
  <2> HIDE DEF edges, q
  <2> QED
    BY <1>1, <2>1, <2>2, <2>3, <2>4, <2>5 DEF IsOutermost
<1>10. IsTree(t2) /\ node = Root(t1)
  BY DEF IsWidened, SameBut
<1> HIDE DEF edges, q, leaves, slot
<1>11. IsGrown(t1, from, to, t2, node, edges, f, q, out, leaves, slot)
  BY <1>4, <1>5, <1>6, <1>7, <1>8, <1>9, <1>10 DEF IsGrown
<1> QED
  BY <1>11 DEF edges, q, out, leaves, slot

-----------------------------------------------------------------------------
\* Pointers of a wider root are addresses.
ArePointers(t, left, f, grows, n) ==
    /\ n \in Nat /\ n > 0 /\ n * f \in Nat \ {0}
    /\ PointersOf(t, left, f, grows) \in [0 .. n * f - 1 -> Int]
    /\ \A b \in 0 .. n * f - 1 :
           PointersOf(t, left, f, grows)[b] =
               IF SlotFor(left, f, b \div n) > 0
               THEN FirstLeafBeyond(t, grows) + SlotFor(left, f, b \div n) - 1
               ELSE IF grows THEN t.nodes[Root(t)].children_[b % n] ELSE Root(t)

\* The pointers of a widened node are addresses.
LEMMA PointersAreAddresses ==
    ASSUME NEW t, NEW left \in BOOLEAN, NEW f \in Nat, f >= 2, NEW grows \in BOOLEAN,
           IsTree(t), Root(t) \in Models(t), NEW n, n = OldPointers(t, grows)
    PROVE  ArePointers(t, left, f, grows, n)
<1> DEFINE r == t.nodes[Root(t)]
           g == PointersOf(t, left, f, grows)
           leaf == FirstLeafBeyond(t, grows)
<1>1. /\ r.num_children_ \in Nat /\ r.num_children_ > 0 /\ t.fresh \in Nat
      /\ r.children_ \in [0 .. r.num_children_ - 1 -> Int]
      /\ Root(t) \in Int
  <2>1. Root(t) \in DOMAIN t.nodes
    BY DEF Models
  <2> QED
    BY <2>1, NodeFacts
<1>2. n \in Nat /\ n > 0 /\ (grows => n = r.num_children_)
  BY <1>1 DEF OldPointers
<1>3. n * f \in Nat /\ n * f > 0
  <2>1. 0 * f < n * f /\ n * f \in Int /\ 0 * f \in Int
    BY <1>2, Products
  <2>2. 0 * f = 0
    OBVIOUS
  <2> QED
    BY <2>1, <2>2
<1>4. \A b \in 0 .. n * f - 1 :
          g[b] = IF SlotFor(left, f, b \div n) > 0
                 THEN leaf + SlotFor(left, f, b \div n) - 1
                 ELSE IF grows THEN r.children_[b % n] ELSE Root(t)
  BY DEF PointersOf, Group, SlotFor
<1>5. g = [b \in 0 .. n * f - 1 |-> g[b]]
  BY DEF PointersOf
<1>6. leaf \in Int
  BY <1>1 DEF FirstLeafBeyond
<1> HIDE DEF r, g, leaf
<1>7. ASSUME NEW b \in 0 .. n * f - 1
      PROVE  g[b] \in Int
  <2> DEFINE s == SlotFor(left, f, b \div n)
             d == b % n
  <2>1. b \div n \in 0 .. f - 1 /\ d \in 0 .. n - 1
    BY <1>2, Groups
  <2>2. s \in Int
    <3> HIDE DEF d
    <3> QED
      BY <2>1, SlotForFacts
  <2>3. g[b] = IF s > 0 THEN leaf + s - 1 ELSE IF grows THEN r.children_[d] ELSE Root(t)
    BY <1>4
  <2> HIDE DEF s, d
  <2>4. grows => r.children_[d] \in Int
    BY <1>1, <1>2, <2>1
  <2> QED
    BY <1>1, <1>6, <2>2, <2>3, <2>4
<1>8. g \in [0 .. n * f - 1 -> Int]
  <2> DEFINE D == 0 .. n * f - 1
  <2>1. g = [b \in D |-> g[b]] /\ \A b \in D : g[b] \in Int
    BY <1>5, <1>7
  <2> HIDE DEF D
  <2>2. g \in [D -> Int]
    BY <2>1
  <2> QED
    BY <2>2 DEF D
<1> QED
  BY <1>2, <1>3, <1>4, <1>8 DEF g, r, leaf, ArePointers

\* The root's model divides the old domain.
LEMMA RootDividesDomain ==
    ASSUME NEW t, NEW parent, NEW first, NEW from, NEW to,
           WellFormed(t, parent, first, from, to), ~t.nodes[Root(t)].is_leaf_
    PROVE  /\ Root(t) \in Models(t) /\ Root(t) # Superroot
           /\ Edge(t.nodes[Root(t)], 0) = t.key_domain_min_
           /\ Edge(t.nodes[Root(t)], t.nodes[Root(t)].num_children_) = t.key_domain_max_
<1>1. /\ Root(t) \in Models(t) /\ Root(t) # Superroot
      /\ from[Root(t)] = t.key_domain_min_ /\ to[Root(t)] = t.key_domain_max_
      /\ \A i \in Models(t) : i # Superroot =>
             /\ from[i] = Edge(t.nodes[i], 0)
             /\ to[i] = Edge(t.nodes[i], t.nodes[i].num_children_)
  BY RegionFacts
<1> QED
  BY <1>1

\* The root gets more pointers.
LEMMA WiderRootIsMerged ==
    ASSUME NEW t, NEW parent, NEW first, NEW from, NEW to,
           WellFormed(t, parent, first, from, to),
           NEW left, NEW f, IsGrowth(t, left, f), NEW grows \in BOOLEAN, grows
    PROVE  IsMerged(t, ExpandedTree(t, left, f, grows, Exact))
<1> DEFINE node == Root(t)
           r == t.nodes[node]
           n == OldPointers(t, grows)
           children == PointersOf(t, left, f, grows)
           bare == BareNode(t, f, grows, Exact)
           filled == Filled(bare, left, f, n, children)
           out == OutermostNode(t, left)
           l == LeastOf(t, left, f)
           h == GreatestOf(t, left, f)
           t2 == ExpandedTree(t, left, f, grows, Exact)
<1>1. /\ left \in BOOLEAN /\ f \in Nat /\ f >= 2 /\ ~r.is_leaf_
      /\ out \in Leaves(t)
  BY DEF IsGrowth
<1>2. IsTree(t) /\ HasRuns(t, parent, first)
  BY WellFormedParts
<1>3. /\ node \in Models(t) /\ node # Superroot
      /\ Edge(r, 0) = t.key_domain_min_
      /\ Edge(r, r.num_children_) = t.key_domain_max_
  BY <1>1, RootDividesDomain
<1>4. IsModel(r) /\ r.start \in Int /\ r.width \in Nat /\ t.fresh \in Nat
  BY <1>2, <1>3, NodeFacts
<1>5. n = r.num_children_ /\ FirstLeafBeyond(t, grows) = t.fresh /\ GrowingNode(t, grows) = node
  BY DEF OldPointers, FirstLeafBeyond, GrowingNode
<1>6. /\ n \in Nat /\ n > 0 /\ n * f \in Nat \ {0}
      /\ children \in [0 .. n * f - 1 -> Int]
      /\ \A b \in 0 .. n * f - 1 :
             children[b] = IF SlotFor(left, f, b \div n) > 0
                           THEN t.fresh + SlotFor(left, f, b \div n) - 1
                           ELSE r.children_[b % n]
  <2>1. /\ n \in Nat /\ n > 0 /\ n * f \in Nat \ {0}
        /\ children \in [0 .. n * f - 1 -> Int]
        /\ \A b \in 0 .. n * f - 1 :
               children[b] = IF SlotFor(left, f, b \div n) > 0
                             THEN FirstLeafBeyond(t, grows) + SlotFor(left, f, b \div n) - 1
                             ELSE IF grows THEN r.children_[b % n] ELSE node
    <3> HIDE DEF n
    <3>1. n = OldPointers(t, grows) 
      BY DEF n
    <3> QED
      <4>1. ArePointers(t, left, f, grows, n)
        BY <1>1, <1>2, <1>3, <3>1, PointersAreAddresses
      <4> QED
        BY <4>1 DEF ArePointers
  <2> HIDE DEF n, children
  <2> QED
    BY <1>5, <2>1
<1>7. PICK x \in Nat : n = 2^x
  BY <1>2, <1>3, <1>5 DEF HasRuns
<1>8. l \in Int /\ h \in Int
  <2>1. /\ t.key_domain_min_ \in Int /\ t.key_domain_max_ \in Int
        /\ DomainSize(t) \in Nat /\ DomainSize(t) > 0
    BY <1>2, NodeFacts DEF IsGrowth
  <2>2. SeenFromOld(t, left, f, SlotEdges(t, left, f))
    BY <1>1, <2>1, SlotEdgeFacts
  <2>3. 0 \in 0 .. f /\ f \in 0 .. f
    BY <1>1
  <2> QED
    BY <2>2, <2>3 DEF SeenFromOld
<1> DEFINE start == IF left THEN r.start - (f - 1) * n * r.width ELSE r.start
<1>9. start \in Int
  <2> HIDE DEF n
  <2>1. (f - 1) * n \in Int
    BY <1>1, <1>6, ProductOfInts
  <2>2. (f - 1) * n * r.width \in Int
    BY <1>4, <2>1, ProductOfInts
  <2> QED
    BY <1>4, <2>2
<1>10. IsFilled(r, filled, start, n * f, children)
  <2>1. filled = [[r EXCEPT !.num_children_ = n * f] EXCEPT !.start = start, !.children_ = children]
    <3>1. bare = [r EXCEPT !.num_children_ = n * f]
      BY DEF BareNode, WiderRoot
    <3>2. bare.width = r.width /\ bare.start = r.start
      BY <1>4, <3>1 DEF IsModel
    <3> HIDE DEF bare, children, n
    <3>3. filled = [bare EXCEPT !.start = start, !.children_ = children]
      BY <3>2 DEF Filled
    <3> QED
      BY <3>1, <3>3
  <2> HIDE DEF filled, start, children, n
  <2>2. \A m : m = n * f => IsFilled(r, [[r EXCEPT !.num_children_ = m] EXCEPT
                                            !.start = start, !.children_ = children],
                                     start, m, children)
    BY <1>4, <1>6, <1>9, FilledFacts
  <2> QED
    BY <2>1, <2>2
<1> HIDE DEF filled, children, start, n
<1>11. IsModel(filled) /\ filled.level_ \in Int
  BY <1>10 DEF IsFilled, IsModel
<1>12. SameBut(t, t, node)
  BY <1>3 DEF SameBut, Models
<1>13. IsWiderRoot(t, node, filled, left, f, n, t.fresh)
  BY <1>5, <1>6, <1>10 DEF IsWiderRoot, IsFilled, start
<1>14. IsWidened(t, t2, left, f, node, filled, out, t.fresh, n, l, h)
  <2>1. t2 = TreeWith(t, node, filled, out, Trimmed(t, left, out, l, h, t.fresh),
                      left, DomainSize(t), f, t.fresh, n, l, h)
    BY <1>5 DEF ExpandedTree, filled, bare, children, n
  <2> HIDE DEF t2, out, l, h, node
  <2>2. IsWidened(t, TreeWith(t, node, filled, out, Trimmed(t, left, out, l, h, t.fresh),
                      left, DomainSize(t), f, t.fresh, n, l, h),
                  left, f, node, filled, out, t.fresh, n, l, h)
    BY <1>1, <1>2, <1>3, <1>7, <1>8, <1>11, WidenedFacts
  <2> QED
    BY <2>1, <2>2
<1>15. /\ left => from[out] = t.key_domain_min_
       /\ ~left => to[out] = t.key_domain_max_
  BY <1>1, OutermostLeaves DEF OutermostNode
<1> HIDE DEF t2
<1>16. IsGrown(t, from, to, t2, node, SlotEdges(t, left, f), f, SlotFor(left, f, 0),
               out, LeafForSlot(left, f, out, t.fresh), SlotOfLeaf(t2, left, f, t.fresh))
  <2>1. Edge(t.nodes[node], n) = t.key_domain_max_
    BY <1>3, <1>5
  <2> QED
    BY <1>2, <1>3, <1>4, <1>6, <1>12, <1>13, <1>14, <1>15, <2>1, WidenedIsGrown
<1>17. IsMerged(t, t2)
  BY <1>16, GrownIsMerged
<1> QED
  BY <1>17 DEF t2

-----------------------------------------------------------------------------
\* A model node with another start and other children.
LEMMA RefilledFacts ==
    ASSUME NEW n, IsModel(n), NEW start \in Int,
           NEW children \in [0 .. n.num_children_ - 1 -> Int]
    PROVE  IsFilled(n, [n EXCEPT !.start = start, !.children_ = children],
                    start, n.num_children_, children)
<1>1. n \in [is_leaf_ : {FALSE}, level_ : Int, duplication_factor_ : Nat,
             start : Int, width : Nat \ {0}, rounding : {Exact},
             num_children_ : Nat \ {0}, children_ : [0 .. n.num_children_ - 1 -> Int]]
  BY DEF IsModel
<1> DEFINE S == [is_leaf_ : {FALSE}, level_ : {n.level_},
                 duplication_factor_ : {n.duplication_factor_},
                 start : {start}, width : {n.width}, rounding : {Exact},
                 num_children_ : {n.num_children_}, children_ : {children}]
<1>2. [n EXCEPT !.start = start, !.children_ = children] \in S
  BY <1>1
<1>3. ASSUME NEW m \in S
      PROVE  IsFilled(n, m, start, n.num_children_, children)
  BY <1>1 DEF IsFilled, IsModel
<1> QED
  BY <1>2, <1>3

\* A tree with a node between the superroot and the root is the same but for that.
LEMMA InterposedIsSame ==
    ASSUME NEW t, IsTree(t), NEW t1, NEW c, c = Root(t), c \in Models(t), c # Superroot,
           t.nodes[c].duplication_factor_ = 0,
           IsInterposed(t, t1, Superroot, c, t.fresh, 0, 0, 1)
    PROVE  SameBut(t, t1, t.fresh) /\ Leaves(t1) = Leaves(t) /\ IsTree(t1)
<1>1. /\ \A i \in DOMAIN t.nodes : i \in Nat /\ i < t.fresh
      /\ t.fresh \in Nat /\ Superroot \in Models(t) /\ t.nodes[Superroot].num_children_ = 1
      /\ \A i \in Models(t) : i \in DOMAIN t.nodes
      /\ \A i \in Leaves(t) : i \in DOMAIN t.nodes
  BY NodeFacts DEF IsTree, Leaves
<1>2. /\ IsTree(t1) /\ DOMAIN t1.nodes = DOMAIN t.nodes \cup {t.fresh}
      /\ t1.key_domain_min_ = t.key_domain_min_ /\ t1.key_domain_max_ = t.key_domain_max_
      /\ \A i \in DOMAIN t.nodes :
             /\ t1.nodes[i].is_leaf_ = t.nodes[i].is_leaf_
             /\ i # c => t1.nodes[i].duplication_factor_ = t.nodes[i].duplication_factor_
             /\ i # c /\ i # Superroot => t1.nodes[i].level_ = t.nodes[i].level_
      /\ t1.nodes[c].level_ = t.nodes[c].level_ /\ t1.nodes[c].duplication_factor_ = 0
      /\ ~t1.nodes[t.fresh].is_leaf_
  BY DEF IsInterposed
<1>3. \A i \in Models(t) :
           /\ t1.nodes[i].start = t.nodes[i].start
           /\ t1.nodes[i].width = t.nodes[i].width
           /\ t1.nodes[i].num_children_ = t.nodes[i].num_children_
           /\ i # Superroot => t1.nodes[i].children_ = t.nodes[i].children_
  BY DEF IsInterposed
<1>4. \A i \in Leaves(t) :
           /\ t1.nodes[i].keys = t.nodes[i].keys
           /\ t1.nodes[i].next_leaf_ = t.nodes[i].next_leaf_
           /\ t1.nodes[i].prev_leaf_ = t.nodes[i].prev_leaf_
  BY DEF IsInterposed
<1>5. Root(t1) = t.fresh
  <2>1. 0 \in 0 .. t.nodes[Superroot].num_children_ - 1
    BY <1>1
  <2>2. t1.nodes[Superroot].children_[0]
            = IF 0 <= 0 /\ 0 < 1 THEN t.fresh ELSE t.nodes[Superroot].children_[0]
    BY <2>1 DEF IsInterposed
  <2> QED
    BY <2>2 DEF Root
<1>6. t.fresh \notin DOMAIN t.nodes /\ t.fresh # Superroot
  <2>1. \A i \in DOMAIN t.nodes : i # t.fresh
    BY <1>1
  <2> QED
    BY <1>1, <2>1
<1>7. Leaves(t1) = Leaves(t) /\ t.fresh \in Models(t1)
  BY <1>2, <1>6 DEF Leaves, Models
<1>8. \A i \in DOMAIN t.nodes : i # t.fresh =>
           /\ t1.nodes[i].is_leaf_ = t.nodes[i].is_leaf_
           /\ t1.nodes[i].duplication_factor_ = t.nodes[i].duplication_factor_
           /\ i # Superroot => t1.nodes[i].level_ = t.nodes[i].level_
  BY <1>2
<1> QED
  BY <1>2, <1>3, <1>4, <1>5, <1>6, <1>7, <1>8 DEF SameBut

\* The root is one of its own.
LEMMA RootIsNotRepeated ==
    ASSUME NEW t, IsTree(t), NEW parent, NEW first, HasRuns(t, parent, first),
           parent \in [Nodes(t) -> Models(t)], first \in [Nodes(t) -> Nat]
    PROVE  t.nodes[Root(t)].duplication_factor_ = 0
<1> DEFINE d == t.nodes[Root(t)].duplication_factor_
<1>1. d \in Nat /\ 2^d = 1
  BY RootFacts, NodeFacts DEF Repeats
<1> HIDE DEF d
<1>2. d < 2^d
  BY <1>1, PowerExceeds
<1>3. d = 0
  BY <1>1, <1>2
<1> QED
  BY <1>3 DEF d

-----------------------------------------------------------------------------
\* A node for the whole old domain, of one child, comes above the root.
AboveRoot(t) ==
    NewModelNode(t.nodes[Root(t)].level_ - 1, 0, t.nodes[Root(t)].start,
                 t.nodes[Root(t)].width * t.nodes[Root(t)].num_children_, 1, Exact)

HasAboveRoot(t, t1, from, to, m, from1, to1, out, left) ==
    /\ IsTree(t1) /\ SameBut(t, t1, m) /\ Leaves(t1) = Leaves(t) /\ Keys(t1) = Keys(t)
    /\ t1.nodes[m].num_children_ = 1 /\ t1.nodes[m].children_[0] = Root(t)
    /\ t1.nodes[m].duplication_factor_ = 0
    /\ t1.nodes[m].level_ = t.nodes[Root(t)].level_ - 1
    /\ t1.nodes[m].start = t.nodes[Root(t)].start
    /\ t1.nodes[m].width = t.nodes[Root(t)].width * t.nodes[Root(t)].num_children_
    /\ Edge(t1.nodes[m], 0) = t.key_domain_min_
    /\ Edge(t1.nodes[m], 1) = t.key_domain_max_
    /\ left => from1[out] = t.key_domain_min_
    /\ ~left => to1[out] = t.key_domain_max_
    /\ \E parent1, first1 : WellFormed(t1, parent1, first1, from1, to1)

\* The tree with a new root above the old one exists.
LEMMA AboveRootExists ==
    ASSUME NEW t, NEW parent, NEW first, NEW from, NEW to,
           WellFormed(t, parent, first, from, to),
           NEW left, NEW f, IsGrowth(t, left, f)
    PROVE  \E t1, from1, to1 :
               HasAboveRoot(t, t1, from, to, t.fresh, from1, to1, OutermostNode(t, left), left)
<1> DEFINE c == Root(t)
           r == t.nodes[c]
           m == t.fresh
           n == AboveRoot(t)
           out == OutermostNode(t, left)
           width == r.width * r.num_children_
<1>1. left \in BOOLEAN /\ ~r.is_leaf_ /\ out \in Leaves(t)
  BY DEF IsGrowth
<1>2. /\ IsTree(t) /\ HasRuns(t, parent, first)
      /\ parent \in [Nodes(t) -> Models(t)] /\ first \in [Nodes(t) -> Nat]
  BY WellFormedParts
<1>3. /\ c \in Models(t) /\ c # Superroot /\ c \in Nodes(t)
      /\ parent[c] = Superroot /\ first[c] = 0 /\ Repeats(r) = 1
      /\ Edge(r, 0) = t.key_domain_min_
      /\ Edge(r, r.num_children_) = t.key_domain_max_
      /\ r.duplication_factor_ = 0
  <2>1. c \in Nodes(t) /\ parent[c] = Superroot /\ first[c] = 0 /\ Repeats(r) = 1
    BY <1>2, RootFacts
  <2> QED
    BY <1>1, <1>2, <2>1, RootDividesDomain, RootIsNotRepeated
<1>4. /\ IsModel(r) /\ r.start \in Int /\ r.width \in Nat /\ r.width > 0 /\ t.fresh \in Nat
      /\ r.num_children_ \in Nat /\ r.num_children_ > 0 /\ r.level_ \in Int
      /\ out # c /\ out \in Nodes(t)
      /\ \A i \in DOMAIN t.nodes : i < t.fresh
  <2>1. out # c
    BY <1>1 DEF Leaves
  <2>2. c \in DOMAIN t.nodes
    BY <1>3 DEF Models
  <2> QED
    BY <1>1, <1>2, <1>3, <2>1, <2>2, NodeFacts
<1>5. width \in Nat /\ width > 0
  <2> HIDE DEF r
  <2>1. 0 * r.width < r.num_children_ * r.width /\ r.num_children_ * r.width \in Int
    BY <1>4, Products
  <2>2. 0 * r.width = 0 /\ r.num_children_ * r.width = r.width * r.num_children_
    BY <1>4
  <2> QED
    BY <2>1, <2>2
<1> HIDE DEF width
<1>6. IsModelOf(n, r.level_ - 1, 0, r.start, width, 1)
  <2> DEFINE level == r.level_ - 1
             start == r.start
  <2>1. level \in Int /\ start \in Int
    BY <1>4
  <2>2. n = NewModelNode(level, 0, start, width, 1, Exact)
    BY DEF AboveRoot, width
  <2> HIDE DEF level, start, n
  <2>3. IsModelOf(NewModelNode(level, 0, start, width, 1, Exact), level, 0, start, width, 1)
    BY <1>5, <2>1, NewModelNodeFacts
  <2> QED
    BY <2>2, <2>3 DEF level, start
<1> HIDE DEF n
<1>7. /\ IsModel(n) /\ n.level_ = r.level_ - 1 /\ n.duplication_factor_ = 0
      /\ n.start = r.start /\ n.width = width /\ n.num_children_ = 1
  BY <1>6 DEF IsModelOf
<1>8. PICK t1 : /\ IsInterposed(t, t1, Superroot, c, t.fresh, 0, first[c], first[c] + Repeats(r))
                /\ t1.nodes[t.fresh].start = n.start
                /\ t1.nodes[t.fresh].width = n.width
                /\ t1.nodes[t.fresh].level_ = n.level_
  <2>1. 2^0 = 1 /\ 0 \in Nat
    BY PowerFacts
  <2>2. n.num_children_ = 2^0
    BY <1>7, <2>1
  <2>3. 0 = r.duplication_factor_ /\ n.level_ < r.level_ /\ n.duplication_factor_ = r.duplication_factor_
    BY <1>3, <1>4, <1>7
  <2> DEFINE p == Superroot
  <2>4. parent[c] = p
    BY <1>3
  <2> HIDE DEF c, p
  <2>5. \E t2 : /\ IsInterposed(t, t2, p, c, t.fresh, 0,
                                   first[c], first[c] + Repeats(t.nodes[c]))
                /\ t2.nodes[t.fresh].start = n.start
                /\ t2.nodes[t.fresh].width = n.width
                /\ t2.nodes[t.fresh].level_ = n.level_
    <3>1. p # Superroot => t.nodes[p].level_ < n.level_
      BY DEF p
    <3>2. /\ c \in Nodes(t) /\ parent[c] = p /\ IsModel(n) /\ 0 \in Nat
          /\ n.num_children_ = 2^0
          /\ n.duplication_factor_ = t.nodes[c].duplication_factor_
          /\ 0 = t.nodes[c].duplication_factor_ /\ n.level_ < t.nodes[c].level_
      BY <1>3, <1>7, <2>1, <2>2, <2>3, <2>4
    <3>3. \E t2 : /\ IsInterposed(t, t2, p, c, t.fresh, 0,
                                   first[c], first[c] + Repeats(t.nodes[c]))
                  /\ t2.nodes[t.fresh].start = n.start
                  /\ t2.nodes[t.fresh].width = n.width
                  /\ t2.nodes[t.fresh].level_ = n.level_
                  /\ p = Superroot => t2.nodes[Superroot].level_ = n.level_ - 1
      <4> DEFINE x == 0
      <4>1. x \in Nat /\ n.num_children_ = 2^x /\ x = t.nodes[c].duplication_factor_
        BY <3>2
      <4> HIDE DEF x
      <4>2. \E t2 : /\ IsInterposed(t, t2, p, c, t.fresh, x,
                                   first[c], first[c] + Repeats(t.nodes[c]))
                    /\ t2.nodes[t.fresh].start = n.start
                    /\ t2.nodes[t.fresh].width = n.width
                    /\ t2.nodes[t.fresh].level_ = n.level_
                    /\ p = Superroot => t2.nodes[Superroot].level_ = n.level_ - 1
        BY <3>1, <3>2, <4>1, InterposedExists
      <4> QED
        BY <4>2 DEF x
    <3> QED
      BY <3>3
  <2> QED
    BY <2>5 DEF p
<1>9. IsInterposed(t, t1, Superroot, c, t.fresh, 0, 0, 1)
  BY <1>3, <1>8
<1>10. /\ t1.nodes[m].num_children_ = 1 /\ t1.nodes[m].children_[0] = c
       /\ t1.nodes[m].duplication_factor_ = 0
  <2>1. 2^0 = 1 /\ 0 \in 0 .. 2^0 - 1
    BY PowerFacts
  <2> QED
    BY <1>3, <1>9, <2>1 DEF IsInterposed
<1>11. t1.nodes[m].start = r.start /\ t1.nodes[m].width = width
  BY <1>7, <1>8
<1>12. Edge(t1.nodes[m], 0) = t.key_domain_min_ /\ Edge(t1.nodes[m], 1) = t.key_domain_max_
  <2>1. Edge(t1.nodes[m], 0) = r.start + 0 * width /\ Edge(t1.nodes[m], 1) = r.start + 1 * width
    BY <1>11 DEF Edge
  <2>2. /\ t.key_domain_min_ = r.start + 0 * r.width
        /\ t.key_domain_max_ = r.start + r.num_children_ * r.width
    BY <1>3 DEF Edge
  <2>3. width = r.num_children_ * r.width
    BY <1>4 DEF width
  <2>4. 0 * r.width = 0 /\ 0 * width = 0 /\ 1 * width = width
    BY <1>4, <1>5
  <2> HIDE DEF r
  <2> QED
    BY <2>1, <2>2, <2>3, <2>4
<1>13. SameBut(t, t1, m) /\ Leaves(t1) = Leaves(t) /\ IsTree(t1)
  BY <1>2, <1>3, <1>9, InterposedIsSame
<1>14. from[c] = t.key_domain_min_ /\ to[c] = t.key_domain_max_
       /\ t.key_domain_min_ < t.key_domain_max_
  BY <1>1, RegionFacts
<1>15. TakesPlace(t, parent, first, from, to, t1, Superroot, c, m, 0, 1)
  <2> HIDE DEF c, m
  <2> QED
    BY <1>3, <1>10, <1>12, <1>14 DEF TakesPlace
<1> DEFINE from1 == InterposedGhost(t1, from, m, from[c], c, from[c])
           to1 == InterposedGhost(t1, to, m, to[c], c, to[c])
<1>16. \E parent1, first1 :
           IsRaised(t, from, to, t1, parent1, first1, from1, to1, Superroot, c, m, 0)
  <2> HIDE DEF from1, to1
  <2>1. from1 = InterposedGhost(t1, from, m, from[c], c, from[c])
        /\ to1 = InterposedGhost(t1, to, m, to[c], c, to[c])
    BY DEF from1, to1
  <2> DEFINE parent1 == InterposedGhost(t1, parent, m, Superroot, c, m)
             first1 == InterposedGhost(t1, first, m, first[c], c, 0)
  <2>2. parent1 = InterposedGhost(t1, parent, m, Superroot, c, m)
        /\ first1 = InterposedGhost(t1, first, m, first[c], c, 0)
    OBVIOUS
  <2> HIDE DEF parent1, first1, c, m
  <2>3. IsRaised(t, from, to, t1, parent1, first1, from1, to1, Superroot, c, m, 0)
    BY <1>9, <1>15, <2>1, <2>2, InterposedIsWellFormed DEF m
  <2> QED
    BY <2>3
<1>17. /\ \E parent1, first1 : WellFormed(t1, parent1, first1, from1, to1)
       /\ Keys(t1) = Keys(t)
  BY <1>16 DEF IsRaised
<1>18. from1[out] = from[out] /\ to1[out] = to[out]
  <2>1. out \in Nodes(t1) /\ out # m /\ out # c
    <3>1. out \in DOMAIN t.nodes /\ out # Superroot
      BY <1>4 DEF Nodes
    <3>2. out \in DOMAIN t1.nodes
      BY <3>1, <1>13 DEF SameBut
    <3>3. out < t.fresh /\ t.fresh \in Nat
      BY <1>4, <3>1
    <3> QED
      BY <1>4, <3>1, <3>2, <3>3 DEF Nodes
  <2> HIDE DEF out, c, m
  <2> QED
    BY <2>1 DEF InterposedGhost
<1>19. /\ left => from[out] = t.key_domain_min_
       /\ ~left => to[out] = t.key_domain_max_
  BY <1>1, OutermostLeaves DEF OutermostNode
<1> HIDE DEF from1, to1
<1>20. HasAboveRoot(t, t1, from, to, m, from1, to1, out, left)
  BY <1>7, <1>8, <1>10, <1>11, <1>12, <1>13, <1>17, <1>18, <1>19 DEF HasAboveRoot, width
<1> QED
  BY <1>20

-----------------------------------------------------------------------------
\* A new root comes above one that has too many pointers.
LEMMA NewRootIsMerged ==
    ASSUME NEW t, NEW parent, NEW first, NEW from, NEW to,
           WellFormed(t, parent, first, from, to),
           NEW left, NEW f, IsGrowth(t, left, f), NEW grows \in BOOLEAN, ~grows
    PROVE  IsMerged(t, ExpandedTree(t, left, f, grows, Exact))
<1> DEFINE node == t.fresh
           r == t.nodes[Root(t)]
           firstLeaf == t.fresh + 1
           n == OldPointers(t, grows)
           children == PointersOf(t, left, f, grows)
           bare == BareNode(t, f, grows, Exact)
           filled == Filled(bare, left, f, n, children)
           out == OutermostNode(t, left)
           l == LeastOf(t, left, f)
           h == GreatestOf(t, left, f)
           width == r.width * r.num_children_
           t2 == ExpandedTree(t, left, f, grows, Exact)
<1>1. /\ left \in BOOLEAN /\ f \in Nat /\ f >= 2 /\ ~r.is_leaf_
      /\ out \in Leaves(t)
  BY DEF IsGrowth
<1>2. IsTree(t) /\ HasRuns(t, parent, first)
  BY WellFormedParts
<1>3. Root(t) \in Models(t) /\ Root(t) # Superroot
  BY <1>1, RootDividesDomain
<1>4. PICK t1, from1, to1 : HasAboveRoot(t, t1, from, to, node, from1, to1, out, left)
  BY AboveRootExists
<1>5. n = 1 /\ FirstLeafBeyond(t, grows) = firstLeaf /\ GrowingNode(t, grows) = node
  BY DEF OldPointers, FirstLeafBeyond, GrowingNode
<1>6. /\ n * f \in Nat \ {0}
      /\ children \in [0 .. n * f - 1 -> Int]
      /\ \A b \in 0 .. n * f - 1 :
             children[b] = IF SlotFor(left, f, b \div n) > 0
                           THEN firstLeaf + SlotFor(left, f, b \div n) - 1
                           ELSE Root(t)
  <2>1. ArePointers(t, left, f, grows, n)
    <3> HIDE DEF n
    <3>1. n = OldPointers(t, grows)
      BY DEF n
    <3> QED
      BY <1>1, <1>2, <1>3, <3>1, PointersAreAddresses
  <2> HIDE DEF n, children
  <2> QED
    BY <1>5, <2>1 DEF ArePointers, children
<1>7. n * f = f
  <2> HIDE DEF n
  <2> QED
    BY <1>1, <1>5
<1>8. l \in Int /\ h \in Int
  <2>1. /\ t.key_domain_min_ \in Int /\ t.key_domain_max_ \in Int
        /\ DomainSize(t) \in Nat /\ DomainSize(t) > 0
    BY <1>2, NodeFacts DEF IsGrowth
  <2>2. SeenFromOld(t, left, f, SlotEdges(t, left, f))
    BY <1>1, <2>1, SlotEdgeFacts
  <2>3. 0 \in 0 .. f /\ f \in 0 .. f
    BY <1>1
  <2> QED
    BY <2>2, <2>3 DEF SeenFromOld
<1>9. /\ IsTree(t1) /\ SameBut(t, t1, node) /\ Leaves(t1) = Leaves(t) /\ Keys(t1) = Keys(t)
      /\ t1.nodes[node].num_children_ = 1 /\ t1.nodes[node].children_[0] = Root(t)
      /\ t1.nodes[node].duplication_factor_ = 0
      /\ t1.nodes[node].level_ = r.level_ - 1
      /\ t1.nodes[node].start = r.start
      /\ t1.nodes[node].width = width
      /\ Edge(t1.nodes[node], 0) = t.key_domain_min_
      /\ Edge(t1.nodes[node], 1) = t.key_domain_max_
      /\ left => from1[out] = t.key_domain_min_
      /\ ~left => to1[out] = t.key_domain_max_
      /\ \E parent1, first1 : WellFormed(t1, parent1, first1, from1, to1)
  BY <1>4 DEF HasAboveRoot
<1>10. /\ r.start \in Int /\ r.level_ \in Int /\ t.fresh \in Nat
       /\ width \in Nat /\ width > 0
  <2>1. r.start \in Int /\ r.level_ \in Int /\ t.fresh \in Nat
    BY <1>2, <1>3, NodeFacts DEF Models
  <2>2. node \in Models(t1)
    BY <1>9 DEF SameBut
  <2>3. t1.nodes[node].width \in Nat /\ t1.nodes[node].width > 0
    BY <1>9, <2>2, NodeFacts
  <2> QED
    BY <1>9, <2>1, <2>3
<1> HIDE DEF width, r, n, children
<1>11. IsModelOf(bare, r.level_ - 1, 0, r.start, width, f)
  <2> DEFINE level == r.level_ - 1
             s == r.start
  <2>1. level \in Int /\ s \in Int /\ f > 0
    BY <1>1, <1>10
  <2>2. bare = NewModelNode(level, 0, s, width, f, Exact)
    BY DEF BareNode, r, width
  <2> HIDE DEF level, s, bare
  <2>3. IsModelOf(NewModelNode(level, 0, s, width, f, Exact), level, 0, s, width, f)
    BY <1>1, <1>10, <2>1, NewModelNodeFacts
  <2> QED
    BY <2>2, <2>3 DEF level, s
<1> HIDE DEF bare
<1>12. /\ IsModel(bare) /\ bare.start = r.start /\ bare.width = width
       /\ bare.num_children_ = f /\ bare.level_ = r.level_ - 1
       /\ bare.duplication_factor_ = 0
  BY <1>11 DEF IsModelOf
<1> DEFINE start == IF left THEN r.start - (f - 1) * n * width ELSE r.start
<1>13. start \in Int
  <2>1. (f - 1) * n \in Int
    BY <1>1, <1>5, ProductOfInts
  <2>2. (f - 1) * n * width \in Int
    BY <1>10, <2>1, ProductOfInts
  <2> QED
    BY <1>10, <2>2
<1>14. IsFilled(bare, filled, start, f, children)
  <2>1. filled = [bare EXCEPT !.start = start, !.children_ = children]
    BY <1>12 DEF Filled
  <2>2. children \in [0 .. bare.num_children_ - 1 -> Int]
    BY <1>6, <1>7, <1>12
  <2> HIDE DEF filled, start
  <2>3. IsFilled(bare, [bare EXCEPT !.start = start, !.children_ = children],
                 start, bare.num_children_, children)
    BY <1>12, <1>13, <2>2, RefilledFacts
  <2> QED
    BY <1>12, <2>1, <2>3
<1> HIDE DEF filled
<1>15. IsModel(filled) /\ filled.level_ \in Int
  BY <1>14 DEF IsFilled, IsModel
<1>16. IsWiderRoot(t1, node, filled, left, f, n, firstLeaf)
  <2>1. /\ IsModel(filled) /\ filled.level_ = r.level_ - 1 /\ filled.duplication_factor_ = 0
        /\ filled.start = start /\ filled.width = width /\ filled.num_children_ = f
        /\ filled.children_ = children
    BY <1>12, <1>14 DEF IsFilled
  <2>2. \A b \in 0 .. n * f - 1 :
            filled.children_[b] =
                IF SlotFor(left, f, b \div n) > 0
                THEN firstLeaf + SlotFor(left, f, b \div n) - 1
                ELSE t1.nodes[node].children_[b % n]
    <3> SUFFICES ASSUME NEW b \in 0 .. n * f - 1
                 PROVE  filled.children_[b] =
                            IF SlotFor(left, f, b \div n) > 0
                            THEN firstLeaf + SlotFor(left, f, b \div n) - 1
                            ELSE t1.nodes[node].children_[b % n]
      OBVIOUS
    <3>1. b % n = 0
      <4>1. n \in Nat /\ n > 0
        BY <1>5
      <4>2. b % n \in 0 .. n - 1
        BY <1>1, <4>1, Groups
      <4> QED
        BY <1>5, <4>2
    <3>2. children[b] = IF SlotFor(left, f, b \div n) > 0
                        THEN firstLeaf + SlotFor(left, f, b \div n) - 1 ELSE Root(t)
      BY <1>6
    <3> QED
      BY <1>9, <2>1, <3>1, <3>2
  <2> QED
    BY <1>5, <1>7, <1>9, <2>1, <2>2 DEF IsWiderRoot, start
<1>17. IsWidened(t, t2, left, f, node, filled, out, firstLeaf, n, l, h)
  <2>1. t2 = TreeWith(t, node, filled, out, Trimmed(t, left, out, l, h, firstLeaf),
                      left, DomainSize(t), f, firstLeaf, n, l, h)
    BY <1>5 DEF ExpandedTree, filled, bare, children, n
  <2>2. 0 \in Nat /\ n = 2^0
    BY <1>5, PowerFacts
  <2> DEFINE x == 0
  <2>3. x \in Nat /\ n = 2^x
    BY <2>2
  <2> HIDE DEF t2, out, l, h, x
  <2>4. IsWidened(t, TreeWith(t, node, filled, out, Trimmed(t, left, out, l, h, firstLeaf),
                      left, DomainSize(t), f, firstLeaf, n, l, h),
                  left, f, node, filled, out, firstLeaf, n, l, h)
    BY <1>1, <1>2, <1>8, <1>15, <2>3, WidenedFacts
  <2> QED
    BY <2>1, <2>4
<1> HIDE DEF t2
<1>18. IsGrown(t1, from1, to1, t2, node, SlotEdges(t, left, f), f, SlotFor(left, f, 0),
               out, LeafForSlot(left, f, out, firstLeaf), SlotOfLeaf(t2, left, f, firstLeaf))
  <2>1. Edge(t1.nodes[node], n) = t.key_domain_max_ /\ n \in Nat /\ n > 0 /\ firstLeaf \in Nat
    BY <1>5, <1>9, <1>10
  <2> HIDE DEF firstLeaf, node
  <2> QED
    BY <1>2, <1>9, <1>16, <1>17, <2>1, WidenedIsGrown
<1>19. PICK parent1, first1 : WellFormed(t1, parent1, first1, from1, to1)
  BY <1>9
<1>20. IsMerged(t1, t2)
  BY <1>18, <1>19, GrownIsMerged
<1>21. IsMerged(t, t2)
  BY <1>9, <1>20 DEF IsMerged
<1> QED
  BY <1>21 DEF t2

\* expand_root keeps a tree well-formed, and its keys.
THEOREM ExpandRootIsMerged ==
    ASSUME NEW t, NEW parent, NEW first, NEW from, NEW to,
           WellFormed(t, parent, first, from, to), ~t.nodes[Root(t)].is_leaf_,
           NEW key \in Key, NEW left \in BOOLEAN,
           left => key < t.key_domain_min_, ~left => key > t.key_domain_max_
    PROVE  IsMerged(t, expand_root(t, key, left, Exact))
<1> DEFINE f == ExpansionFactor(t, key, left)
           grows == t.nodes[Root(t)].num_children_ * f <= max_fanout
<1>1. IsGrowth(t, left, f)
  BY GrowthFacts
<1>2. expand_root(t, key, left, Exact) = ExpandedTree(t, left, f, grows, Exact)
  BY ExpandRootUnfolds
<1>3. grows \in BOOLEAN
  OBVIOUS
<1> HIDE DEF f, grows
<1>4. CASE grows
  BY <1>1, <1>2, <1>3, <1>4, WiderRootIsMerged
<1>5. CASE ~grows
  BY <1>1, <1>2, <1>3, <1>5, NewRootIsMerged
<1> QED
  BY <1>4, <1>5

-----------------------------------------------------------------------------
(* What calls do to a tree, whatever witnesses its well-formedness.        *)
IsSound(t) == \E parent, first, from, to : WellFormed(t, parent, first, from, to)

\* The leaf, below p, is where the key belongs.
Belongs(t, leaf, p, key) ==
    \E parent, first, from, to :
        /\ WellFormed(t, parent, first, from, to)
        /\ leaf \in Leaves(t) /\ parent[leaf] = p
        /\ ~t.nodes[Root(t)].is_leaf_ => IsIn(t, from, to, leaf, key)

\* A key that is in the tree is in the leaf where it belongs.
LEMMA KeyIsWhereItBelongs ==
    ASSUME NEW t, NEW leaf, NEW p, NEW key \in Key, Belongs(t, leaf, p, key)
    PROVE  /\ IsSound(t) /\ leaf \in Leaves(t) /\ Keys(t) \subseteq Key
           /\ t.nodes[leaf].keys \subseteq Key
           /\ p \in Models(t) /\ (p = Superroot <=> t.nodes[Root(t)].is_leaf_)
           /\ \A i \in Leaves(t) : key \in t.nodes[i].keys => i = leaf
           /\ key \in Keys(t) <=> key \in t.nodes[leaf].keys
<1>1. PICK parent, first, from, to :
          /\ WellFormed(t, parent, first, from, to)
          /\ leaf \in Leaves(t) /\ parent[leaf] = p
          /\ ~t.nodes[Root(t)].is_leaf_ => IsIn(t, from, to, leaf, key)
  BY DEF Belongs
<1>2. /\ IsTree(t) /\ HasRuns(t, parent, first)
      /\ parent \in [Nodes(t) -> Models(t)] /\ first \in [Nodes(t) -> Nat]
  BY <1>1, WellFormedParts
<1>3. leaf \in Nodes(t) /\ parent[leaf] \in Models(t)
  BY <1>1, <1>2, RunFacts
<1>4. \A i \in Leaves(t) : t.nodes[i].keys \subseteq Key
  BY <1>2, NodeFacts
<1>5. p = Superroot => leaf = Root(t)
  BY <1>1, <1>2, <1>3, RootFacts
<1>6. t.nodes[Root(t)].is_leaf_ => Leaves(t) = {Root(t)} /\ p = Superroot
  BY <1>1, <1>2, <1>3, RootLeafIsAlone
<1>7. t.nodes[leaf].is_leaf_
  BY <1>1 DEF Leaves
<1>8. ASSUME NEW i \in Leaves(t), key \in t.nodes[i].keys PROVE i = leaf
  <2>1. CASE t.nodes[Root(t)].is_leaf_
    BY <1>1, <1>6, <2>1
  <2>2. CASE ~t.nodes[Root(t)].is_leaf_
    <3>1. IsIn(t, from, to, i, key)
      BY <1>1, <1>8, <2>2 DEF WellFormed, IsRouted
    <3>2. key \in Int
      BY KeysAreWithinTheType
    <3> QED
      BY <1>1, <2>2, <3>1, <3>2, OneLeafIsForKey
  <2> QED
    BY <2>1, <2>2
<1>9. IsSound(t)
  BY <1>1 DEF IsSound
<1>10. Keys(t) \subseteq Key /\ (key \in Keys(t) <=> key \in t.nodes[leaf].keys)
  BY <1>1, <1>4, <1>8 DEF Keys
<1> QED
  BY <1>1, <1>3, <1>4, <1>5, <1>6, <1>7, <1>8, <1>9, <1>10

\* A lookup leads to the leaf where a key belongs.
LEMMA LookupLeads ==
    ASSUME NEW t, IsSound(t), NEW key \in Key
    PROVE  Belongs(t, get_leaf(t, key).leaf, Last(get_leaf(t, key).path).node, key)
<1>1. PICK parent, first, from, to : WellFormed(t, parent, first, from, to)
  BY DEF IsSound
<1>2. LET found == get_leaf(t, key)
      IN  /\ found.leaf \in Leaves(t)
          /\ parent[found.leaf] = Last(found.path).node
          /\ ~t.nodes[Root(t)].is_leaf_ => IsIn(t, from, to, found.leaf, key)
  BY <1>1, LookupFinds
<1> QED
  BY <1>1, <1>2 DEF Belongs

\* A key belongs to the leaf that has it.
LEMMA KeyBelongs ==
    ASSUME NEW t, IsSound(t), NEW leaf \in Leaves(t), NEW key \in t.nodes[leaf].keys
    PROVE  \E p : Belongs(t, leaf, p, key)
<1>1. PICK parent, first, from, to : WellFormed(t, parent, first, from, to)
  BY DEF IsSound
<1>2. ~t.nodes[Root(t)].is_leaf_ => IsIn(t, from, to, leaf, key)
  BY <1>1 DEF WellFormed, IsRouted
<1>3. parent[leaf] = parent[leaf]
  OBVIOUS
<1> QED
  BY <1>1, <1>2, <1>3 DEF Belongs

\* So all that a key belongs to is one leaf below one node.
LEMMA OnePlaceForKey ==
    ASSUME NEW t, NEW key \in Key, NEW i, NEW p, NEW j, NEW q,
           Belongs(t, i, p, key), Belongs(t, j, q, key)
    PROVE  i = j /\ p = q
<1>1. PICK parent, first, from, to :
          /\ WellFormed(t, parent, first, from, to)
          /\ i \in Leaves(t) /\ parent[i] = p
          /\ ~t.nodes[Root(t)].is_leaf_ => IsIn(t, from, to, i, key)
  BY DEF Belongs
<1>2. PICK parent2, first2, from2, to2 :
          /\ WellFormed(t, parent2, first2, from2, to2)
          /\ j \in Leaves(t) /\ parent2[j] = q
          /\ ~t.nodes[Root(t)].is_leaf_ => IsIn(t, from2, to2, j, key)
  BY DEF Belongs
<1> DEFINE found == get_leaf(t, key)
<1>3. /\ parent[found.leaf] = Last(found.path).node
      /\ parent2[found.leaf] = Last(found.path).node
      /\ found.leaf \in Leaves(t)
      /\ t.nodes[Root(t)].is_leaf_ => found.leaf = Root(t)
      /\ ~t.nodes[Root(t)].is_leaf_ => /\ IsIn(t, from, to, found.leaf, key)
                                       /\ IsIn(t, from2, to2, found.leaf, key)
  BY <1>1, <1>2, LookupFinds
<1> HIDE DEF found
<1>4. key \in Int
  BY KeysAreWithinTheType
<1>5. i = found.leaf /\ j = found.leaf
  <2>1. CASE t.nodes[Root(t)].is_leaf_
    <3>1. /\ IsTree(t) /\ HasRuns(t, parent, first)
          /\ parent \in [Nodes(t) -> Models(t)] /\ first \in [Nodes(t) -> Nat]
      BY <1>1, WellFormedParts
    <3>2. Leaves(t) = {Root(t)}
      BY <2>1, <3>1, RootLeafIsAlone
    <3> QED
      BY <1>1, <1>2, <1>3, <3>2
  <2>2. CASE ~t.nodes[Root(t)].is_leaf_
    BY <1>1, <1>2, <1>3, <1>4, <2>2, OneLeafIsForKey
  <2> QED
    BY <2>1, <2>2
<1> QED
  BY <1>1, <1>2, <1>3, <1>5

\* Other keys in a leaf, of which the given one belongs to it.
LEMMA RekeyedLeaf ==
    ASSUME NEW t, NEW leaf, NEW p, NEW key \in Key, Belongs(t, leaf, p, key),
           NEW S, S \subseteq t.nodes[leaf].keys \cup {key},
           NEW t2, t2 = WithKeys(t, leaf, S)
    PROVE  /\ Belongs(t2, leaf, p, key)
           /\ Leaves(t2) = Leaves(t) /\ t2.nodes[leaf].keys = S
           /\ \A i \in Leaves(t) : i # leaf => t2.nodes[i].keys = t.nodes[i].keys
<1>1. PICK parent, first, from, to :
          /\ WellFormed(t, parent, first, from, to)
          /\ leaf \in Leaves(t) /\ parent[leaf] = p
          /\ ~t.nodes[Root(t)].is_leaf_ => IsIn(t, from, to, leaf, key)
  BY DEF Belongs
<1>2. IsTree(t) /\ S \in SUBSET Key
  BY <1>1, WellFormedParts, KeyIsWhereItBelongs
<1>3. t2 = Rekeyed(t, leaf, S)
  BY DEF WithKeys, Rekeyed
<1>4. IsRekeyed(t, t2, leaf, S)
  BY <1>1, <1>2, <1>3, RekeyedFacts
<1>5. ~t.nodes[Root(t)].is_leaf_ => \A k \in S : IsIn(t, from, to, leaf, k)
  BY <1>1 DEF WellFormed, IsRouted
<1>6. /\ WellFormed(t2, parent, first, from, to)
      /\ Leaves(t2) = Leaves(t)
      /\ t2.nodes[Root(t2)].is_leaf_ = t.nodes[Root(t)].is_leaf_
      /\ \A i, k : IsIn(t2, from, to, i, k) <=> IsIn(t, from, to, i, k)
  BY <1>1, <1>4, <1>5, RekeyedIsWellFormed
<1>7. t2.nodes[leaf].keys = S /\ \A i \in Leaves(t) : i # leaf => t2.nodes[i].keys = t.nodes[i].keys
  BY <1>4 DEF IsRekeyed, Leaves
<1> QED
  BY <1>1, <1>6, <1>7 DEF Belongs

\* AlexDataNode::insert adds the key to the index.
LEMMA TakesKey ==
    ASSUME NEW t, NEW leaf, NEW p, NEW key \in Key, Belongs(t, leaf, p, key),
           NEW t2, t2 = WithKeys(t, leaf, t.nodes[leaf].keys \cup {key})
    PROVE  IsSound(t2) /\ Keys(t2) = Keys(t) \cup {key}
<1> DEFINE S == t.nodes[leaf].keys \cup {key}
<1>1. S \subseteq t.nodes[leaf].keys \cup {key}
  OBVIOUS
<1>2. /\ Belongs(t2, leaf, p, key)
      /\ Leaves(t2) = Leaves(t) /\ t2.nodes[leaf].keys = S
      /\ \A i \in Leaves(t) : i # leaf => t2.nodes[i].keys = t.nodes[i].keys
  BY <1>1, RekeyedLeaf
<1>3. IsSound(t2) /\ leaf \in Leaves(t)
  BY <1>2, KeyIsWhereItBelongs
<1>4. ASSUME NEW k PROVE k \in Keys(t2) <=> k \in Keys(t) \cup {key}
  <2>1. ASSUME NEW i \in Leaves(t2), k \in t2.nodes[i].keys
        PROVE  k \in Keys(t) \cup {key}
    BY <1>2, <1>3, <2>1 DEF Keys
  <2>2. ASSUME NEW i \in Leaves(t), k \in t.nodes[i].keys
        PROVE  k \in Keys(t2)
    BY <1>2, <1>3, <2>2 DEF Keys
  <2>3. key \in Keys(t2)
    BY <1>2, <1>3 DEF Keys
  <2> QED
    BY <2>1, <2>2, <2>3 DEF Keys
<1> QED
  BY <1>3, <1>4

\* An erasure takes the key from the index, whether or not its leaf is merged.
LEMMA LosesKey ==
    ASSUME NEW t, NEW leaf, NEW p, NEW key \in Key, Belongs(t, leaf, p, key),
           NEW t2, t2 = Erased(t, leaf, key)
    PROVE  IsSound(t2) /\ Keys(t2) = Keys(t) \ {key}
<1> DEFINE S == t.nodes[leaf].keys \ {key}
           left == WithKeys(t, leaf, S)
<1>1. S \subseteq t.nodes[leaf].keys \cup {key}
  OBVIOUS
<1>2. /\ Belongs(left, leaf, p, key)
      /\ Leaves(left) = Leaves(t) /\ left.nodes[leaf].keys = S
      /\ \A i \in Leaves(t) : i # leaf => left.nodes[i].keys = t.nodes[i].keys
  BY <1>1, RekeyedLeaf
<1>3. /\ leaf \in Leaves(t)
      /\ \A i \in Leaves(t) : key \in t.nodes[i].keys => i = leaf
      /\ leaf \in Leaves(left) /\ IsSound(left)
  BY <1>2, KeyIsWhereItBelongs
<1>4. ASSUME NEW k PROVE k \in Keys(left) <=> k \in Keys(t) \ {key}
  <2>1. ASSUME NEW i \in Leaves(left), k \in left.nodes[i].keys
        PROVE  k \in Keys(t) \ {key}
    BY <1>2, <1>3, <2>1 DEF Keys
  <2>2. ASSUME NEW i \in Leaves(t), k \in t.nodes[i].keys, k # key
        PROVE  k \in Keys(left)
    BY <1>2, <1>3, <2>2 DEF Keys
  <2> QED
    BY <2>1, <2>2 DEF Keys
<1>5. Keys(left) = Keys(t) \ {key}
  BY <1>4
<1>6. MayMerge(left, leaf, key)
  BY <1>2 DEF Belongs, MayMerge
<1>7. IsMerged(left, merge(left, leaf, key))
  BY <1>3, <1>6, MergeIsMerged
<1>8. t2 = left \/ t2 = merge(left, leaf, key)
  BY DEF Erased
<1> HIDE DEF left
<1>9. CASE t2 = left
  BY <1>3, <1>5, <1>9
<1>10. CASE t2 = merge(left, leaf, key)
  BY <1>5, <1>7, <1>10 DEF IsMerged, IsSound
<1> QED
  BY <1>8, <1>9, <1>10

-----------------------------------------------------------------------------
(* A leaf that declines an insert.                                         *)
CanHalve(t, leaf, p) ==
    /\ Cardinality(t.nodes[leaf].keys) >= 2
    /\ p = Superroot =>
           (Max(t.nodes[leaf].keys) - Min(t.nodes[leaf].keys)) % 4 = 0
    /\ p # Superroot => t.nodes[p].width % 4 = 0

\* Two keys are apart.
LEMMA TwoKeysAreApart ==
    ASSUME NEW S \in SUBSET Key, Cardinality(S) >= 2
    PROVE  S # {} /\ Min(S) < Max(S) /\ Min(S) \in Key /\ Max(S) \in Key
<1>1. S # {}
  BY FS_EmptySet
<1>2. Min(S) \in S /\ Max(S) \in S /\ \A k \in S : Min(S) <= k /\ k <= Max(S)
  BY <1>1, MinAndMaxOfKeys
<1>3. Min(S) \in Int /\ Max(S) \in Int /\ \A k \in S : k \in Int
  BY <1>2, KeysAreWithinTheType
<1>4. Min(S) # Max(S)
  <2>1. SUFFICES ASSUME Min(S) = Max(S) PROVE FALSE
    OBVIOUS
  <2> DEFINE a == Min(S)
  <2>2. S = {a}
    BY <1>2, <1>3, <2>1
  <2> HIDE DEF a
  <2>3. Cardinality({a}) = 1
    BY FS_Singleton
  <2> QED
    BY <2>2, <2>3
<1> QED
  BY <1>1, <1>2, <1>3, <1>4

\* update_superroot_key_domain, at the start of a turn.
PreparedFor(t, p) == IF p = Superroot THEN update_superroot_key_domain(t) ELSE t

IsReady(t, leaf, p) ==
    /\ t.key_domain_min_ < t.key_domain_max_ /\ WidthAt(t, p) % 4 = 0
    /\ CanHalve(t, leaf, p)

\* It readies the tree for the turn.
LEMMA PreparedIsReady ==
    ASSUME NEW t, NEW leaf, NEW p, NEW key \in Key, Belongs(t, leaf, p, key),
           CanHalve(t, leaf, p), NEW t2, t2 = PreparedFor(t, p)
    PROVE  /\ Belongs(t2, leaf, p, key) /\ IsReady(t2, leaf, p)
           /\ Keys(t2) = Keys(t) /\ t2.fresh = t.fresh /\ t2.nodes = t.nodes
<1>1. PICK parent, first, from, to :
          /\ WellFormed(t, parent, first, from, to)
          /\ leaf \in Leaves(t) /\ parent[leaf] = p
          /\ ~t.nodes[Root(t)].is_leaf_ => IsIn(t, from, to, leaf, key)
  BY DEF Belongs
<1>2. p = Superroot <=> t.nodes[Root(t)].is_leaf_
  BY KeyIsWhereItBelongs
<1>3. CASE p # Superroot
  <2>1. t2 = t
    BY <1>3 DEF PreparedFor
  <2>2. t.key_domain_min_ < t.key_domain_max_
    BY <1>1, <1>2, <1>3, RegionFacts
  <2> QED
    BY <1>3, <2>1, <2>2 DEF IsReady, WidthAt, CanHalve
<1>4. CASE p = Superroot
  <2>1. t2 = update_superroot_key_domain(t)
    BY <1>4 DEF PreparedFor
  <2>2. /\ IsTree(t) /\ HasRuns(t, parent, first)
        /\ parent \in [Nodes(t) -> Models(t)] /\ first \in [Nodes(t) -> Nat]
    BY <1>1, WellFormedParts
  <2>3. leaf = Root(t)
    BY <1>1, <1>2, <1>4, <2>2, RootLeafIsAlone
  <2> DEFINE S == t.nodes[leaf].keys
  <2>4. S \in SUBSET Key /\ Cardinality(S) >= 2 /\ (Max(S) - Min(S)) % 4 = 0
    BY <1>4, KeyIsWhereItBelongs DEF CanHalve
  <2>5. S = t.nodes[Root(t)].keys
    BY <2>3
  <2> HIDE DEF S
  <2>6. S # {} /\ Min(S) < Max(S)
    BY <2>4, TwoKeysAreApart
  <2>7. /\ \E from2, to2 : WellFormed(t2, parent, first, from2, to2)
        /\ t2.nodes = t.nodes /\ t2.fresh = t.fresh
        /\ t2.key_domain_min_ = Min(S) /\ t2.key_domain_max_ = Max(S)
    BY <1>1, <1>2, <1>4, <2>1, <2>5, <2>6, DomainOfRootLeaf
  <2>8. Leaves(t2) = Leaves(t) /\ Root(t2) = Root(t) /\ Keys(t2) = Keys(t)
    BY <2>7 DEF Leaves, Root, Keys
  <2>9. Belongs(t2, leaf, p, key)
    BY <1>1, <1>2, <1>4, <2>7, <2>8 DEF Belongs
  <2>10. IsReady(t2, leaf, p)
    BY <1>4, <2>4, <2>6, <2>7 DEF IsReady, WidthAt, CanHalve
  <2> QED
    BY <2>7, <2>8, <2>9, <2>10
<1> QED
  BY <1>3, <1>4

\* The bucket that is split is the one of the leaf that declined.
LEMMA BucketIsOfLeaf ==
    ASSUME NEW t, NEW parent, NEW first, NEW from, NEW to,
           WellFormed(t, parent, first, from, to), NEW key \in Key,
           NEW leaf \in Leaves(t), NEW p, parent[leaf] = p,
           ~t.nodes[Root(t)].is_leaf_ => IsIn(t, from, to, leaf, key),
           NEW b, b = Bucket(t.nodes[p], key)
    PROVE  /\ p \in Models(t)
           /\ b \in 0 .. t.nodes[p].num_children_ - 1
           /\ t.nodes[p].children_[b] = leaf
<1>1. /\ IsTree(t) /\ HasRuns(t, parent, first)
      /\ parent \in [Nodes(t) -> Models(t)] /\ first \in [Nodes(t) -> Nat]
  BY WellFormedParts
<1>2. leaf \in Nodes(t) /\ p \in Models(t) /\ key \in Int
  BY <1>1, RunFacts, KeysAreWithinTheType
<1>3. CASE p = Superroot
  <2>1. leaf = Root(t) /\ t.nodes[Superroot].num_children_ = 1
    BY <1>1, <1>2, <1>3, RootFacts
  <2>2. b \in 0 .. t.nodes[p].num_children_ - 1
    <3>1. \A i \in Models(t) :
              /\ t.nodes[i].start \in Int
              /\ t.nodes[i].width \in Nat /\ t.nodes[i].width > 0
              /\ t.nodes[i].rounding = Exact
              /\ t.nodes[i].num_children_ \in Nat /\ t.nodes[i].num_children_ > 0
      BY <1>1, NodeFacts
    <3> DEFINE n == t.nodes[p]
    <3>2. /\ n.start \in Int /\ n.width \in Nat /\ n.width > 0 /\ n.rounding = Exact
          /\ n.num_children_ \in Nat /\ n.num_children_ > 0 /\ b = Bucket(n, key)
      BY <1>2, <3>1
    <3> HIDE DEF n
    <3>3. b \in 0 .. n.num_children_ - 1
      BY <1>2, <3>2, BucketFacts
    <3> QED
      BY <3>3 DEF n
  <2>3. b = 0
    BY <1>3, <2>1, <2>2
  <2> QED
    BY <1>2, <1>3, <2>1, <2>2, <2>3 DEF Root
<1>4. CASE p # Superroot
  <2>1. ~t.nodes[Root(t)].is_leaf_
    BY <1>1, <1>2, <1>4, RootLeafIsAlone
  <2>2. IsIn(t, from, to, p, key)
    <3>1. \A i \in Models(t) : i # Superroot =>
              /\ from[i] = Edge(t.nodes[i], 0)
              /\ to[i] = Edge(t.nodes[i], t.nodes[i].num_children_)
      BY <2>1, RegionFacts
    <3>2. \A c \in Nodes(t) : parent[c] # Superroot =>
              /\ from[c] = Edge(t.nodes[parent[c]], first[c])
              /\ to[c] = Edge(t.nodes[parent[c]], first[c] + Repeats(t.nodes[c]))
      BY <2>1, RegionFacts
    <3>3. \A c \in Nodes(t) :
              /\ first[c] \in Nat /\ Repeats(t.nodes[c]) \in Nat
              /\ first[c] + Repeats(t.nodes[c]) <= t.nodes[parent[c]].num_children_
      BY <1>1, RunFacts
    <3> DEFINE n == t.nodes[p]
               lo == first[leaf]
               hi == first[leaf] + Repeats(t.nodes[leaf])
    <3>4. /\ from[p] = Edge(n, 0) /\ to[p] = Edge(n, n.num_children_)
          /\ from[leaf] = Edge(n, lo) /\ to[leaf] = Edge(n, hi)
          /\ lo \in Nat /\ hi \in Nat /\ hi <= n.num_children_
      BY <1>2, <1>4, <3>1, <3>2, <3>3
    <3>5. n.start \in Int /\ n.width \in Nat /\ n.width > 0 /\ n.num_children_ \in Nat
      BY <1>1, <1>2, NodeFacts
    <3>6. Clamped(t, key) \in Int
      BY <1>1, <1>2, <2>1, RegionFacts, ClampedFacts
    <3>7. IsIn(t, from, to, leaf, key)
      BY <2>1
    <3> HIDE DEF n, lo, hi
    <3>8. \A a, c \in Int : /\ Edge(n, a) \in Int
                            /\ a < c <=> Edge(n, a) < Edge(n, c)
                            /\ a = c <=> Edge(n, a) = Edge(n, c)
      BY <3>5, EdgesGrow
    <3> DEFINE zero == 0
               all == n.num_children_
    <3>9. zero \in Int /\ all \in Int /\ zero <= lo /\ hi <= all
      BY <3>4, <3>5
    <3>10. from[p] = Edge(n, zero) /\ to[p] = Edge(n, all)
      BY <3>4
    <3> HIDE DEF zero, all
    <3>11. /\ Edge(n, zero) \in Int /\ Edge(n, all) \in Int
           /\ Edge(n, lo) \in Int /\ Edge(n, hi) \in Int
           /\ Edge(n, zero) <= Edge(n, lo) /\ Edge(n, hi) <= Edge(n, all)
      BY <3>4, <3>8, <3>9
    <3> QED
      BY <3>4, <3>6, <3>7, <3>10, <3>11 DEF IsIn
  <2>3. /\ Bucket(t.nodes[p], key) \in 0 .. t.nodes[p].num_children_ - 1
        /\ \A c \in Nodes(t) :
               parent[c] = p /\ IsIn(t, from, to, c, key) =>
                   t.nodes[p].children_[Bucket(t.nodes[p], key)] = c
    BY <1>2, <1>4, <2>1, <2>2, BucketHasKey
  <2> QED
    BY <1>2, <2>1, <2>3
<1> QED
  BY <1>3, <1>4

\* The fanout trees that a split may take.
LEMMA FanoutTreesAreFanouts ==
    ASSUME NEW f \in FanoutTrees
    PROVE  IsFanout(f.depth, f.factors)
BY DEF FanoutTrees, IsFanout

\* What every split promises, to an insert that goes on after it.
LEMMA SplitLeads ==
    ASSUME NEW t, NEW parent, NEW first, NEW from, NEW to,
           WellFormed(t, parent, first, from, to), NEW key \in Key,
           NEW leaf \in Leaves(t), t.key_domain_min_ < t.key_domain_max_,
           ~t.nodes[Root(t)].is_leaf_ => IsIn(t, from, to, leaf, key),
           NEW t2, NEW p, IsSplit(t, t2, from, to, leaf, p)
    PROVE  Belongs(t2, get_child_node(t2, p, key), p, key) /\ Keys(t2) = Keys(t)
<1>1. key \in Int
  BY KeysAreWithinTheType
<1>2. IsIn(t, from, to, leaf, key)
  <2>1. CASE t.nodes[Root(t)].is_leaf_
    <3>1. /\ IsTree(t) /\ HasRuns(t, parent, first)
          /\ parent \in [Nodes(t) -> Models(t)] /\ first \in [Nodes(t) -> Nat]
      BY WellFormedParts
    <3>2. leaf = Root(t)
      BY <2>1, <3>1, RootLeafIsAlone
    <3> QED
      BY <1>1, <3>2, AllIsInRoot
  <2> QED
    BY <2>1
<1>3. PICK parent2, first2, from2, to2 :
          /\ WellFormed(t2, parent2, first2, from2, to2)
          /\ get_child_node(t2, p, key) \in Leaves(t2)
          /\ parent2[get_child_node(t2, p, key)] = p
          /\ IsIn(t2, from2, to2, get_child_node(t2, p, key), key)
  BY <1>1, <1>2 DEF IsSplit
<1> QED
  BY <1>3 DEF Belongs, IsSplit

\* An insert goes on in the leaf that a split downwards made for the key.
LEMMA SplitDownwardsLeads ==
    ASSUME NEW t, NEW leaf, NEW p, NEW key \in Key, Belongs(t, leaf, p, key),
           IsReady(t, leaf, p), NEW f \in FanoutTrees,
           NEW t2, t2 = split_downwards(t, p, Bucket(t.nodes[p], key), f.factors, Exact)
    PROVE  /\ Belongs(t2, get_child_node(t2, t.fresh, key), t.fresh, key)
           /\ Keys(t2) = Keys(t)
<1>1. PICK parent, first, from, to :
          /\ WellFormed(t, parent, first, from, to)
          /\ leaf \in Leaves(t) /\ parent[leaf] = p
          /\ ~t.nodes[Root(t)].is_leaf_ => IsIn(t, from, to, leaf, key)
  BY DEF Belongs
<1> DEFINE b == Bucket(t.nodes[p], key)
<1>2. /\ p \in Models(t) /\ b \in 0 .. t.nodes[p].num_children_ - 1
      /\ leaf = t.nodes[p].children_[b]
  BY <1>1, BucketIsOfLeaf
<1>3. t2 = split_downwards(t, p, b, f.factors, Exact)
  OBVIOUS
<1> HIDE DEF b
<1>4. t.key_domain_min_ < t.key_domain_max_ /\ WidthAt(t, p) % 4 = 0
  BY DEF IsReady
<1>5. IsFanout(f.depth, f.factors)
  BY FanoutTreesAreFanouts
<1>6. IsSplit(t, t2, from, to, leaf, t.fresh)
  BY <1>1, <1>2, <1>3, <1>4, <1>5, SplitDownwardsIsSplit
<1> QED
  BY <1>1, <1>4, <1>6, SplitLeads

\* An insert goes on in the leaf that a split sideways made for the key.
LEMMA SplitSidewaysLeads ==
    ASSUME NEW t, NEW leaf, NEW p, NEW key \in Key, Belongs(t, leaf, p, key),
           IsReady(t, leaf, p), p # Superroot, NEW f \in FanoutTrees,
           NEW t2, t2 = split_sideways(t, p, Bucket(t.nodes[p], key), f.depth, f.factors)
    PROVE  Belongs(t2, get_child_node(t2, p, key), p, key) /\ Keys(t2) = Keys(t)
<1>1. PICK parent, first, from, to :
          /\ WellFormed(t, parent, first, from, to)
          /\ leaf \in Leaves(t) /\ parent[leaf] = p
          /\ ~t.nodes[Root(t)].is_leaf_ => IsIn(t, from, to, leaf, key)
  BY DEF Belongs
<1> DEFINE b == Bucket(t.nodes[p], key)
<1>2. /\ p \in Models(t) /\ b \in 0 .. t.nodes[p].num_children_ - 1
      /\ leaf = t.nodes[p].children_[b]
  BY <1>1, BucketIsOfLeaf
<1>3. t2 = split_sideways(t, p, b, f.depth, f.factors)
  OBVIOUS
<1> HIDE DEF b
<1>4. t.key_domain_min_ < t.key_domain_max_ /\ t.nodes[p].width % 4 = 0
  BY DEF IsReady, CanHalve
<1>5. IsFanout(f.depth, f.factors)
  BY FanoutTreesAreFanouts
<1>6. IsSplit(t, t2, from, to, leaf, p)
  BY <1>1, <1>2, <1>3, <1>4, <1>5, SplitSidewaysIsSplit
<1> QED
  BY <1>1, <1>4, <1>6, SplitLeads

-----------------------------------------------------------------------------
(* The trees that an index begins with.                                    *)
\* The nodes of a root leaf and its superroot.
LEMMA RootLeafFacts ==
    ASSUME NEW keys \in SUBSET Key, NEW least \in Int, NEW greatest \in Int,
           NEW t, t = RootLeaf(keys, least, greatest)
    PROVE  /\ IsTree(t) /\ DOMAIN t.nodes = {0, 1}
           /\ t.key_domain_min_ = least /\ t.key_domain_max_ = greatest
           /\ Root(t) = 1 /\ t.nodes[1] \in LeafNodes /\ t.nodes[1].keys = keys
           /\ t.nodes[1].level_ = 0 /\ t.nodes[1].duplication_factor_ = 0
           /\ t.nodes[1].prev_leaf_ = NoNode /\ t.nodes[1].next_leaf_ = NoNode
           /\ IsModel(t.nodes[0]) /\ t.nodes[0].num_children_ = 1
           /\ t.nodes[0].level_ = -1 /\ t.nodes[0].children_[0] = 1
           /\ t.fresh = 2
<1> DEFINE zero == 0
           one == 1
           below == -1
           children == [b \in {0} |-> 1]
           top == NewModelNode(below, zero, zero, one, one, Exact)
           super == [top EXCEPT !.children_ = children]
           leaf == NewDataNode(keys, zero, zero)
           nodes == [i \in 0 .. 1 |-> IF i = Superroot THEN super ELSE leaf]
<1>1. t = [nodes |-> nodes, fresh |-> 2, key_domain_min_ |-> least, key_domain_max_ |-> greatest]
  BY DEF RootLeaf, Exact
<1>2. /\ zero \in Int /\ zero \in Nat /\ one \in Nat /\ one > 0 /\ below \in Int
      /\ zero = 0 /\ one = 1 /\ below = -1
  OBVIOUS
<1>3. children \in [0 .. 0 -> Int] /\ children[0] = 1
  <2>1. {0} = 0 .. 0
    OBVIOUS
  <2> QED
    BY <2>1
<1> HIDE DEF zero, one, below, children
<1>4. IsModelOf(top, below, zero, zero, one, one)
  BY <1>2, NewModelNodeFacts
<1>5. IsModel(top) /\ top.num_children_ = 1 /\ top.level_ = -1
  BY <1>2, <1>4 DEF IsModelOf
<1> HIDE DEF top
<1>6. children \in [0 .. top.num_children_ - 1 -> Int]
  BY <1>3, <1>5
<1>7. /\ IsModel(super) /\ super.num_children_ = 1 /\ super.level_ = -1
      /\ super.children_ = children
  BY <1>5, <1>6, ModelWithChildren
<1>8. /\ leaf \in LeafNodes /\ leaf.level_ = 0
      /\ leaf.duplication_factor_ = 0 /\ leaf.keys = keys
      /\ leaf.prev_leaf_ = NoNode /\ leaf.next_leaf_ = NoNode
  BY <1>2, NewDataNodeFacts
<1> HIDE DEF super, leaf
<1>9. /\ DOMAIN nodes = {0, 1} /\ nodes[0] = super /\ nodes[1] = leaf
      /\ nodes = [i \in DOMAIN nodes |-> nodes[i]]
  BY DEF Superroot
<1> HIDE DEF nodes
<1>10. /\ t.nodes = nodes /\ t.fresh = 2
       /\ t.key_domain_min_ = least /\ t.key_domain_max_ = greatest
       /\ t = [nodes |-> t.nodes, fresh |-> t.fresh,
               key_domain_min_ |-> t.key_domain_min_,
               key_domain_max_ |-> t.key_domain_max_]
  BY <1>1
<1>11. IsTree(t)
  <2>1. DOMAIN t.nodes \subseteq 0 .. t.fresh - 1
    BY <1>9, <1>10
  <2> QED
    BY <1>7, <1>8, <1>9, <1>10, <2>1 DEF IsTree, Superroot
<1> QED
  BY <1>3, <1>7, <1>8, <1>9, <1>10, <1>11 DEF Root, Superroot

\* A root leaf is a tree of its keys.
LEMMA RootLeafIsSound ==
    ASSUME NEW keys \in SUBSET Key, NEW least \in Int, NEW greatest \in Int,
           NEW t, t = RootLeaf(keys, least, greatest)
    PROVE  /\ IsSound(t) /\ Keys(t) = keys /\ t.nodes[Root(t)].is_leaf_
           /\ Root(t) \in Leaves(t) /\ t.nodes[Root(t)].keys = keys
<1>1. /\ IsTree(t) /\ DOMAIN t.nodes = {0, 1}
      /\ t.key_domain_min_ = least /\ t.key_domain_max_ = greatest
      /\ Root(t) = 1 /\ t.nodes[1] \in LeafNodes /\ t.nodes[1].keys = keys
      /\ t.nodes[1].level_ = 0 /\ t.nodes[1].duplication_factor_ = 0
      /\ t.nodes[1].prev_leaf_ = NoNode /\ t.nodes[1].next_leaf_ = NoNode
      /\ IsModel(t.nodes[0]) /\ t.nodes[0].num_children_ = 1
      /\ t.nodes[0].level_ = -1 /\ t.nodes[0].children_[0] = 1
      /\ t.fresh = 2
  BY RootLeafFacts
<1>2. t.nodes[1].is_leaf_ /\ ~t.nodes[0].is_leaf_
  <2>1. 0 \in DOMAIN t.nodes /\ 1 \in DOMAIN t.nodes
    BY <1>1
  <2>2. t.nodes[1].is_leaf_ \in {TRUE} /\ t.nodes[0].is_leaf_ \in {FALSE}
    BY <1>1 DEF LeafNodes, IsModel
  <2> QED
    BY <2>2
<1>3. Leaves(t) = {1} /\ Models(t) = {Superroot} /\ Nodes(t) = {1}
  BY <1>1, <1>2 DEF Leaves, Models, Nodes, Superroot
<1> DEFINE parent == [c \in {1} |-> Superroot]
           first == [c \in {1} |-> 0]
           from == [c \in {1} |-> least]
           to == [c \in {1} |-> greatest]
<1>4. AreGhosts(t, parent, first, from, to)
  BY <1>3 DEF AreGhosts
<1>5. parent[1] = Superroot /\ first[1] = 0 /\ from[1] = least /\ to[1] = greatest
  OBVIOUS
<1> HIDE DEF parent, first, from, to
<1>6. 2^0 = 1
  BY PowerFacts
<1>7. Repeats(t.nodes[1]) = 1
  BY <1>1, <1>6 DEF Repeats
<1>8. HasRuns(t, parent, first)
  <2>1. HasRun(t.nodes[Superroot], 1, t.nodes[1], 0)
    <3>1. 0 % 1 = 0
      OBVIOUS
    <3>2. \A b \in 0 .. t.nodes[0].num_children_ - 1 :
              t.nodes[0].children_[b] = 1 <=> 0 <= b /\ b < 0 + 1
      BY <1>1
    <3> QED
      BY <1>1, <1>7, <3>1, <3>2 DEF HasRun, Superroot
  <2>2. \A c \in Nodes(t) : HasRun(t.nodes[parent[c]], c, t.nodes[c], first[c])
    BY <1>3, <1>5, <2>1
  <2>3. \A i \in Models(t) : \E x \in Nat : t.nodes[i].num_children_ = 2^x
    BY <1>1, <1>3, <1>6 DEF Superroot
  <2>4. \A i \in Models(t) : \A b \in 0 .. t.nodes[i].num_children_ - 1 :
            /\ t.nodes[i].children_[b] \in Nodes(t)
            /\ parent[t.nodes[i].children_[b]] = i
    BY <1>1, <1>3, <1>5 DEF Superroot
  <2> QED
    BY <2>2, <2>3, <2>4 DEF HasRuns
<1>9. HasRegions(t, parent, first, from, to)
  BY <1>1, <1>3, <1>5 DEF HasRegions
<1>10. t.nodes[Root(t)].is_leaf_
  BY <1>1, <1>2
<1>11. HasDomain(t, from, to) /\ IsRouted(t, from, to)
  BY <1>10 DEF HasDomain, IsRouted
<1>12. AreApart(t, from, to) /\ IsChained(t, from, to)
  BY <1>1, <1>3, <1>5 DEF AreApart, IsChained
<1>13. WellFormed(t, parent, first, from, to)
  BY <1>1, <1>4, <1>8, <1>9, <1>11, <1>12 DEF WellFormed
<1>14. IsSound(t)
  BY <1>13 DEF IsSound
<1>15. Keys(t) = keys
  BY <1>1, <1>3 DEF Keys
<1> QED
  BY <1>1, <1>3, <1>10, <1>14, <1>15

\* A leaf that is loaded with keys, which update_superroot_key_domain spans.
LEMMA LoadedIsSound ==
    ASSUME NEW keys \in Load, NEW t, t = Loaded(keys)
    PROVE  /\ IsSound(t) /\ Keys(t) = keys /\ keys \subseteq Key
           /\ t.key_domain_min_ < t.key_domain_max_ /\ WidthAt(t, Superroot) % 4 = 0
           /\ t.nodes[Superroot].num_children_ = 1
           /\ t.nodes[Superroot].children_[0] \in Leaves(t) /\ Superroot \in Models(t)
<1>1. keys \in SUBSET Key /\ Cardinality(keys) >= 2 /\ (Max(keys) - Min(keys)) % 4 = 0
  BY LoadsAreSetsOfKeys
<1> DEFINE t0 == RootLeaf(keys, kMax, kLowest)
<1>2. t = update_superroot_key_domain(t0)
  BY DEF Loaded
<1>3. kMax \in Int /\ kLowest \in Int
  BY KeysAreWithinTheType
<1>4. t0 = RootLeaf(keys, kMax, kLowest)
  OBVIOUS
<1> HIDE DEF t0
<1>5. /\ IsSound(t0) /\ Keys(t0) = keys /\ t0.nodes[Root(t0)].is_leaf_
      /\ Root(t0) \in Leaves(t0) /\ t0.nodes[Root(t0)].keys = keys
  BY <1>1, <1>3, <1>4, RootLeafIsSound
<1>6. keys # {} /\ Min(keys) < Max(keys)
  BY <1>1, TwoKeysAreApart
<1>7. PICK parent, first, from, to : WellFormed(t0, parent, first, from, to)
  BY <1>5 DEF IsSound
<1>8. /\ \E from2, to2 : WellFormed(t, parent, first, from2, to2)
      /\ t.nodes = t0.nodes
      /\ t.key_domain_min_ = Min(keys) /\ t.key_domain_max_ = Max(keys)
  BY <1>2, <1>5, <1>6, <1>7, DomainOfRootLeaf
<1>9. Leaves(t) = Leaves(t0) /\ Root(t) = Root(t0) /\ Keys(t) = Keys(t0)
  BY <1>8 DEF Leaves, Root, Keys
<1>10. IsSound(t)
  BY <1>8 DEF IsSound
<1>11. t.nodes[Superroot].num_children_ = 1 /\ Superroot \in Models(t)
  <2>1. PICK parent2, first2, from2, to2 : WellFormed(t, parent2, first2, from2, to2)
    BY <1>10 DEF IsSound
  <2>2. IsTree(t)
    BY <2>1, WellFormedParts
  <2> QED
    BY <2>2, NodeFacts DEF IsTree
<1>12. t.nodes[Superroot].children_[0] \in Leaves(t)
  BY <1>5, <1>9 DEF Root
<1>13. WidthAt(t, Superroot) % 4 = 0
  BY <1>1, <1>8 DEF WidthAt
<1> QED
  BY <1>1, <1>5, <1>6, <1>8, <1>9, <1>10, <1>11, <1>12, <1>13

\* What bulk_load splits is as sound.
LEMMA SplitLoadIsSound ==
    ASSUME NEW keys \in Load, NEW f \in FanoutTrees,
           NEW t, t = split_downwards(Loaded(keys), Superroot, 0, f.factors, Exact)
    PROVE  IsSound(t) /\ Keys(t) = keys
<1> DEFINE t0 == Loaded(keys)
           b == 0
<1>1. t = split_downwards(t0, Superroot, b, f.factors, Exact) /\ t0 = Loaded(keys) /\ b = 0
  OBVIOUS
<1> HIDE DEF t0, b
<1>2. /\ IsSound(t0) /\ Keys(t0) = keys
      /\ t0.key_domain_min_ < t0.key_domain_max_ /\ WidthAt(t0, Superroot) % 4 = 0
      /\ t0.nodes[Superroot].num_children_ = 1
      /\ t0.nodes[Superroot].children_[0] \in Leaves(t0) /\ Superroot \in Models(t0)
  BY <1>1, LoadedIsSound
<1> DEFINE leaf == t0.nodes[Superroot].children_[b]
<1>3. leaf = t0.nodes[Superroot].children_[b] /\ leaf \in Leaves(t0)
  BY <1>1, <1>2
<1>4. b \in 0 .. t0.nodes[Superroot].num_children_ - 1
  BY <1>1, <1>2
<1> HIDE DEF leaf
<1>5. PICK parent, first, from, to : WellFormed(t0, parent, first, from, to)
  BY <1>2 DEF IsSound
<1>6. IsFanout(f.depth, f.factors)
  BY FanoutTreesAreFanouts
<1>7. IsSplit(t0, t, from, to, leaf, t0.fresh)
  BY <1>1, <1>2, <1>3, <1>4, <1>5, <1>6, SplitDownwardsIsSplit
<1> QED
  BY <1>2, <1>7 DEF IsSplit, IsSound

\* An insert may expand the root first.
LEMMA ExpandedIsSound ==
    ASSUME Misrounded = {}, IsSound(tree), NEW key \in Key, NEW t \in Expanded(key)
    PROVE  IsSound(t) /\ Keys(t) = Keys(tree)
<1>1. Roundings \subseteq {Exact}
  BY DEF Roundings, Exact
<1>2. PICK parent, first, from, to : WellFormed(tree, parent, first, from, to)
  BY DEF IsSound
<1>3. CASE t = tree
  BY <1>3
<1>4. ASSUME NEW left \in BOOLEAN, ~tree.nodes[Root(tree)].is_leaf_,
             left => key < tree.key_domain_min_, ~left => key > tree.key_domain_max_,
             t = expand_root(tree, key, left, Exact)
      PROVE  IsSound(t) /\ Keys(t) = Keys(tree)
  <2>1. IsMerged(tree, expand_root(tree, key, left, Exact))
    BY <1>2, <1>4, ExpandRootIsMerged
  <2> QED
    BY <1>4, <2>1 DEF IsMerged, IsSound
<1>5. CASE ~tree.nodes[Root(tree)].is_leaf_ /\ key > tree.key_domain_max_
  <2>1. t = tree \/ t = expand_root(tree, key, FALSE, Exact)
    BY <1>1, <1>5 DEF Expanded
  <2> DEFINE left == FALSE
  <2>2. left \in BOOLEAN /\ ~left
    OBVIOUS
  <2>3. t = tree \/ t = expand_root(tree, key, left, Exact)
    BY <2>1
  <2> HIDE DEF left
  <2> QED
    BY <1>3, <1>4, <1>5, <2>2, <2>3
<1>6. CASE ~tree.nodes[Root(tree)].is_leaf_ /\ ~(key > tree.key_domain_max_)
                                            /\ key < tree.key_domain_min_
  <2>1. t = tree \/ t = expand_root(tree, key, TRUE, Exact)
    BY <1>1, <1>6 DEF Expanded
  <2> DEFINE left == TRUE
  <2>2. left \in BOOLEAN /\ left
    OBVIOUS
  <2>3. t = tree \/ t = expand_root(tree, key, left, Exact)
    BY <2>1
  <2> HIDE DEF left
  <2> QED
    BY <1>3, <1>4, <1>6, <2>2, <2>3
<1>7. CASE \/ tree.nodes[Root(tree)].is_leaf_
           \/ ~(key > tree.key_domain_max_) /\ ~(key < tree.key_domain_min_)
  BY <1>3, <1>7 DEF Expanded
<1> QED
  BY <1>5, <1>6, <1>7

-----------------------------------------------------------------------------
(* The inductive invariant.                                                *)
\* An insert under way is tried in the leaf where its key belongs.
IsTried(t, o) ==
    /\ o.key \in Key /\ o.fail \in 1 .. 2
    /\ o.policy \in Policies /\ o.path = << >>
    /\ Belongs(t, o.leaf, o.parent, o.key) /\ CanHalve(t, o.leaf, o.parent)

Answers ==
    [call : {"bulk_load", "pending", "insert", "erase"}, key : Key \cup {0}, count : 0 .. 1]

IInv ==
    /\ IsSound(tree)
    /\ op # Idle => IsTried(tree, op)
    /\ ret \in Answers

\* The default settings of an index: no split goes upwards.
NoneUpwards == \A policy \in Policies : ~policy.upwards

\* A leaf that accepts an insert.
LEMMA AcceptsIsInsert ==
    ASSUME NEW t, NEW leaf, NEW p, NEW key \in Key, Belongs(t, leaf, p, key),
           Keys(t) = Keys(tree), Accepts(t, leaf, key)
    PROVE  IInv' /\ KS!Insert(key)
<1> DEFINE t2 == WithKeys(t, leaf, t.nodes[leaf].keys \cup {key})
<1>1. tree' = t2 /\ op' = Idle
  BY DEF Accepts
<1>2. ret' = Answer("insert", key, IF key \in t.nodes[leaf].keys THEN 0 ELSE 1)
  BY DEF Accepts
<1>3. t2 = WithKeys(t, leaf, t.nodes[leaf].keys \cup {key})
  OBVIOUS
<1> HIDE DEF t2
<1>4. IsSound(t2) /\ Keys(t2) = Keys(t) \cup {key}
  BY <1>3, TakesKey
<1>5. key \in Keys(t) <=> key \in t.nodes[leaf].keys
  BY KeyIsWhereItBelongs
<1>6. ret' \in Answers
  BY <1>2 DEF Answer, Answers
<1>7. Keys(tree)' = Keys(tree) \cup {key}
  <2>1. Keys(tree)' = Keys(t2)
    BY <1>1 DEF Keys, Leaves
  <2> QED
    BY <1>4, <2>1
<1>8. IsSound(tree)'
  <2>1. IsSound(tree)' = IsSound(tree')
    BY DEF IsSound
  <2> QED
    BY <1>1, <1>4
<1>9. IInv'
  BY <1>1, <1>6, <1>8 DEF IInv, Idle
<1>10. KS!Insert(key)
  BY <1>2, <1>5, <1>7 DEF KS!Insert, KS!Answer, Answer
<1> QED
  BY <1>9, <1>10

\* A leaf that declines an insert.
LEMMA DeclinesIsBegin ==
    ASSUME NEW t, NEW leaf, NEW p, NEW key \in Key, Belongs(t, leaf, p, key),
           Keys(t) = Keys(tree),
           NEW policy \in Policies, NEW codes \in SUBSET (1 .. 2),
           NEW path, path = << >>, Declines(t, leaf, p, path, key, policy, codes)
    PROVE  IInv' /\ KS!Begin
<1>1. PICK fail \in codes :
          op' = [key |-> key, policy |-> policy, fail |-> fail,
                 leaf |-> leaf, parent |-> p, path |-> path]
  BY DEF Declines
<1>2. tree' = t /\ ret' = Pending /\ CanSplit(t, leaf, p, path)
  BY DEF Declines
<1>3. IsSound(t) /\ p \in Models(t)
  BY KeyIsWhereItBelongs
<1>4. CanHalve(t, leaf, p)
  <2>1. p \in DOMAIN t.nodes
    BY <1>3 DEF Models
  <2> QED
    BY <1>2, <2>1 DEF CanSplit, CanHalve
<1>5. IsTried(t, op')
  <2>1. /\ op'.key = key /\ op'.policy = policy /\ op'.fail = fail
        /\ op'.leaf = leaf /\ op'.parent = p /\ op'.path = path
    BY <1>1
  <2> QED
    BY <1>1, <1>4, <2>1 DEF IsTried
<1>6. ret' = Answer("pending", 0, 0) /\ ret' \in Answers
  BY <1>2 DEF Pending, Answer, Answers
<1>7. Keys(tree)' = Keys(tree)
  BY <1>2
<1>8. IInv'
  BY <1>2, <1>3, <1>5, <1>6 DEF IInv
<1> QED
  BY <1>6, <1>7, <1>8 DEF KS!Begin, KS!Answer, Answer

\* What a turn of the loop in insert ends with.
LEMMA RetriesIsCall ==
    ASSUME NEW t, NEW leaf, NEW p, IsTried(tree, op), Belongs(t, leaf, p, op.key),
           Keys(t) = Keys(tree), Retries(t, leaf, p, op.path)
    PROVE  IInv' /\ (KS!Begin \/ KS!Insert(op.key))
<1>1. op.key \in Key /\ op.policy \in Policies /\ op.path = << >>
  BY DEF IsTried
<1>2. {2} \in SUBSET (1 .. 2)
  OBVIOUS
<1>3. CASE Accepts(t, leaf, op.key)
  BY <1>1, <1>3, AcceptsIsInsert
<1>4. CASE Declines(t, leaf, p, op.path, op.key, op.policy, {2})
  BY <1>1, <1>2, <1>4, DeclinesIsBegin
<1> QED
  BY <1>3, <1>4 DEF Retries

\* What a turn works on.
LEMMA PreparedFacts ==
    ASSUME op # Idle, IsTried(tree, op)
    PROVE  /\ op.key \in Key
           /\ Belongs(Prepared, op.leaf, op.parent, op.key)
           /\ IsReady(Prepared, op.leaf, op.parent)
           /\ Keys(Prepared) = Keys(tree) /\ Prepared.fresh = tree.fresh
<1>1. Prepared = PreparedFor(tree, op.parent)
  BY DEF Prepared, PreparedFor
<1> DEFINE t == tree
           leaf == op.leaf
           p == op.parent
           key == op.key
           t2 == Prepared
<1>2. key \in Key /\ Belongs(t, leaf, p, key) /\ CanHalve(t, leaf, p)
  BY DEF IsTried
<1>3. t2 = PreparedFor(t, p)
  BY <1>1
<1> HIDE DEF t, leaf, p, key, t2
<1>4. /\ Belongs(t2, leaf, p, key) /\ IsReady(t2, leaf, p)
      /\ Keys(t2) = Keys(t) /\ t2.fresh = t.fresh
  BY <1>2, <1>3, PreparedIsReady
<1> QED
  BY <1>2, <1>4 DEF t, leaf, p, key, t2

\* A leaf that is trained anew goes on with the insert, or begins another turn.
LEMMA RetrainIsCall ==
    ASSUME IInv, Retrain
    PROVE  IInv' /\ (KS!Begin \/ KS!Insert(op.key))
<1>1. op # Idle /\ IsTried(tree, op) /\ Retries(Prepared, op.leaf, op.parent, op.path)
  BY DEF Retrain, IInv
<1>2. Belongs(Prepared, op.leaf, op.parent, op.key) /\ Keys(Prepared) = Keys(tree)
  BY <1>1, PreparedFacts
<1> HIDE DEF Prepared
<1> QED
  BY <1>1, <1>2, RetriesIsCall

\* So does one that is split downwards.
LEMMA SplitDownwardsIsCall ==
    ASSUME Misrounded = {}, IInv, SplitDownwards
    PROVE  IInv' /\ (KS!Begin \/ KS!Insert(op.key))
<1>1. op # Idle /\ IsTried(tree, op)
  BY DEF SplitDownwards, IInv
<1>2. PICK f \in ChosenTrees(op.fail, op.policy.method), rounding \in Roundings :
          LET t == split_downwards(Prepared, op.parent, BucketToSplit, f.factors, rounding)
          IN  Retries(t, get_child_node(t, tree.fresh, op.key), tree.fresh, op.path)
  BY DEF SplitDownwards
<1>3. rounding = Exact /\ f \in FanoutTrees
  BY DEF Roundings, Exact, ChosenTrees
<1>4. /\ op.key \in Key
      /\ Belongs(Prepared, op.leaf, op.parent, op.key)
      /\ IsReady(Prepared, op.leaf, op.parent)
      /\ Keys(Prepared) = Keys(tree) /\ Prepared.fresh = tree.fresh
  BY <1>1, PreparedFacts
<1> DEFINE t == Prepared
           p == op.parent
           key == op.key
           leaf == op.leaf
           fresh == tree.fresh
           t2 == split_downwards(t, p, Bucket(t.nodes[p], key), f.factors, Exact)
<1>5. t2 = split_downwards(Prepared, op.parent, BucketToSplit, f.factors, rounding)
  BY <1>3 DEF BucketToSplit
<1>6. Retries(t2, get_child_node(t2, fresh, key), fresh, op.path)
  BY <1>2, <1>5
<1>7. t2 = split_downwards(t, p, Bucket(t.nodes[p], key), f.factors, Exact)
  OBVIOUS
<1>8. /\ key \in Key /\ Belongs(t, leaf, p, key) /\ IsReady(t, leaf, p)
      /\ Keys(t) = Keys(tree) /\ t.fresh = fresh /\ op.key = key
  BY <1>4
<1> HIDE DEF t, p, key, leaf, fresh, t2
<1>9. /\ Belongs(t2, get_child_node(t2, t.fresh, key), t.fresh, key)
      /\ Keys(t2) = Keys(t)
  BY <1>3, <1>7, <1>8, SplitDownwardsLeads
<1> DEFINE next == get_child_node(t2, fresh, key)
<1>10. Belongs(t2, next, fresh, op.key) /\ Retries(t2, next, fresh, op.path)
  BY <1>6, <1>8, <1>9
<1> HIDE DEF next
<1> QED
  BY <1>1, <1>8, <1>9, <1>10, RetriesIsCall

\* So does one that is split sideways.
LEMMA SplitSidewaysIsCall ==
    ASSUME IInv, SplitSideways
    PROVE  IInv' /\ (KS!Begin \/ KS!Insert(op.key))
<1>1. op # Idle /\ IsTried(tree, op)
  BY DEF SplitSideways, IInv
<1>2. PICK f \in ChosenTrees(op.fail, op.policy.method) :
          /\ Prepared.nodes[op.parent].level_ # Prepared.nodes[Superroot].level_
          /\ LET t == split_sideways(Prepared, op.parent, BucketToSplit, f.depth, f.factors)
             IN  Retries(t, get_child_node(t, op.parent, op.key), op.parent, op.path)
  BY DEF SplitSideways
<1>3. f \in FanoutTrees /\ op.parent # Superroot
  BY <1>2 DEF ChosenTrees
<1>4. /\ op.key \in Key
      /\ Belongs(Prepared, op.leaf, op.parent, op.key)
      /\ IsReady(Prepared, op.leaf, op.parent)
      /\ Keys(Prepared) = Keys(tree)
  BY <1>1, PreparedFacts
<1> DEFINE t == Prepared
           p == op.parent
           key == op.key
           leaf == op.leaf
           t2 == split_sideways(t, p, Bucket(t.nodes[p], key), f.depth, f.factors)
<1>5. t2 = split_sideways(Prepared, op.parent, BucketToSplit, f.depth, f.factors)
  BY DEF BucketToSplit
<1>6. Retries(t2, get_child_node(t2, p, key), p, op.path)
  BY <1>2, <1>5
<1>7. t2 = split_sideways(t, p, Bucket(t.nodes[p], key), f.depth, f.factors)
  OBVIOUS
<1>8. /\ key \in Key /\ Belongs(t, leaf, p, key) /\ IsReady(t, leaf, p)
      /\ Keys(t) = Keys(tree) /\ op.key = key /\ p # Superroot
  BY <1>3, <1>4
<1> HIDE DEF t, p, key, leaf, t2
<1>9. Belongs(t2, get_child_node(t2, p, key), p, key) /\ Keys(t2) = Keys(t)
  BY <1>3, <1>7, <1>8, SplitSidewaysLeads
<1> DEFINE next == get_child_node(t2, p, key)
<1>10. Belongs(t2, next, p, op.key) /\ Retries(t2, next, p, op.path)
  BY <1>6, <1>8, <1>9
<1> HIDE DEF next
<1> QED
  BY <1>1, <1>8, <1>9, <1>10, RetriesIsCall

\* An insert that is accepted at once is one into a set.
LEMMA InsertIsCall ==
    ASSUME Misrounded = {}, IInv, NEW key \in Key, Insert(key)
    PROVE  IInv' /\ KS!Insert(key)
<1>1. PICK t \in Expanded(key) : Accepts(t, get_leaf(t, key).leaf, key)
  BY DEF Insert
<1>2. IsSound(t) /\ Keys(t) = Keys(tree)
  BY <1>1, ExpandedIsSound DEF IInv
<1> DEFINE leaf == get_leaf(t, key).leaf
           p == Last(get_leaf(t, key).path).node
<1>3. Belongs(t, leaf, p, key)
  BY <1>2, LookupLeads
<1>4. Accepts(t, leaf, key)
  BY <1>1
<1> HIDE DEF leaf, p
<1> QED
  BY <1>2, <1>3, <1>4, AcceptsIsInsert

\* An insert that is declined has no effect yet.
LEMMA DeclinedInsertIsCall ==
    ASSUME Misrounded = {}, NoneUpwards, IInv, NEW key \in Key, DeclinedInsert(key)
    PROVE  IInv' /\ KS!Begin
<1>1. PICK t \in Expanded(key) :
          LET found == get_leaf(t, key)
          IN  \E policy \in Policies :
                  Declines(t, found.leaf, Last(found.path).node,
                           IF policy.upwards THEN found.path ELSE << >>,
                           key, policy, {1, 2})
  BY DEF DeclinedInsert
<1>2. IsSound(t) /\ Keys(t) = Keys(tree)
  BY <1>1, ExpandedIsSound DEF IInv
<1> DEFINE leaf == get_leaf(t, key).leaf
           p == Last(get_leaf(t, key).path).node
<1>3. Belongs(t, leaf, p, key)
  BY <1>2, LookupLeads
<1>4. PICK policy \in Policies :
          Declines(t, leaf, p, IF policy.upwards THEN get_leaf(t, key).path ELSE << >>,
                   key, policy, {1, 2})
  BY <1>1
<1>5. Declines(t, leaf, p, << >>, key, policy, {1, 2})
  BY <1>4 DEF NoneUpwards
<1> DEFINE path == << >>
           codes == {1, 2}
<1>6. codes \in SUBSET (1 .. 2) /\ path = << >> /\ Declines(t, leaf, p, path, key, policy, codes)
  BY <1>5
<1> HIDE DEF leaf, p, path, codes
<1> QED
  BY <1>2, <1>3, <1>6, DeclinesIsBegin

\* An erasure is one from a set.
LEMMA EraseIsCall ==
    ASSUME IInv, NEW key \in Key, Erase(key)
    PROVE  IInv' /\ KS!Erase(key)
<1>1. IsSound(tree) /\ op = Idle /\ op' = Idle
  BY DEF IInv, Erase
<1>2. PICK leaf \in {get_leaf(tree, key).leaf}
                        \cup {i \in Leaves(tree) : key \in tree.nodes[i].keys} :
          /\ tree' = Erased(tree, leaf, key)
          /\ ret' = Answer("erase", key, IF key \in tree.nodes[leaf].keys THEN 1 ELSE 0)
  BY DEF Erase
<1>3. \E p : Belongs(tree, leaf, p, key)
  <2>1. Belongs(tree, get_leaf(tree, key).leaf, Last(get_leaf(tree, key).path).node, key)
    BY <1>1, LookupLeads
  <2>2. CASE leaf = get_leaf(tree, key).leaf
    BY <2>1, <2>2
  <2>3. CASE leaf \in Leaves(tree) /\ key \in tree.nodes[leaf].keys
    BY <1>1, <2>3, KeyBelongs
  <2> QED
    BY <1>2, <2>2, <2>3
<1>4. PICK p : Belongs(tree, leaf, p, key)
  BY <1>3
<1> DEFINE t == tree
           t2 == Erased(t, leaf, key)
<1>5. tree' = t2 /\ t2 = Erased(t, leaf, key) /\ Belongs(t, leaf, p, key)
  BY <1>2, <1>4
<1>6. Keys(tree) = Keys(t)
  OBVIOUS
<1> HIDE DEF t, t2
<1>7. IsSound(t2) /\ Keys(t2) = Keys(t) \ {key}
  BY <1>5, LosesKey
<1>8. key \in Keys(tree) <=> key \in tree.nodes[leaf].keys
  BY <1>4, KeyIsWhereItBelongs
<1>9. ret' \in Answers
  BY <1>2 DEF Answer, Answers
<1>10. IInv'
  BY <1>1, <1>5, <1>7, <1>9 DEF IInv, Idle
<1>11. Keys(tree)' = Keys(tree) \ {key}
  BY <1>5, <1>6, <1>7
<1>12. KS!Erase(key)
  BY <1>2, <1>8, <1>11 DEF KS!Erase, KS!Answer, Answer
<1> QED
  BY <1>10, <1>12

-----------------------------------------------------------------------------
(* What the invariant implies.                                             *)
\* No pointer dangles, and all of them lead down.
LEMMA SoundIsTyped ==
    ASSUME IInv PROVE TypeOK
<1>1. PICK parent, first, from, to : WellFormed(tree, parent, first, from, to)
  BY DEF IInv, IsSound
<1>2. /\ IsTree(tree) /\ HasRuns(tree, parent, first)
      /\ parent \in [Nodes(tree) -> Models(tree)] /\ first \in [Nodes(tree) -> Nat]
  BY <1>1, WellFormedParts
<1>3. /\ \A i \in DOMAIN tree.nodes :
             /\ i \in Nat
             /\ i \in Leaves(tree) <=> tree.nodes[i].is_leaf_
             /\ i \in Models(tree) <=> ~tree.nodes[i].is_leaf_
      /\ \A i \in Leaves(tree) : tree.nodes[i].keys \subseteq Key
      /\ \A i \in Models(tree) :
             tree.nodes[i].children_ \in [0 .. tree.nodes[i].num_children_ - 1 -> Int]
  BY <1>2, NodeFacts
<1>4. ASSUME NEW i \in Models(tree), NEW b \in 0 .. tree.nodes[i].num_children_ - 1
      PROVE  /\ tree.nodes[i].children_[b] \in DOMAIN tree.nodes \ {0}
             /\ tree.nodes[tree.nodes[i].children_[b]].level_ > tree.nodes[i].level_
  <2> DEFINE c == tree.nodes[i].children_[b]
  <2>1. c \in Nodes(tree) /\ parent[c] = i
    BY <1>2, RunFacts
  <2> HIDE DEF c
  <2>2. HasRun(tree.nodes[i], c, tree.nodes[c], first[c])
    BY <1>2, <2>1 DEF HasRuns
  <2>3. c \in DOMAIN tree.nodes \ {0} /\ tree.nodes[c].level_ > tree.nodes[i].level_
    BY <2>1, <2>2 DEF HasRun, Nodes, Superroot
  <2> QED
    BY <2>3 DEF c
<1>5. ASSUME NEW i \in DOMAIN tree.nodes, ~tree.nodes[i].is_leaf_
      PROVE  /\ tree.nodes[i].children_
                    \in [0 .. tree.nodes[i].num_children_ - 1 -> DOMAIN tree.nodes \ {0}]
             /\ \A b \in DOMAIN tree.nodes[i].children_ :
                    tree.nodes[tree.nodes[i].children_[b]].level_ > tree.nodes[i].level_
  BY <1>3, <1>4, <1>5
<1>6. ASSUME NEW i \in DOMAIN tree.nodes, tree.nodes[i].is_leaf_
      PROVE  tree.nodes[i].keys \subseteq Key
  BY <1>3, <1>6
<1>7. op = Idle \/ (op.key \in Key /\ op.fail \in 1 .. 2 /\ op.leaf \in Leaves(tree))
  BY DEF IInv, IsTried, Belongs
<1>8. ret \in [call : {"bulk_load", "pending", "insert", "erase"},
               key : Key \cup {0}, count : 0 .. 1]
  BY DEF IInv, Answers
<1> QED
  BY <1>5, <1>6, <1>7, <1>8 DEF TypeOK

\* A child's pointers are a run of as many as its duplication factor says.
LEMMA SoundPointersRepeat ==
    ASSUME IInv PROVE PointersRepeatByDuplicationFactor
<1>1. PICK parent, first, from, to : WellFormed(tree, parent, first, from, to)
  BY DEF IInv, IsSound
<1>2. /\ IsTree(tree) /\ HasRuns(tree, parent, first)
      /\ parent \in [Nodes(tree) -> Models(tree)] /\ first \in [Nodes(tree) -> Nat]
  BY <1>1, WellFormedParts
<1> DEFINE IsRun(i, b) ==
               LET n == tree.nodes[i]
                   repeats == Repeats(tree.nodes[n.children_[b]])
                   start == RunStart(b, repeats)
               IN  {c \in DOMAIN n.children_ : n.children_[c] = n.children_[b]}
                       = start .. start + repeats - 1
<1>3. ASSUME NEW i \in Models(tree), NEW b \in DOMAIN tree.nodes[i].children_
      PROVE  IsRun(i, b)
  <2> DEFINE n == tree.nodes[i]
             c == n.children_[b]
             r == Repeats(tree.nodes[c])
  <2>1. n.children_ \in [0 .. n.num_children_ - 1 -> Int] /\ n.num_children_ \in Nat
    BY <1>2, NodeFacts
  <2>2. b \in 0 .. n.num_children_ - 1 /\ DOMAIN n.children_ = 0 .. n.num_children_ - 1
    BY <2>1
  <2>3. c \in Nodes(tree) /\ parent[c] = i /\ RunStart(b, r) = first[c]
    BY <1>2, <2>2, RunOfLeaf
  <2> HIDE DEF c
  <2>4. /\ first[c] \in Nat /\ Repeats(tree.nodes[c]) \in Nat
        /\ first[c] + Repeats(tree.nodes[c]) <= n.num_children_
        /\ \A d \in 0 .. n.num_children_ - 1 :
               n.children_[d] = c <=> first[c] <= d /\ d < first[c] + Repeats(tree.nodes[c])
    <3>1. \A x \in Nodes(tree) :
              /\ first[x] \in Nat /\ Repeats(tree.nodes[x]) \in Nat
              /\ first[x] + Repeats(tree.nodes[x]) <= tree.nodes[parent[x]].num_children_
              /\ \A d \in 0 .. tree.nodes[parent[x]].num_children_ - 1 :
                     tree.nodes[parent[x]].children_[d] = x
                         <=> first[x] <= d /\ d < first[x] + Repeats(tree.nodes[x])
      BY <1>2, RunFacts
    <3> QED
      BY <2>3, <3>1
  <2>5. ASSUME NEW d
        PROVE  d \in {e \in DOMAIN n.children_ : n.children_[e] = c}
                   <=> d \in first[c] .. first[c] + r - 1
    BY <2>1, <2>2, <2>4
  <2>6. {e \in DOMAIN n.children_ : n.children_[e] = c} = first[c] .. first[c] + r - 1
    BY <2>5
  <2> QED
    BY <2>3, <2>6 DEF c
<1> QED
  BY <1>3 DEF PointersRepeatByDuplicationFactor, Models

\* The outermost leaf below a node is at the same end of what the node is for.
LEMMA OutermostBelow ==
    ASSUME NEW t, NEW parent, NEW first, NEW from, NEW to,
           WellFormed(t, parent, first, from, to), ~t.nodes[Root(t)].is_leaf_,
           NEW c \in Nodes(t), NEW picks, NEW A, ArePicks(t, picks), IsClosed(t, picks, A),
           c \in A,
           NEW l, l = (IF t.nodes[c].is_leaf_ THEN c ELSE LeafOf(t, Descent(t, c, picks)))
    PROVE  l \in A /\ l \in Leaves(t)
<1>1. /\ IsTree(t) /\ HasRuns(t, parent, first)
      /\ parent \in [Nodes(t) -> Models(t)] /\ first \in [Nodes(t) -> Nat]
  BY WellFormedParts
<1>2. c \in DOMAIN t.nodes
  BY DEF Nodes
<1>3. CASE t.nodes[c].is_leaf_
  BY <1>2, <1>3 DEF Leaves
<1>4. CASE ~t.nodes[c].is_leaf_
  <2>1. c \in Models(t)
    BY <1>2, <1>4 DEF Models, Leaves
  <2> QED
    BY <1>1, <1>4, <2>1, DescendsWithin
<1> QED
  BY <1>3, <1>4

\* Neighbours in the chain are neighbours in the tree.
LEMMA SoundChainFollows ==
    ASSUME IInv PROVE ChainFollowsTree
<1>1. PICK parent, first, from, to : WellFormed(tree, parent, first, from, to)
  BY DEF IInv, IsSound
<1>2. /\ IsTree(tree) /\ HasRuns(tree, parent, first)
      /\ parent \in [Nodes(tree) -> Models(tree)] /\ first \in [Nodes(tree) -> Nat]
  BY <1>1, WellFormedParts
<1>3. ASSUME NEW leaf \in Leaves(tree)
      PROVE  \E i \in Models(tree) : \E b \in DOMAIN tree.nodes[i].children_ :
                 tree.nodes[i].children_[b] = leaf
  <2>1. leaf \in Nodes(tree) /\ parent[leaf] \in Models(tree)
    BY <1>2, RunFacts
  <2> DEFINE i == parent[leaf]
  <2>2. /\ first[leaf] \in Nat /\ Repeats(tree.nodes[leaf]) \in Nat
        /\ Repeats(tree.nodes[leaf]) > 0
        /\ first[leaf] + Repeats(tree.nodes[leaf]) <= tree.nodes[i].num_children_
        /\ \A b \in 0 .. tree.nodes[i].num_children_ - 1 :
               tree.nodes[i].children_[b] = leaf
                   <=> first[leaf] <= b /\ b < first[leaf] + Repeats(tree.nodes[leaf])
    BY <1>2, <2>1, RunFacts
  <2>3. /\ tree.nodes[i].children_ \in [0 .. tree.nodes[i].num_children_ - 1 -> Int]
        /\ tree.nodes[i].num_children_ \in Nat
    BY <1>2, <2>1, NodeFacts
  <2>4. /\ first[leaf] \in DOMAIN tree.nodes[i].children_
        /\ tree.nodes[i].children_[first[leaf]] = leaf
    BY <2>2, <2>3
  <2> QED
    BY <2>1, <2>4
<1>4. CASE tree.nodes[Root(tree)].is_leaf_
  <2>1. first_data_node(tree) = Root(tree) /\ last_data_node(tree) = Root(tree)
    BY <1>2, <1>4, RootLeafIsFirst
  <2>2. Leaves(tree) = {Root(tree)} /\ Models(tree) = {Superroot}
    BY <1>2, <1>4, RootLeafIsAlone
  <2>3. /\ tree.nodes[Root(tree)].prev_leaf_ = NoNode
        /\ tree.nodes[Root(tree)].next_leaf_ = NoNode
    BY <1>1, <2>2 DEF WellFormed, IsChained
  <2>4. DOMAIN tree.nodes[Superroot].children_ \ {0} = {}
    <3>1. /\ tree.nodes[Superroot].num_children_ = 1
          /\ tree.nodes[Superroot].children_
                 \in [0 .. tree.nodes[Superroot].num_children_ - 1 -> Int]
      BY <1>2, NodeFacts, RootFacts
    <3> QED
      BY <3>1
  <2>5. /\ tree.nodes[first_data_node(tree)].prev_leaf_ = NoNode
        /\ tree.nodes[last_data_node(tree)].next_leaf_ = NoNode
        /\ \A i \in Models(tree) : DOMAIN tree.nodes[i].children_ \ {0} = {}
    BY <2>1, <2>2, <2>3, <2>4
  <2> QED
    BY <1>3, <2>5 DEF ChainFollowsTree
<1>5. CASE ~tree.nodes[Root(tree)].is_leaf_
  <2>1. /\ first_data_node(tree) \in Leaves(tree)
        /\ from[first_data_node(tree)] = tree.key_domain_min_
        /\ last_data_node(tree) \in Leaves(tree)
        /\ to[last_data_node(tree)] = tree.key_domain_max_
    BY <1>1, <1>5, OutermostLeaves
  <2>2. \A c \in Nodes(tree) :
            /\ from[c] \in Int /\ to[c] \in Int
            /\ tree.key_domain_min_ <= from[c] /\ from[c] < to[c]
            /\ to[c] <= tree.key_domain_max_
            /\ parent[c] # Superroot =>
                  /\ from[c] = Edge(tree.nodes[parent[c]], first[c])
                  /\ to[c] = Edge(tree.nodes[parent[c]], first[c] + Repeats(tree.nodes[c]))
    BY <1>1, <1>5, RegionFacts
  <2>3. Leaves(tree) \subseteq Nodes(tree)
    BY <1>2, RunFacts
  <2>4. tree.key_domain_min_ \in Int /\ tree.key_domain_max_ \in Int
    BY <1>1, <1>5, RegionFacts
  <2>5. \A i \in Leaves(tree) :
            /\ \/ tree.nodes[i].next_leaf_ = NoNode /\ to[i] = tree.key_domain_max_
               \/ /\ tree.nodes[i].next_leaf_ \in Leaves(tree) \ {i}
                  /\ from[tree.nodes[i].next_leaf_] = to[i]
            /\ \/ tree.nodes[i].prev_leaf_ = NoNode /\ from[i] = tree.key_domain_min_
               \/ /\ tree.nodes[i].prev_leaf_ \in Leaves(tree) \ {i}
                  /\ to[tree.nodes[i].prev_leaf_] = from[i]
    BY <1>1 DEF WellFormed, IsChained
  <2>6. tree.nodes[first_data_node(tree)].prev_leaf_ = NoNode
    <3> DEFINE i == first_data_node(tree)
               q == tree.nodes[i].prev_leaf_
    <3>1. i \in Leaves(tree) /\ from[i] = tree.key_domain_min_
      BY <2>1
    <3> HIDE DEF i
    <3>2. q \in Leaves(tree) => from[q] < to[q] /\ tree.key_domain_min_ <= from[q]
                                /\ from[q] \in Int /\ to[q] \in Int
      BY <2>2, <2>3
    <3>3. q = NoNode \/ (q \in Leaves(tree) /\ to[q] = from[i])
      BY <2>5, <3>1
    <3>4. q = NoNode
      BY <2>4, <3>1, <3>2, <3>3
    <3> QED
      BY <3>4 DEF i
  <2>7. tree.nodes[last_data_node(tree)].next_leaf_ = NoNode
    <3> DEFINE i == last_data_node(tree)
               q == tree.nodes[i].next_leaf_
    <3>1. i \in Leaves(tree) /\ to[i] = tree.key_domain_max_
      BY <2>1
    <3> HIDE DEF i
    <3>2. q \in Leaves(tree) => from[q] < to[q] /\ to[q] <= tree.key_domain_max_
                                /\ from[q] \in Int /\ to[q] \in Int
      BY <2>2, <2>3
    <3>3. q = NoNode \/ (q \in Leaves(tree) /\ from[q] = to[i])
      BY <2>5, <3>1
    <3>4. q = NoNode
      BY <2>4, <3>1, <3>2, <3>3
    <3> QED
      BY <3>4 DEF i
  <2>8. ASSUME NEW i \in Models(tree), NEW b \in DOMAIN tree.nodes[i].children_ \ {0},
               tree.nodes[i].children_[b - 1] # tree.nodes[i].children_[b],
               NEW last, last = LeafBelow(tree.nodes[i].children_[b - 1], RightMost(tree)),
               NEW leaf, leaf = LeafBelow(tree.nodes[i].children_[b], LeftMost(tree))
        PROVE  /\ tree.nodes[last].next_leaf_ = leaf
               /\ tree.nodes[leaf].prev_leaf_ = last
    <3> DEFINE c == tree.nodes[i].children_[b - 1]
               d == tree.nodes[i].children_[b]
    <3>1. /\ b \in 0 .. tree.nodes[i].num_children_ - 1 /\ b \in Nat
          /\ b - 1 \in 0 .. tree.nodes[i].num_children_ - 1
      <4>1. /\ tree.nodes[i].children_ \in [0 .. tree.nodes[i].num_children_ - 1 -> Int]
            /\ tree.nodes[i].num_children_ \in Nat
        BY <1>2, NodeFacts
      <4>2. DOMAIN tree.nodes[i].children_ = 0 .. tree.nodes[i].num_children_ - 1
        BY <4>1
      <4>3. b \in 0 .. tree.nodes[i].num_children_ - 1 /\ b # 0
        BY <4>2
      <4> QED
        BY <4>1, <4>3
    <3> DEFINE a == b - 1
    <3>2. \A e \in 0 .. tree.nodes[i].num_children_ - 1 :
              /\ tree.nodes[i].children_[e] \in Nodes(tree)
              /\ parent[tree.nodes[i].children_[e]] = i
              /\ first[tree.nodes[i].children_[e]] <= e
              /\ e < first[tree.nodes[i].children_[e]]
                         + Repeats(tree.nodes[tree.nodes[i].children_[e]])
      BY <1>2, RunFacts
    <3>3. a \in 0 .. tree.nodes[i].num_children_ - 1 /\ c = tree.nodes[i].children_[a]
          /\ a = b - 1
      BY <3>1
    <3> HIDE DEF a
    <3>4. /\ c \in Nodes(tree) /\ parent[c] = i
          /\ first[c] <= a /\ a < first[c] + Repeats(tree.nodes[c])
      BY <3>2, <3>3
    <3>5. /\ d \in Nodes(tree) /\ parent[d] = i
          /\ first[d] <= b /\ b < first[d] + Repeats(tree.nodes[d])
      BY <3>1, <3>2
    <3>6. c # d
      BY <2>8
    <3>7. /\ last = LeafBelow(c, RightMost(tree)) /\ leaf = LeafBelow(d, LeftMost(tree))
          /\ tree.nodes[i].children_[b] = d /\ tree.nodes[i].children_[a] = c
      BY <2>8, <3>3
    <3> HIDE DEF c, d
    <3>8. \A x \in Nodes(tree) : parent[x] = i =>
              /\ first[x] \in Nat /\ Repeats(tree.nodes[x]) \in Nat
              /\ \A e \in 0 .. tree.nodes[i].num_children_ - 1 :
                     tree.nodes[i].children_[e] = x
                         <=> first[x] <= e /\ e < first[x] + Repeats(tree.nodes[x])
      BY <1>2, RunFacts
    <3>9. ~(first[c] <= b /\ b < first[c] + Repeats(tree.nodes[c]))
      BY <3>1, <3>4, <3>6, <3>7, <3>8
    <3>10. ~(first[d] <= a /\ a < first[d] + Repeats(tree.nodes[d]))
      BY <3>3, <3>5, <3>6, <3>7, <3>8
    <3>11. /\ first[c] \in Nat /\ Repeats(tree.nodes[c]) \in Nat
           /\ first[d] \in Nat /\ Repeats(tree.nodes[d]) \in Nat
      BY <3>4, <3>5, <3>8
    <3>12. first[c] + Repeats(tree.nodes[c]) = b /\ first[d] = b
      BY <3>1, <3>3, <3>4, <3>5, <3>9, <3>10, <3>11
    <3>13. i # Superroot
      <4>1. tree.nodes[Superroot].num_children_ = 1
        BY <1>2, RootFacts
      <4> QED
        BY <3>1, <4>1
    <3>14. to[c] = from[d]
      BY <2>2, <3>4, <3>5, <3>12, <3>13
    <3> DEFINE x == to[c]
               A == StartingAt(tree, from, x)
               Z == EndingAt(tree, to, x)
    <3>15. /\ ArePicks(tree, LeftMost(tree)) /\ ArePicks(tree, RightMost(tree))
           /\ IsClosed(tree, LeftMost(tree), A) /\ IsClosed(tree, RightMost(tree), Z)
      <4> HIDE DEF x
      <4> QED
        BY <1>1, <1>5, EndsAreClosed
    <3>16. c \in Z /\ d \in A
      BY <3>4, <3>5, <3>14 DEF StartingAt, EndingAt
    <3>17. \A e \in A : from[e] = x
      BY DEF StartingAt
    <3>18. \A e \in Z : to[e] = x
      BY DEF EndingAt
    <3> HIDE DEF x, A, Z
    <3>19. last \in Z /\ last \in Leaves(tree)
      <4>1. last = (IF tree.nodes[c].is_leaf_ THEN c
                    ELSE LeafOf(tree, Descent(tree, c, RightMost(tree))))
        BY <3>7 DEF LeafBelow
      <4> QED
        BY <1>1, <1>5, <3>4, <3>15, <3>16, <4>1, OutermostBelow
    <3>20. leaf \in A /\ leaf \in Leaves(tree)
      <4>1. leaf = (IF tree.nodes[d].is_leaf_ THEN d
                    ELSE LeafOf(tree, Descent(tree, d, LeftMost(tree))))
        BY <3>7 DEF LeafBelow
      <4> QED
        BY <1>1, <1>5, <3>5, <3>15, <3>16, <4>1, OutermostBelow
    <3>21. to[last] = x /\ from[leaf] = x
      BY <3>17, <3>18, <3>19, <3>20
    <3>22. /\ tree.key_domain_min_ <= from[last] /\ from[last] < x /\ from[last] \in Int
           /\ to[leaf] <= tree.key_domain_max_ /\ x < to[leaf] /\ to[leaf] \in Int
           /\ x \in Int
      BY <2>2, <2>3, <3>19, <3>20, <3>21
    <3>23. /\ tree.nodes[last].next_leaf_ \in Leaves(tree)
           /\ from[tree.nodes[last].next_leaf_] = x
      BY <2>4, <2>5, <3>19, <3>21, <3>22
    <3>24. /\ tree.nodes[leaf].prev_leaf_ \in Leaves(tree)
           /\ to[tree.nodes[leaf].prev_leaf_] = x
      BY <2>4, <2>5, <3>20, <3>21, <3>22
    <3>25. \A u, v \in Leaves(tree) : from[u] = from[v] \/ to[u] = to[v] => u = v
      BY <1>1, <1>5, LeavesWithSameEnd
    <3> QED
      BY <3>19, <3>20, <3>21, <3>23, <3>24, <3>25
  <2> QED
    BY <1>3, <2>6, <2>7, <2>8 DEF ChainFollowsTree
<1> QED
  BY <1>4, <1>5

-----------------------------------------------------------------------------
\* Lookups end where keys are.
LEMMA SoundRoutes ==
    ASSUME IInv PROVE KeysAreRouted
<1>1. IsSound(tree)
  BY DEF IInv
<1>2. ASSUME NEW leaf \in Leaves(tree), NEW key \in tree.nodes[leaf].keys
      PROVE  get_leaf(tree, key).leaf = leaf
  <2>1. PICK p : Belongs(tree, leaf, p, key)
    BY <1>1, KeyBelongs
  <2>2. key \in Key
    <3>1. PICK parent, first, from, to : WellFormed(tree, parent, first, from, to)
      BY <1>1 DEF IsSound
    <3>2. IsTree(tree)
      BY <3>1, WellFormedParts
    <3> QED
      BY <3>2, NodeFacts
  <2> DEFINE found == get_leaf(tree, key)
             l == found.leaf
             q == Last(found.path).node
  <2>3. Belongs(tree, l, q, key)
    BY <1>1, <2>2, LookupLeads
  <2> HIDE DEF l, q
  <2>4. leaf = l
    BY <2>1, <2>2, <2>3, OnePlaceForKey
  <2> QED
    BY <2>4 DEF l
<1> QED
  BY <1>2 DEF KeysAreRouted

\* The models divide what the pointers to them divide.
LEMMA SoundModelsCover ==
    ASSUME IInv PROVE ModelsCoverTheirBuckets
<1>1. PICK parent, first, from, to : WellFormed(tree, parent, first, from, to)
  BY DEF IInv, IsSound
<1>2. /\ IsTree(tree) /\ HasRuns(tree, parent, first)
      /\ parent \in [Nodes(tree) -> Models(tree)] /\ first \in [Nodes(tree) -> Nat]
  BY <1>1, WellFormedParts
<1>3. CASE tree.nodes[Root(tree)].is_leaf_
  <2>1. Models(tree) = {Superroot}
    BY <1>2, <1>3, RootLeafIsAlone
  <2>2. DOMAIN tree.nodes \ (Leaves(tree) \cup {Superroot}) = {}
    BY <2>1 DEF Models
  <2> QED
    BY <1>3, <2>2 DEF ModelsCoverTheirBuckets
<1>4. CASE ~tree.nodes[Root(tree)].is_leaf_
  <2>1. /\ \A c \in Nodes(tree) : parent[c] # Superroot =>
               /\ from[c] = Edge(tree.nodes[parent[c]], first[c])
               /\ to[c] = Edge(tree.nodes[parent[c]], first[c] + Repeats(tree.nodes[c]))
        /\ \A i \in Models(tree) : i # Superroot =>
               /\ from[i] = Edge(tree.nodes[i], 0)
               /\ to[i] = Edge(tree.nodes[i], tree.nodes[i].num_children_)
        /\ Root(tree) \in Models(tree) /\ Root(tree) # Superroot
        /\ from[Root(tree)] = tree.key_domain_min_
        /\ to[Root(tree)] = tree.key_domain_max_
    BY <1>1, <1>4, RegionFacts
  <2>2. \A i \in Models(tree) : i # Superroot =>
            /\ from[i] = tree.nodes[i].start
            /\ to[i] = tree.nodes[i].start + tree.nodes[i].num_children_ * tree.nodes[i].width
            /\ tree.nodes[i].start \in Int /\ tree.nodes[i].width \in Nat
            /\ tree.nodes[i].num_children_ \in Nat
    <3>1. ASSUME NEW i \in Models(tree), i # Superroot
          PROVE  /\ from[i] = tree.nodes[i].start
                 /\ to[i] = tree.nodes[i].start
                                + tree.nodes[i].num_children_ * tree.nodes[i].width
                 /\ tree.nodes[i].start \in Int /\ tree.nodes[i].width \in Nat
                 /\ tree.nodes[i].num_children_ \in Nat
      <4>1. /\ tree.nodes[i].start \in Int /\ tree.nodes[i].width \in Nat
            /\ tree.nodes[i].num_children_ \in Nat
        BY <1>2, NodeFacts
      <4>2. Edge(tree.nodes[i], 0) = tree.nodes[i].start
        BY <4>1 DEF Edge
      <4> QED
        BY <2>1, <3>1, <4>1, <4>2 DEF Edge
    <3> QED
      BY <3>1
  <2>3. ASSUME NEW i \in Models(tree), i # Superroot,
               NEW b \in DOMAIN tree.nodes[i].children_,
               NEW c, c = tree.nodes[i].children_[b], ~tree.nodes[c].is_leaf_
        PROVE  LET n == tree.nodes[i]
                   child == tree.nodes[c]
               IN  /\ child.start = n.start + RunStart(b, Repeats(child)) * n.width
                   /\ child.num_children_ * child.width = Repeats(child) * n.width
    <3> DEFINE r == Repeats(tree.nodes[c])
    <3>1. /\ tree.nodes[i].children_ \in [0 .. tree.nodes[i].num_children_ - 1 -> Int]
          /\ tree.nodes[i].num_children_ \in Nat
      BY <1>2, NodeFacts
    <3>2. b \in 0 .. tree.nodes[i].num_children_ - 1
      BY <3>1
    <3>3. c \in Nodes(tree) /\ parent[c] = i /\ RunStart(b, r) = first[c]
      BY <1>2, <2>3, <3>2, RunOfLeaf
    <3>4. c \in Models(tree) /\ c # Superroot
      BY <2>3, <3>3 DEF Models, Leaves, Nodes
    <3>5. first[c] \in Nat /\ r \in Nat
      BY <1>2, <3>3, RunFacts
    <3> DEFINE s == tree.nodes[i].start
               w == tree.nodes[i].width
               f == first[c]
               cs == tree.nodes[c].start
               cw == tree.nodes[c].width
               cn == tree.nodes[c].num_children_
    <3>6. from[c] = s + f * w /\ to[c] = s + (f + r) * w
      BY <2>1, <2>3, <3>3 DEF Edge
    <3>7. from[c] = cs /\ to[c] = cs + cn * cw
      BY <2>2, <3>4
    <3>8. s \in Int /\ w \in Int /\ f \in Int /\ r \in Int /\ cs \in Int /\ cw \in Int /\ cn \in Int
      BY <1>2, <2>2, <2>3, <3>4, <3>5
    <3>9. RunStart(b, r) = f
      BY <3>3
    <3> HIDE DEF s, w, f, cs, cw, cn, r
    <3>10. (f + r) * w = f * w + r * w /\ f * w \in Int /\ r * w \in Int /\ cn * cw \in Int
      BY <3>8
    <3>11. cs = s + f * w /\ cn * cw = r * w
      BY <3>6, <3>7, <3>8, <3>10
    <3> QED
      BY <3>9, <3>11 DEF s, w, cs, cw, cn, r
  <2>4. DOMAIN tree.nodes \ (Leaves(tree) \cup {Superroot}) = {i \in Models(tree) : i # Superroot}
    BY DEF Models
  <2> QED
    BY <2>1, <2>2, <2>3, <2>4 DEF ModelsCoverTheirBuckets
<1> QED
  BY <1>3, <1>4

\* An insert goes on where a lookup goes.
LEMMA SoundTries ==
    ASSUME IInv PROVE InsertIsTriedWhereLookupsGo
<1>1. CASE op = Idle
  BY <1>1 DEF InsertIsTriedWhereLookupsGo
<1>2. CASE op # Idle
  <2> DEFINE t == tree
             key == op.key
             i == op.leaf
             p == op.parent
             j == get_leaf(tree, op.key).leaf
             q == Last(get_leaf(tree, op.key).path).node
  <2>1. IsSound(t) /\ key \in Key /\ Belongs(t, i, p, key)
    BY <1>2 DEF IInv, IsTried
  <2>2. Belongs(t, j, q, key)
    BY <2>1, LookupLeads
  <2> HIDE DEF t, key, i, p, j, q
  <2>3. i = j /\ p = q
    BY <2>1, <2>2, OnePlaceForKey
  <2> QED
    BY <2>3 DEF i, p, j, q, InsertIsTriedWhereLookupsGo
<1> QED
  BY <1>1, <1>2

-----------------------------------------------------------------------------
\* An index begins with a sound tree.
LEMMA InitIsSound ==
    ASSUME Misrounded = {}, Init
    PROVE  IInv /\ KS!Init
<1>1. op = Idle /\ ret = Answer("bulk_load", 0, 0)
  BY DEF Init
<1>2. IsSound(tree) /\ Keys(tree) \subseteq Key
  <2>1. CASE tree = Empty
    <3>1. kMax \in Int /\ kLowest \in Int
      BY KeysAreWithinTheType
    <3> DEFINE none == {}
    <3>2. none \in SUBSET Key /\ tree = RootLeaf(none, kMax, kLowest)
      BY <2>1 DEF Empty
    <3> HIDE DEF none
    <3> QED
      BY <3>1, <3>2, RootLeafIsSound
  <2>2. CASE \E keys \in Load : tree = Loaded(keys)
    BY <2>2, LoadedIsSound
  <2>3. CASE \E keys \in Load, f \in FanoutTrees, rounding \in Roundings :
                 tree = split_downwards(Loaded(keys), Superroot, 0, f.factors, rounding)
    <3>1. PICK keys \in Load, f \in FanoutTrees, rounding \in Roundings :
              tree = split_downwards(Loaded(keys), Superroot, 0, f.factors, rounding)
      BY <2>3
    <3>2. rounding = Exact
      BY DEF Roundings, Exact
    <3>3. keys \subseteq Key
      BY LoadsAreSetsOfKeys
    <3> QED
      BY <3>1, <3>2, <3>3, SplitLoadIsSound
  <2> QED
    BY <2>1, <2>2, <2>3 DEF Init
<1>3. ret \in Answers
  BY <1>1 DEF Answer, Answers
<1> QED
  BY <1>1, <1>2, <1>3 DEF IInv, KS!Init, KS!Answer, Answer

\* Every step keeps it sound, and is a call that a set of keys allows.
LEMMA NextIsSound ==
    ASSUME Misrounded = {}, NoneUpwards, IInv, [Next]_vars
    PROVE  IInv' /\ [KS!Next]_<<Keys(tree), ret>>
<1>1. op # Idle => op.key \in Key /\ ~op.policy.upwards
  BY DEF IInv, IsTried, NoneUpwards
<1>2. CASE Retrain
  <2>1. IInv' /\ (KS!Begin \/ KS!Insert(op.key)) /\ op # Idle
    BY <1>2, RetrainIsCall DEF Retrain
  <2> QED
    BY <1>1, <2>1 DEF KS!Next
<1>3. CASE SplitDownwards
  <2>1. IInv' /\ (KS!Begin \/ KS!Insert(op.key)) /\ op # Idle
    BY <1>3, SplitDownwardsIsCall DEF SplitDownwards
  <2> QED
    BY <1>1, <2>1 DEF KS!Next
<1>4. CASE SplitSideways
  <2>1. IInv' /\ (KS!Begin \/ KS!Insert(op.key)) /\ op # Idle
    BY <1>4, SplitSidewaysIsCall DEF SplitSideways
  <2> QED
    BY <1>1, <2>1 DEF KS!Next
<1>5. CASE SplitUpwards
  BY <1>1, <1>5 DEF SplitUpwards
<1>6. ASSUME NEW key \in Key, Insert(key)
      PROVE  IInv' /\ [KS!Next]_<<Keys(tree), ret>>
  BY <1>6, InsertIsCall DEF KS!Next
<1>7. ASSUME NEW key \in Key, DeclinedInsert(key)
      PROVE  IInv' /\ [KS!Next]_<<Keys(tree), ret>>
  BY <1>7, DeclinedInsertIsCall DEF KS!Next
<1>8. ASSUME NEW key \in Key, Erase(key)
      PROVE  IInv' /\ [KS!Next]_<<Keys(tree), ret>>
  BY <1>8, EraseIsCall DEF KS!Next
<1>9. CASE UNCHANGED vars
  <2>1. tree' = tree /\ op' = op /\ ret' = ret
    BY <1>9 DEF vars
  <2>2. IInv'
    BY <2>1 DEF IInv, IsSound
  <2>3. Keys(tree)' = Keys(tree)
    BY <2>1
  <2> QED
    BY <2>1, <2>2, <2>3
<1> QED
  BY <1>2, <1>3, <1>4, <1>5, <1>6, <1>7, <1>8, <1>9 DEF Next

-----------------------------------------------------------------------------
\* The tree stays sound, and inserts go on where they should.
THEOREM TreeStaysSound ==
    ASSUME Misrounded = {}, NoneUpwards PROVE Spec => []IInv
<1>1. Init => IInv
  BY InitIsSound
<1>2. IInv /\ [Next]_vars => IInv'
  BY NextIsSound
<1> QED
  BY <1>1, <1>2, PTL DEF Spec

\* No pointer dangles.
THEOREM TreeIsTyped ==
    ASSUME Misrounded = {}, NoneUpwards PROVE Spec => []TypeOK
<1>1. IInv => TypeOK
  BY SoundIsTyped
<1> QED
  BY <1>1, TreeStaysSound, PTL

\* A node below a model is at as many adjacent pointers as its duplication
\* factor says, which splits and expansions rely on and change.
THEOREM PointersRepeat ==
    ASSUME Misrounded = {}, NoneUpwards PROVE Spec => []PointersRepeatByDuplicationFactor
<1>1. IInv => PointersRepeatByDuplicationFactor
  BY SoundPointersRepeat
<1> QED
  BY <1>1, TreeStaysSound, PTL

\* The chain of leaves visits the leaves of the tree in the order of their
\* keys, after any splits, merges and retrainings.
THEOREM ChainIsOfTheTree ==
    ASSUME Misrounded = {}, NoneUpwards PROVE Spec => []ChainFollowsTree
<1>1. IInv => ChainFollowsTree
  BY SoundChainFollows
<1> QED
  BY <1>1, TreeStaysSound, PTL

\* A lookup of a key of the index ends at the leaf that holds it.
THEOREM LookupsReachTheirKeys ==
    ASSUME Misrounded = {}, NoneUpwards PROVE Spec => []KeysAreRouted
<1>1. IInv => KeysAreRouted
  BY SoundRoutes
<1> QED
  BY <1>1, TreeStaysSound, PTL

\* A model's buckets are as wide as the nodes below them expect.
THEOREM ModelsCover ==
    ASSUME Misrounded = {}, NoneUpwards PROVE Spec => []ModelsCoverTheirBuckets
<1>1. IInv => ModelsCoverTheirBuckets
  BY SoundModelsCover
<1> QED
  BY <1>1, TreeStaysSound, PTL

\* An insert that splits leaves as it goes tries the leaf that a lookup of
\* its key ends at.
THEOREM InsertsFollowLookups ==
    ASSUME Misrounded = {}, NoneUpwards PROVE Spec => []InsertIsTriedWhereLookupsGo
<1>1. IInv => InsertIsTriedWhereLookupsGo
  BY SoundTries
<1> QED
  BY <1>1, TreeStaysSound, PTL

\* The index is a set of keys.
THEOREM IndexIsKeySet ==
    ASSUME Misrounded = {}, NoneUpwards PROVE Spec => IsKeySet
<1>1. Init => KS!Init
  BY InitIsSound
<1>2. IInv /\ [Next]_vars => [KS!Next]_<<Keys(tree), ret>>
  BY NextIsSound
<1> QED
  BY <1>1, <1>2, TreeStaysSound, PTL DEF Spec, IsKeySet, KS!Spec
=============================================================================
