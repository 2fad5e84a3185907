------------------------------ MODULE RmiProofs ------------------------------
(***************************************************************************)
(* Theorems about trees whose models predict exactly, for all keys and     *)
(* fanouts.  A tree is well-formed (WellFormed) if there are a parent, a   *)
(* first pointer and an interval of keys for each node such that pointers, *)
(* models and the chain of leaves agree with them and all keys are in      *)
(* their leaf's interval.  In such a tree a lookup ends at the leaf that   *)
(* the key belongs to (LookupFinds).  It stays well-formed when new leaves *)
(* take the place of one, and when a model node comes between a node and   *)
(* its parent: splits are made of these.                                   *)
(***************************************************************************)
EXTENDS RmiUpdates, FiniteSetTheorems, WellFoundedInduction, TLAPS

-----------------------------------------------------------------------------
(* Powers of two.                                                          *)

\* A set of natural numbers that is not empty has a least element.
LEMMA LeastElement ==
    ASSUME NEW S \in SUBSET Nat, S # {}
    PROVE  \E i \in S : \A j \in S : i <= j
<1>1. PICK i \in S : \A j \in S : ~(<<j, i>> \in OpToRel(<, Nat))
  BY NatLessThanWellFounded, WFMin
<1> SUFFICES ASSUME NEW j \in S, j < i PROVE FALSE
  OBVIOUS
<1>2. <<j, i>> \in OpToRel(<, Nat)
  BY DEF OpToRel
<1> QED
  BY <1>1, <1>2

\* The next power is twice the last one: the sets that hold a new element are as
\* many as those that do not.
LEMMA PowerDoubles == ASSUME NEW n \in Nat PROVE 2^(n + 1) = 2^n + 2^n
<1> DEFINE old == SUBSET (1 .. n)
           new == {s \cup {n + 1} : s \in old}
           f == [s \in old |-> s \cup {n + 1}]
<1>1. /\ IsFiniteSet(1 .. n) /\ Cardinality(1 .. n) = n
      /\ IsFiniteSet(1 .. (n + 1)) /\ Cardinality(1 .. (n + 1)) = n + 1
  BY FS_Interval
<1>2. IsFiniteSet(old) /\ Cardinality(old) = 2^n
  BY <1>1, FS_SUBSET
<1>3. Cardinality(SUBSET (1 .. (n + 1))) = 2^(n + 1)
  BY <1>1, FS_SUBSET
<1>4. f \in Bijection(old, new)
  <2>1. f \in [old -> new]
    OBVIOUS
  <2>2. ASSUME NEW s \in old, NEW t \in old, f[s] = f[t] PROVE s = t
    <3>1. s \cup {n + 1} = t \cup {n + 1} /\ n + 1 \notin s /\ n + 1 \notin t
      BY <2>2
    <3> QED
      BY <3>1
  <2>3. \A u \in new : \E s \in old : f[s] = u
    OBVIOUS
  <2> QED
    BY <2>1, <2>2, <2>3 DEF Bijection, Injection, Surjection, IsInjective
<1>5. IsFiniteSet(new) /\ Cardinality(new) = Cardinality(old)
  BY <1>2, <1>4, FS_Bijection DEF ExistsBijection
<1>6. old \cap new = {}
  <2> SUFFICES ASSUME NEW s \in old, NEW t \in old, s = t \cup {n + 1} PROVE FALSE
    OBVIOUS
  <2> QED
    OBVIOUS
<1>7. old \cup new = SUBSET (1 .. (n + 1))
  <2>1. ASSUME NEW s \in SUBSET (1 .. (n + 1)) PROVE s \in old \cup new
    <3>1. CASE n + 1 \notin s
      <4>1. \A i \in s : i \in 1 .. n
        BY <3>1
      <4> QED
        BY <4>1
    <3>2. CASE n + 1 \in s
      <4>1. s \ {n + 1} \in old
        OBVIOUS
      <4>2. s = (s \ {n + 1}) \cup {n + 1}
        BY <3>2
      <4> QED
        BY <4>1, <4>2
    <3> QED
      BY <3>1, <3>2
  <2>2. ASSUME NEW s \in old \cup new PROVE s \in SUBSET (1 .. (n + 1))
    OBVIOUS
  <2> QED
    BY <2>1, <2>2
<1>8. Cardinality(old \cap new) = 0
  BY <1>6, FS_EmptySet
<1>9. Cardinality(old) \in Nat
  BY <1>2, FS_CardinalityType
<1> HIDE DEF old, new, f
<1>10. Cardinality(old \cup new) = Cardinality(old) + Cardinality(new) - 0
  BY <1>2, <1>5, <1>8, FS_Union
<1> QED
  BY <1>2, <1>3, <1>5, <1>7, <1>9, <1>10

\* Powers of two are positive, and the first is one.
LEMMA PowerFacts ==
    /\ 2^0 = 1
    /\ \A n \in Nat : 2^n \in Nat /\ 2^n > 0 /\ 2^(n + 1) = 2 * 2^n
<1>1. ASSUME NEW n \in Nat PROVE 2^n \in Nat /\ 2^n > 0 /\ 2^(n + 1) = 2 * 2^n
  <2>1. /\ IsFiniteSet(1 .. n) /\ Cardinality(1 .. n) = n
    BY FS_Interval
  <2>2. IsFiniteSet(SUBSET (1 .. n)) /\ Cardinality(SUBSET (1 .. n)) = 2^n
    BY <2>1, FS_SUBSET
  <2>3. 2^n \in Nat /\ 2^n # 0
    BY <2>2, FS_CardinalityType, FS_EmptySet
  <2>4. 2^(n + 1) = 2^n + 2^n
    BY PowerDoubles
  <2> QED
    BY <2>3, <2>4
<1>2. 2^0 = 1
  <2>1. IsFiniteSet({}) /\ Cardinality({}) = 0
    BY FS_EmptySet
  <2>2. Cardinality(SUBSET {}) = 2^0
    BY <2>1, FS_SUBSET
  <2>3. SUBSET {} = {{}}
    OBVIOUS
  <2> QED
    BY <2>2, <2>3, FS_Singleton
<1> QED
  BY <1>1, <1>2

\* Powers multiply as their exponents add.
LEMMA PowerOfSum ==
    ASSUME NEW a \in Nat, NEW b \in Nat
    PROVE  2^(a + b) = 2^a * 2^b
<1> DEFINE wrong == {j \in Nat : 2^(a + j) # 2^a * 2^j}
<1> SUFFICES ASSUME wrong # {} PROVE FALSE
  OBVIOUS
<1>1. PICK i \in wrong : \A j \in wrong : i <= j
  BY LeastElement
<1>2. i # 0
  <2>1. a + 0 = a /\ 2^a * 1 = 2^a
    BY PowerFacts
  <2> QED
    BY <2>1, PowerFacts
<1>3. i - 1 \in Nat /\ i - 1 \notin wrong
  BY <1>1, <1>2
<1>4. 2^(a + (i - 1)) = 2^a * 2^(i - 1)
  BY <1>3
<1>5. (a + (i - 1)) + 1 = a + i /\ (i - 1) + 1 = i /\ a + (i - 1) \in Nat
  BY <1>3
<1>6. 2^(a + i) = 2 * 2^(a + (i - 1)) /\ 2^i = 2 * 2^(i - 1)
  BY <1>3, <1>5, PowerFacts
<1>7. \A x, y \in Nat : 2 * (x * y) = x * (2 * y)
  OBVIOUS
<1>8. 2^a * 2^i = 2 * (2^a * 2^(i - 1))
  BY <1>3, <1>6, <1>7, PowerFacts
<1> QED
  BY <1>1, <1>4, <1>6, <1>8

\* A power exceeds its exponent.
LEMMA PowerExceeds == ASSUME NEW n \in Nat PROVE n < 2^n
<1> DEFINE wrong == {j \in Nat : ~(j < 2^j)}
<1> SUFFICES ASSUME wrong # {} PROVE FALSE
  OBVIOUS
<1>1. PICK i \in wrong : \A j \in wrong : i <= j
  BY LeastElement
<1>2. i # 0
  BY PowerFacts
<1>3. i - 1 \in Nat /\ i - 1 \notin wrong
  BY <1>1, <1>2
<1>4. i - 1 < 2^(i - 1) /\ (i - 1) + 1 = i
  BY <1>3
<1>5. 2^i = 2 * 2^(i - 1) /\ 2^(i - 1) \in Nat
  BY <1>3, <1>4, PowerFacts
<1>6. i \in Nat /\ ~(i < 2^i)
  BY <1>1
<1>7. \A x, y, z \in Nat : x # 0 /\ x - 1 < y /\ z = 2 * y => x < z
  OBVIOUS
<1>8. 2^i \in Nat
  BY <1>6, PowerFacts
<1> QED
  BY <1>2, <1>4, <1>5, <1>6, <1>7, <1>8

\* A greater exponent gives a multiple, greater by a factor of two at least.
LEMMA PowerGrows ==
    ASSUME NEW a \in Nat, NEW b \in Nat, a < b
    PROVE  2^b = 2^a * 2^(b - a) /\ 2^(b - a) >= 2 /\ 2^a < 2^b
<1>1. b - a \in Nat /\ a + (b - a) = b /\ b - a >= 1
  OBVIOUS
<1>2. 2^b = 2^a * 2^(b - a)
  BY <1>1, PowerOfSum
<1>3. b - a < 2^(b - a) /\ 2^(b - a) \in Nat /\ 2^a \in Nat /\ 2^a > 0
  BY <1>1, PowerExceeds, PowerFacts
<1>4. \A x, y \in Nat : x > 0 /\ y >= 2 => x < x * y
  OBVIOUS
<1> QED
  BY <1>1, <1>2, <1>3, <1>4

\* Dividing a multiple.
LEMMA DivisionIsExact ==
    ASSUME NEW a \in Nat, NEW b \in Nat, b > 0
    PROVE  (a * b) \div b = a /\ (a * b) % b = 0
<1>1. a * b \in Nat
  OBVIOUS
<1>2. \A x \in Nat : x \div b \in Nat /\ x % b \in 0 .. (b - 1) /\ x = b * (x \div b) + (x % b)
  OBVIOUS
<1>3. \A q \in Nat, r \in 0 .. (b - 1) : a * b = b * q + r => q = a /\ r = 0
  <2> SUFFICES ASSUME NEW q \in Nat, NEW r \in 0 .. (b - 1), a * b = b * q + r
               PROVE  q = a /\ r = 0
    OBVIOUS
  <2>1. ~(q < a)
    <3> SUFFICES ASSUME q < a PROVE FALSE
      OBVIOUS
    <3>1. PICK c \in Nat : a = q + 1 + c
      <4>1. a - q - 1 \in Nat /\ a = q + 1 + (a - q - 1)
        OBVIOUS
      <4> QED
        BY <4>1
    <3>2. a * b = q * b + b + c * b /\ c * b >= 0
      BY <3>1
    <3> QED
      BY <3>2
  <2>2. ~(q > a)
    <3> SUFFICES ASSUME q > a PROVE FALSE
      OBVIOUS
    <3>1. PICK c \in Nat : q = a + 1 + c
      <4>1. q - a - 1 \in Nat /\ q = a + 1 + (q - a - 1)
        OBVIOUS
      <4> QED
        BY <4>1
    <3>2. b * q = a * b + b + c * b /\ c * b >= 0
      BY <3>1
    <3> QED
      BY <3>2
  <2> QED
    BY <2>1, <2>2
<1> QED
  BY <1>1, <1>2, <1>3

-----------------------------------------------------------------------------
\* A tree whose models predict exactly.
Exact == [below |-> {}, above |-> {}, late |-> {}]

LeafNodes ==
    [is_leaf_ : {TRUE}, level_ : Int, duplication_factor_ : Nat,
     keys : SUBSET Key, prev_leaf_ : Int, next_leaf_ : Int]

IsModel(n) ==
    n \in [is_leaf_ : {FALSE}, level_ : Int, duplication_factor_ : Nat,
           start : Int, width : Nat \ {0}, rounding : {Exact},
           num_children_ : Nat \ {0}, children_ : [0 .. n.num_children_ - 1 -> Int]]

IsTree(t) ==
    /\ t = [nodes |-> t.nodes, fresh |-> t.fresh,
            key_domain_min_ |-> t.key_domain_min_,
            key_domain_max_ |-> t.key_domain_max_]
    /\ t.nodes = [i \in DOMAIN t.nodes |-> t.nodes[i]]
    /\ t.fresh \in Nat /\ t.key_domain_min_ \in Int /\ t.key_domain_max_ \in Int
    /\ DOMAIN t.nodes \subseteq 0 .. t.fresh - 1
    /\ Superroot \in DOMAIN t.nodes
    /\ IsModel(t.nodes[Superroot]) /\ t.nodes[Superroot].num_children_ = 1
    /\ \A i \in DOMAIN t.nodes : IsModel(t.nodes[i]) \/ t.nodes[i] \in LeafNodes

\* What the nodes do not say: parent has the parent of a node, first the first
\* of its pointers there, and from and to the ends of the keys it is for.
Nodes(t) == DOMAIN t.nodes \ {Superroot}

AreGhosts(t, parent, first, from, to) ==
    /\ parent \in [Nodes(t) -> Models(t)] /\ first \in [Nodes(t) -> Nat]
    /\ from \in [Nodes(t) -> Int] /\ to \in [Nodes(t) -> Int]

HasRun(p, c, child, start) ==
    /\ child.level_ > p.level_
    /\ start % Repeats(child) = 0
    /\ start + Repeats(child) <= p.num_children_
    /\ \A b \in 0 .. p.num_children_ - 1 :
           p.children_[b] = c <=> start <= b /\ b < start + Repeats(child)

HasRuns(t, parent, first) ==
    /\ \A i \in Models(t) : \E x \in Nat : t.nodes[i].num_children_ = 2^x
    /\ \A c \in Nodes(t) : HasRun(t.nodes[parent[c]], c, t.nodes[c], first[c])
    /\ \A i \in Models(t) : \A b \in 0 .. t.nodes[i].num_children_ - 1 :
           /\ t.nodes[i].children_[b] \in Nodes(t)
           /\ parent[t.nodes[i].children_[b]] = i

Edge(n, b) == n.start + b * n.width

HasRegions(t, parent, first, from, to) ==
    /\ \A c \in Nodes(t) :
           IF parent[c] = Superroot
           THEN from[c] = t.key_domain_min_ /\ to[c] = t.key_domain_max_
           ELSE /\ from[c] = Edge(t.nodes[parent[c]], first[c])
                /\ to[c] = Edge(t.nodes[parent[c]], first[c] + Repeats(t.nodes[c]))
    /\ \A i \in Models(t) \ {Superroot} :
           /\ from[i] = Edge(t.nodes[i], 0)
           /\ to[i] = Edge(t.nodes[i], t.nodes[i].num_children_)

HasDomain(t, from, to) ==
    ~t.nodes[Root(t)].is_leaf_ =>
        \A c \in Nodes(t) : /\ t.key_domain_min_ <= from[c] /\ from[c] < to[c]
                            /\ to[c] <= t.key_domain_max_

AreApart(t, from, to) ==
    \A i, j \in Leaves(t) : i # j => to[i] <= from[j] \/ to[j] <= from[i]

IsChained(t, from, to) ==
    \A i \in Leaves(t) :
        LET n == t.nodes[i]
        IN  /\ \/ n.next_leaf_ = NoNode /\ to[i] = t.key_domain_max_
               \/ n.next_leaf_ \in Leaves(t) \ {i} /\ from[n.next_leaf_] = to[i]
            /\ \/ n.prev_leaf_ = NoNode /\ from[i] = t.key_domain_min_
               \/ n.prev_leaf_ \in Leaves(t) \ {i} /\ to[n.prev_leaf_] = from[i]

\* A key outside the domain belongs where the nearest key in it does.
Clamped(t, key) ==
    IF key < t.key_domain_min_ THEN t.key_domain_min_
    ELSE IF key >= t.key_domain_max_ THEN t.key_domain_max_ - 1 ELSE key

IsIn(t, from, to, i, key) == from[i] <= Clamped(t, key) /\ Clamped(t, key) < to[i]

IsRouted(t, from, to) ==
    ~t.nodes[Root(t)].is_leaf_ =>
        \A i \in Leaves(t) : \A key \in t.nodes[i].keys : IsIn(t, from, to, i, key)

WellFormed(t, parent, first, from, to) ==
    /\ IsTree(t)
    /\ AreGhosts(t, parent, first, from, to)
    /\ HasRuns(t, parent, first)
    /\ HasRegions(t, parent, first, from, to)
    /\ HasDomain(t, from, to)
    /\ AreApart(t, from, to)
    /\ IsChained(t, from, to)
    /\ IsRouted(t, from, to)

-----------------------------------------------------------------------------
\* The facts about nodes that proofs use, without the records.
LEMMA NodeFacts ==
    ASSUME NEW t, IsTree(t)
    PROVE  /\ \A i \in DOMAIN t.nodes :
                  /\ i \in Nat /\ i < t.fresh
                  /\ t.nodes[i].level_ \in Int
                  /\ t.nodes[i].duplication_factor_ \in Nat
                  /\ i \in Leaves(t) <=> t.nodes[i].is_leaf_
                  /\ i \in Models(t) <=> ~t.nodes[i].is_leaf_
           /\ \A i \in Leaves(t) :
                  /\ i \in Nodes(t)
                  /\ t.nodes[i] \in LeafNodes
                  /\ t.nodes[i].keys \subseteq Key
                  /\ t.nodes[i].prev_leaf_ \in Int /\ t.nodes[i].next_leaf_ \in Int
           /\ \A i \in Models(t) :
                  /\ i \in DOMAIN t.nodes
                  /\ IsModel(t.nodes[i])
                  /\ t.nodes[i].start \in Int
                  /\ t.nodes[i].width \in Nat /\ t.nodes[i].width > 0
                  /\ t.nodes[i].rounding = Exact
                  /\ t.nodes[i].num_children_ \in Nat /\ t.nodes[i].num_children_ > 0
                  /\ t.nodes[i].children_ \in [0 .. t.nodes[i].num_children_ - 1 -> Int]
           /\ Superroot \in Models(t)
           /\ t.fresh \in Nat /\ t.key_domain_min_ \in Int /\ t.key_domain_max_ \in Int
<1>1. ASSUME NEW i \in DOMAIN t.nodes
      PROVE  \/ IsModel(t.nodes[i])
             \/ t.nodes[i] \in LeafNodes
  BY DEF IsTree
<1>2. ASSUME NEW n, IsModel(n)
      PROVE  /\ n.level_ \in Int /\ n.duplication_factor_ \in Nat /\ ~n.is_leaf_
             /\ n.start \in Int /\ n.width \in Nat /\ n.width > 0 /\ n.rounding = Exact
             /\ n.num_children_ \in Nat /\ n.num_children_ > 0
             /\ n.children_ \in [0 .. n.num_children_ - 1 -> Int]
  <2>1. /\ n.level_ \in Int /\ n.duplication_factor_ \in Nat /\ n.is_leaf_ \in {FALSE}
        /\ n.start \in Int /\ n.width \in Nat \ {0} /\ n.rounding \in {Exact}
        /\ n.num_children_ \in Nat \ {0}
        /\ n.children_ \in [0 .. n.num_children_ - 1 -> Int]
    BY <1>2 DEF IsModel
  <2>2. n.is_leaf_ = FALSE /\ n.rounding = Exact
    BY <2>1
  <2>3. n.width \in Nat /\ n.width > 0 /\ n.num_children_ \in Nat /\ n.num_children_ > 0
    BY <2>1
  <2> QED
    BY <2>1, <2>2, <2>3
<1>3. ASSUME NEW n \in LeafNodes
      PROVE  /\ n.level_ \in Int /\ n.duplication_factor_ \in Nat /\ n.is_leaf_
             /\ n.keys \subseteq Key
             /\ n.prev_leaf_ \in Int /\ n.next_leaf_ \in Int
  BY DEF LeafNodes
<1>4. Superroot \in DOMAIN t.nodes /\ IsModel(t.nodes[Superroot])
  BY DEF IsTree
<1>5. /\ t.fresh \in Nat /\ t.key_domain_min_ \in Int /\ t.key_domain_max_ \in Int
      /\ \A i \in DOMAIN t.nodes : i \in Nat /\ i < t.fresh
  BY DEF IsTree
<1>6. \A i : /\ i \in Leaves(t) <=> i \in DOMAIN t.nodes /\ t.nodes[i].is_leaf_
             /\ i \in Models(t) <=> i \in DOMAIN t.nodes /\ ~t.nodes[i].is_leaf_
  BY DEF Leaves, Models
<1>7. \A i \in Leaves(t) : i \in DOMAIN t.nodes /\ i # Superroot
  BY <1>2, <1>4, <1>6
<1>8. \A i \in Leaves(t) : i \in Nodes(t)
  BY <1>7 DEF Nodes
<1>9. ASSUME NEW i \in Leaves(t)
      PROVE  t.nodes[i] \in LeafNodes
  BY <1>1, <1>2, <1>6
<1>10. ASSUME NEW i \in Models(t)
       PROVE  IsModel(t.nodes[i])
  BY <1>1, <1>3, <1>6
<1>11. Superroot \in Models(t)
  BY <1>2, <1>4, <1>6
<1> HIDE DEF Superroot
<1>12. \A i \in DOMAIN t.nodes :
           t.nodes[i].level_ \in Int /\ t.nodes[i].duplication_factor_ \in Nat
  BY <1>1, <1>2, <1>3
<1> QED
  BY <1>2, <1>3, <1>5, <1>6, <1>8, <1>9, <1>10, <1>11, <1>12

\* Levels of a tree's nodes have bounds.
LEMMA LevelsAreBounded ==
    ASSUME NEW t, IsTree(t)
    PROVE  \E most \in Nat :
               \A i \in DOMAIN t.nodes : -most <= t.nodes[i].level_ /\ t.nodes[i].level_ <= most
<1> DEFINE Bounded(n) == \E most \in Nat : \A i \in DOMAIN t.nodes :
                             i < n => -most <= t.nodes[i].level_ /\ t.nodes[i].level_ <= most
           open == {n \in Nat : ~Bounded(n)}
<1>1. t.fresh \in Nat /\ \A i \in DOMAIN t.nodes :
           i \in Nat /\ i < t.fresh /\ t.nodes[i].level_ \in Int
  BY NodeFacts
<1>2. SUFFICES ASSUME open # {} PROVE FALSE
  BY <1>1
<1>3. PICK n \in open : \A m \in open : n <= m
  BY <1>2, LeastElement
<1>4. n # 0
  BY <1>1, <1>3
<1>5. n - 1 \in Nat /\ n - 1 \notin open
  BY <1>3, <1>4
<1>6. n \in Nat
  OBVIOUS
<1>7. PICK most \in Nat : \A i \in DOMAIN t.nodes :
          i < n - 1 => -most <= t.nodes[i].level_ /\ t.nodes[i].level_ <= most
  BY <1>5
<1>8. \E more \in Nat : /\ more >= most
                        /\ n - 1 \in DOMAIN t.nodes =>
                               -more <= t.nodes[n - 1].level_ /\ t.nodes[n - 1].level_ <= more
  <2>1. CASE n - 1 \in DOMAIN t.nodes
    <3> DEFINE l == t.nodes[n - 1].level_
               more == most + (IF l < 0 THEN -l ELSE l)
    <3>1. l \in Int
      BY <1>1, <2>1
    <3> HIDE DEF l
    <3>2. more \in Nat /\ more >= most /\ -more <= l /\ l <= more
      BY <3>1
    <3> QED
      BY <3>2 DEF l
  <2>2. CASE n - 1 \notin DOMAIN t.nodes
    BY <2>2
  <2> QED
    BY <2>1, <2>2
<1>9. PICK more \in Nat :
          /\ more >= most
          /\ n - 1 \in DOMAIN t.nodes =>
                 -more <= t.nodes[n - 1].level_ /\ t.nodes[n - 1].level_ <= more
  BY <1>8
<1>10. ASSUME NEW i \in DOMAIN t.nodes, i < n
       PROVE  -more <= t.nodes[i].level_ /\ t.nodes[i].level_ <= more
  <2>1. CASE i = n - 1
    BY <2>1, <1>9
  <2>2. CASE i # n - 1
    <3>1. i < n - 1
      BY <1>1, <1>6, <1>10, <2>2
    <3>2. -most <= t.nodes[i].level_ /\ t.nodes[i].level_ <= most
      BY <1>7, <3>1
    <3> QED
      BY <1>1, <1>9, <3>2
  <2> QED
    BY <2>1, <2>2
<1> QED
  BY <1>3, <1>9, <1>10

-----------------------------------------------------------------------------
\* Picks of a child pointer in each model node.
ArePicks(t, picks) ==
    \A i \in Models(t) : picks[i] \in 0 .. t.nodes[i].num_children_ - 1

\* The child that is picked is a node on a greater level.
LEMMA PickedChild ==
    ASSUME NEW t, NEW parent, NEW first, IsTree(t), HasRuns(t, parent, first),
           parent \in [Nodes(t) -> Models(t)],
           NEW i \in Models(t), NEW b \in 0 .. t.nodes[i].num_children_ - 1
    PROVE  /\ t.nodes[i].children_[b] \in Nodes(t)
           /\ t.nodes[i].children_[b] \in DOMAIN t.nodes
           /\ parent[t.nodes[i].children_[b]] = i
           /\ t.nodes[t.nodes[i].children_[b]].level_ > t.nodes[i].level_
<1> DEFINE c == t.nodes[i].children_[b]
<1>1. c \in Nodes(t) /\ parent[c] = i
  BY DEF HasRuns
<1>2. HasRun(t.nodes[parent[c]], c, t.nodes[c], first[c])
  BY <1>1 DEF HasRuns
<1>3. t.nodes[c].level_ > t.nodes[i].level_
  BY <1>1, <1>2 DEF HasRun
<1> QED
  BY <1>1, <1>3 DEF Nodes

\* Descent, which is defined for all nodes at once, is what its equation says.
LEMMA DescentUnfolds ==
    ASSUME NEW t, NEW parent, NEW first, IsTree(t), HasRuns(t, parent, first),
           parent \in [Nodes(t) -> Models(t)],
           NEW picks, ArePicks(t, picks),
           NEW i \in DOMAIN t.nodes
    PROVE  Descent(t, i, picks) =
               IF t.nodes[i].is_leaf_ THEN << >>
               ELSE <<Step(i, picks[i])>> \o Descent(t, t.nodes[i].children_[picks[i]], picks)
<1> DEFINE Below(m, n) == {j \in DOMAIN t.nodes : m - t.nodes[j].level_ < n}
           Body(f, j) == IF t.nodes[j].is_leaf_ THEN << >>
                         ELSE <<Step(j, picks[j])>> \o f[t.nodes[j].children_[picks[j]]]
<1>1. PICK most \in Nat : \A j \in DOMAIN t.nodes :
          -most <= t.nodes[j].level_ /\ t.nodes[j].level_ <= most
  BY LevelsAreBounded
<1>2. \A j \in DOMAIN t.nodes : t.nodes[j].level_ \in Int
  BY NodeFacts
<1>3. ASSUME NEW j \in DOMAIN t.nodes, ~t.nodes[j].is_leaf_
      PROVE  /\ t.nodes[j].children_[picks[j]] \in DOMAIN t.nodes
             /\ t.nodes[t.nodes[j].children_[picks[j]]].level_ > t.nodes[j].level_
  <2>1. j \in Models(t)
    BY <1>3, NodeFacts
  <2>2. picks[j] \in 0 .. t.nodes[j].num_children_ - 1
    BY <2>1 DEF ArePicks
  <2> QED
    BY <2>1, <2>2, PickedChild
<1> DEFINE Solved(n) == \E f : f = [j \in Below(most, n) |-> Body(f, j)]
           open == {n \in Nat : ~Solved(n)}
<1>4. Solved(0)
  <2>1. Below(most, 0) = {}
    BY <1>1, <1>2
  <2> DEFINE f == [j \in {} |-> << >>]
  <2>2. f = [j \in {} |-> Body(f, j)]
    OBVIOUS
  <2> QED
    BY <2>1, <2>2
<1>5. ASSUME NEW n \in Nat, Solved(n)
      PROVE  Solved(n + 1)
  <2>1. PICK f : f = [j \in Below(most, n) |-> Body(f, j)]
    BY <1>5
  <2> DEFINE g == [j \in Below(most, n + 1) |-> Body(f, j)]
  <2>2. ASSUME NEW j \in Below(most, n + 1)
        PROVE  Body(f, j) = Body(g, j)
    <3>1. CASE t.nodes[j].is_leaf_
      BY <3>1
    <3>2. CASE ~t.nodes[j].is_leaf_
      <4> DEFINE c == t.nodes[j].children_[picks[j]]
      <4>1. c \in Below(most, n) /\ c \in Below(most, n + 1)
        BY <1>2, <1>3, <3>2
      <4> HIDE DEF c, Below
      <4>2. f[c] = Body(f, c)
        BY <2>1, <4>1
      <4>3. g[c] = Body(f, c)
        BY <4>1
      <4>4. f[c] = g[c]
        BY <4>2, <4>3
      <4> QED
        BY <3>2, <4>4 DEF c
    <3> QED
      BY <3>1, <3>2
  <2> HIDE DEF Body
  <2>3. g = [j \in Below(most, n + 1) |-> Body(g, j)]
    BY <2>2
  <2> HIDE DEF g
  <2> QED
    BY <2>3
<1>6. \A n \in Nat : Solved(n)
  <2> HIDE DEF Solved
  <2>1. SUFFICES ASSUME open # {} PROVE FALSE
    OBVIOUS
  <2>2. PICK n \in open : \A m \in open : n <= m
    BY <2>1, LeastElement
  <2>3. n \in Nat /\ n # 0
    BY <1>4, <2>2
  <2>4. n - 1 \in Nat /\ Solved(n - 1)
    BY <2>2, <2>3
  <2>5. Solved(n)
    BY <2>3, <2>4, <1>5
  <2> QED
    BY <2>2, <2>5
<1>7. \E f : f = [j \in DOMAIN t.nodes |-> Body(f, j)]
  <2> DEFINE n == 2 * most + 1
  <2>1. n \in Nat
    OBVIOUS
  <2>2. Below(most, n) = DOMAIN t.nodes
    BY <1>1, <1>2
  <2> HIDE DEF Body, Below
  <2> QED
    BY <1>6, <2>1, <2>2
<1> DEFINE d == CHOOSE f : f = [j \in DOMAIN t.nodes |-> Body(f, j)]
<1>8. d = [j \in DOMAIN t.nodes |-> Body(d, j)]
  <2> HIDE DEF Body
  <2> QED
    BY <1>7
<1>9. \A j : Descent(t, j, picks) = d[j]
  BY DEF Descent
<1> HIDE DEF d
<1>10. d[i] = Body(d, i)
  BY <1>8
<1> QED
  BY <1>9, <1>10

-----------------------------------------------------------------------------
\* A path leads from each of its model nodes to the next.
IsPath(t, path) ==
    /\ path \in Seq([node : Nat, bucketID : Nat]) /\ Len(path) > 0
    /\ \A j \in 1 .. Len(path) :
           /\ path[j].node \in Models(t)
           /\ path[j].bucketID \in 0 .. t.nodes[path[j].node].num_children_ - 1
    /\ \A j \in 1 .. Len(path) - 1 : path[j + 1].node = ChildOf(t, path[j])

\* The facts about the steps of a path that proofs use.
LEMMA PathFacts ==
    ASSUME NEW t, IsTree(t), NEW path, IsPath(t, path)
    PROVE  /\ path \in Seq([node : Nat, bucketID : Nat])
           /\ Len(path) \in Nat /\ Len(path) > 0
           /\ \A j \in 1 .. Len(path) :
                  /\ path[j].node \in Models(t)
                  /\ path[j].node \in Nat /\ path[j].bucketID \in Nat
                  /\ path[j].bucketID < t.nodes[path[j].node].num_children_
                  /\ path[j] = Step(path[j].node, path[j].bucketID)
           /\ \A j \in 1 .. Len(path) : j > 1 => path[j].node = ChildOf(t, path[j - 1])
           /\ LeafOf(t, path) = ChildOf(t, path[Len(path)])
<1> DEFINE Steps == [node : Nat, bucketID : Nat]
<1>1. path \in Seq(Steps) /\ Len(path) > 0 /\ Len(path) \in Nat
  BY DEF IsPath
<1>2. ASSUME NEW s \in Steps
      PROVE  s = Step(s.node, s.bucketID) /\ s.node \in Nat /\ s.bucketID \in Nat
  BY DEF Step
<1> HIDE DEF Steps
<1>3. \A j \in 1 .. Len(path) : path[j] \in Steps
  BY <1>1
<1>4. \A j \in 1 .. Len(path) :
          /\ path[j].node \in Models(t)
          /\ path[j].bucketID \in 0 .. t.nodes[path[j].node].num_children_ - 1
  BY DEF IsPath
<1>5. ASSUME NEW j \in 1 .. Len(path), j > 1
      PROVE  path[j].node = ChildOf(t, path[j - 1])
  <2>1. j - 1 \in 1 .. Len(path) - 1 /\ (j - 1) + 1 = j
    BY <1>1, <1>5
  <2> QED
    BY <2>1 DEF IsPath
<1>6. LeafOf(t, path) = ChildOf(t, path[Len(path)])
  BY DEF LeafOf, Last
<1>7. ASSUME NEW j \in 1 .. Len(path)
      PROVE  path[j].bucketID < t.nodes[path[j].node].num_children_
  BY <1>4, NodeFacts
<1> QED
  BY <1>1, <1>2, <1>3, <1>4, <1>5, <1>6, <1>7 DEF Steps

\* A path of one step.
LEMMA PathBegins ==
    ASSUME NEW t, IsTree(t),
           NEW i \in Models(t), NEW b \in 0 .. t.nodes[i].num_children_ - 1
    PROVE  /\ IsPath(t, <<Step(i, b)>>)
           /\ Len(<<Step(i, b)>>) = 1 /\ <<Step(i, b)>>[1] = Step(i, b)
           /\ LeafOf(t, <<Step(i, b)>>) = t.nodes[i].children_[b]
<1> DEFINE s == Step(i, b)
<1>1. i \in Nat /\ b \in Nat
  BY NodeFacts
<1>2. s \in [node : Nat, bucketID : Nat] /\ s.node = i /\ s.bucketID = b
  BY <1>1 DEF Step
<1> HIDE DEF s
<1>3. <<s>> \in Seq([node : Nat, bucketID : Nat]) /\ Len(<<s>>) = 1 /\ <<s>>[1] = s
  BY <1>2
<1>4. IsPath(t, <<s>>)
  BY <1>2, <1>3 DEF IsPath
<1>5. LeafOf(t, <<s>>) = t.nodes[i].children_[b]
  BY <1>2, <1>3 DEF LeafOf, Last, ChildOf
<1> QED
  BY <1>3, <1>4, <1>5 DEF s

\* A path is extended upwards.
LEMMA PathGrows ==
    ASSUME NEW t, IsTree(t), NEW e, IsPath(t, e),
           NEW i \in Models(t), NEW b \in 0 .. t.nodes[i].num_children_ - 1,
           t.nodes[i].children_[b] = e[1].node
    PROVE  LET d == <<Step(i, b)>> \o e
           IN  /\ IsPath(t, d)
               /\ Len(d) = Len(e) + 1 /\ d[1] = Step(i, b)
               /\ \A j \in 1 .. Len(e) : d[j + 1] = e[j]
               /\ LeafOf(t, d) = LeafOf(t, e)
<1> DEFINE s == Step(i, b)
           Steps == [node : Nat, bucketID : Nat]
           d == <<s>> \o e
<1>1. i \in Nat /\ b \in Nat
  BY NodeFacts
<1>2. s \in Steps /\ s.node = i /\ s.bucketID = b
  BY <1>1 DEF Step
<1>3. e \in Seq(Steps) /\ Len(e) \in Nat /\ Len(e) > 0
  BY DEF IsPath
<1> HIDE DEF s, Steps
<1>4. /\ d \in Seq(Steps) /\ Len(d) = Len(e) + 1 /\ d[1] = s
      /\ \A j \in 1 .. Len(e) : d[j + 1] = e[j]
  BY <1>2, <1>3
<1> HIDE DEF d
<1>5. ASSUME NEW j \in 1 .. Len(d)
      PROVE  /\ d[j].node \in Models(t)
             /\ d[j].bucketID \in 0 .. t.nodes[d[j].node].num_children_ - 1
  <2>1. CASE j = 1
    BY <2>1, <1>2, <1>4
  <2>2. CASE j # 1
    <3>1. j - 1 \in 1 .. Len(e) /\ d[j] = e[j - 1]
      <4>1. j - 1 \in 1 .. Len(e) /\ (j - 1) + 1 = j
        BY <1>3, <1>4, <2>2
      <4> QED
        BY <1>4, <4>1
    <3> QED
      BY <3>1 DEF IsPath
  <2> QED
    BY <2>1, <2>2
<1>6. ASSUME NEW j \in 1 .. Len(d) - 1
      PROVE  d[j + 1].node = ChildOf(t, d[j])
  <2>1. j \in 1 .. Len(e) /\ d[j + 1] = e[j]
    BY <1>3, <1>4
  <2>2. CASE j = 1
    BY <2>1, <2>2, <1>2, <1>4 DEF ChildOf
  <2>3. CASE j # 1
    <3>1. j - 1 \in 1 .. Len(e) - 1 /\ (j - 1) + 1 = j
      BY <1>3, <1>4, <2>1, <2>3
    <3>2. d[j] = e[j - 1]
      BY <1>3, <1>4, <3>1
    <3>3. e[j].node = ChildOf(t, e[j - 1])
      BY <3>1 DEF IsPath
    <3> QED
      BY <2>1, <3>2, <3>3
  <2> QED
    BY <2>2, <2>3
<1>7. Last(d) = Last(e)
  BY <1>3, <1>4 DEF Last
<1>8. LeafOf(t, d) = LeafOf(t, e)
  BY <1>7 DEF LeafOf
<1>9. IsPath(t, d)
  BY <1>3, <1>4, <1>5, <1>6 DEF IsPath, Steps
<1> QED
  BY <1>4, <1>8, <1>9 DEF d, s

IsClosed(t, picks, A) ==
    \A i \in Models(t) : i \in A => t.nodes[i].children_[picks[i]] \in A

\* A descent that picks children in a set of nodes stays in the set, and ends
\* at a leaf.
LEMMA DescendsWithin ==
    ASSUME NEW t, NEW parent, NEW first, IsTree(t), HasRuns(t, parent, first),
           parent \in [Nodes(t) -> Models(t)],
           NEW picks, ArePicks(t, picks),
           NEW A, IsClosed(t, picks, A),
           NEW top \in Models(t), top \in A
    PROVE  LET d == Descent(t, top, picks)
           IN  /\ IsPath(t, d) /\ d[1].node = top
               /\ LeafOf(t, d) \in A /\ LeafOf(t, d) \in Leaves(t)
               /\ \A j \in 1 .. Len(d) : d[j].node \in A /\ d[j].bucketID = picks[d[j].node]
<1> DEFINE Good(d, i) ==
               /\ IsPath(t, d) /\ d[1].node = i
               /\ LeafOf(t, d) \in A \cap Leaves(t)
               /\ \A j \in 1 .. Len(d) : d[j].node \in A /\ d[j].bucketID = picks[d[j].node]
           D(i) == Descent(t, i, picks)
           GoodWithin(n, m) == \A i \in A \cap Models(t) : m - t.nodes[i].level_ < n => Good(D(i), i)
<1>1. PICK most \in Nat : \A j \in DOMAIN t.nodes :
          -most <= t.nodes[j].level_ /\ t.nodes[j].level_ <= most
  BY LevelsAreBounded
<1>2. /\ \A j \in DOMAIN t.nodes : t.nodes[j].level_ \in Int
      /\ \A j : j \in Models(t) <=> j \in DOMAIN t.nodes /\ ~t.nodes[j].is_leaf_
      /\ \A j : j \in Leaves(t) <=> j \in DOMAIN t.nodes /\ t.nodes[j].is_leaf_
  BY NodeFacts DEF Models, Leaves
<1>3. ASSUME NEW n \in Nat, GoodWithin(n, most), NEW i \in A \cap Models(t),
             most - t.nodes[i].level_ < n + 1
      PROVE  Good(D(i), i)
  <2> DEFINE b == picks[i]
             c == t.nodes[i].children_[b]
  <2>1. b \in 0 .. t.nodes[i].num_children_ - 1
    BY DEF ArePicks
  <2>2. c \in DOMAIN t.nodes /\ t.nodes[c].level_ > t.nodes[i].level_ /\ c \in A
    BY <2>1, PickedChild DEF IsClosed
  <2>3. D(i) = <<Step(i, b)>> \o D(c)
    BY <1>2, DescentUnfolds
  <2>4. Step(i, b).node = i /\ Step(i, b).bucketID = picks[i]
    BY DEF Step
  <2>5. CASE t.nodes[c].is_leaf_
    <3>1. D(c) = << >>
      BY <2>2, <2>5, DescentUnfolds
    <3>2. D(i) = <<Step(i, b)>>
      BY <2>3, <3>1
    <3>3. /\ IsPath(t, D(i)) /\ Len(D(i)) = 1 /\ D(i)[1] = Step(i, b)
          /\ LeafOf(t, D(i)) = c
      BY <2>1, <3>2, PathBegins
    <3>4. c \in A \cap Leaves(t)
      BY <2>2, <2>5, <1>2
    <3> QED
      BY <2>4, <3>3, <3>4
  <2>6. CASE ~t.nodes[c].is_leaf_
    <3>1. c \in A \cap Models(t) /\ most - t.nodes[c].level_ < n
      BY <1>1, <1>2, <1>3, <2>2, <2>6
    <3>2. Good(D(c), c)
      BY <1>3, <3>1
    <3>5. IsPath(t, D(c)) /\ D(c)[1].node = c /\ Len(D(c)) \in Nat
      <4>1. IsPath(t, D(c)) /\ D(c)[1].node = c
        BY <3>2
      <4> HIDE DEF D
      <4> QED
        BY <4>1, PathFacts
    <3> HIDE DEF D, b
    <3>3. /\ IsPath(t, D(i))
          /\ Len(D(i)) = Len(D(c)) + 1 /\ D(i)[1] = Step(i, b)
          /\ \A j \in 1 .. Len(D(c)) : D(i)[j + 1] = D(c)[j]
          /\ LeafOf(t, D(i)) = LeafOf(t, D(c))
      <4>1. i \in Models(t)
        OBVIOUS
      <4>2. t.nodes[i].children_[b] = D(c)[1].node
        BY <3>5
      <4>3. b \in 0 .. t.nodes[i].num_children_ - 1
        BY <2>1
      <4>4. IsPath(t, D(c)) /\ D(i) = <<Step(i, b)>> \o D(c)
        BY <2>3, <3>5
      <4> HIDE DEF c
      <4> QED
        BY <4>1, <4>2, <4>3, <4>4, PathGrows
    <3>4. ASSUME NEW j \in 1 .. Len(D(i))
          PROVE  D(i)[j].node \in A /\ D(i)[j].bucketID = picks[D(i)[j].node]
      <4>1. CASE j = 1
        BY <4>1, <2>4, <3>3
      <4>2. CASE j # 1
        <5>1. Len(D(c)) \in Nat
          BY <3>5
        <5>2. j - 1 \in 1 .. Len(D(c)) /\ (j - 1) + 1 = j
          BY <3>3, <4>2, <5>1
        <5>3. D(i)[j] = D(c)[j - 1]
          BY <3>3, <5>2
        <5> QED
          BY <3>2, <5>2, <5>3
      <4> QED
        BY <4>1, <4>2
    <3> QED
      BY <2>4, <3>2, <3>3, <3>4
  <2> QED
    BY <2>5, <2>6
<1> HIDE DEF Good, D
<1>4. \A n \in Nat : GoodWithin(n, most)
  <2> DEFINE open == {n \in Nat : ~GoodWithin(n, most)}
  <2> HIDE DEF GoodWithin
  <2>1. SUFFICES ASSUME open # {} PROVE FALSE
    OBVIOUS
  <2>2. PICK n \in open : \A m \in open : n <= m
    BY <2>1, LeastElement
  <2>3. GoodWithin(0, most)
    BY <1>1, <1>2 DEF GoodWithin
  <2>4. n \in Nat /\ n # 0
    BY <2>2, <2>3
  <2>5. n - 1 \in Nat /\ n - 1 \notin open
    BY <2>2, <2>4
  <2>6. n - 1 \in Nat /\ GoodWithin(n - 1, most) /\ (n - 1) + 1 = n
    BY <2>4, <2>5
  <2>7. GoodWithin(n, most)
    BY <2>6, <1>3 DEF GoodWithin
  <2> QED
    BY <2>2, <2>7
<1>5. GoodWithin(2 * most + 1, most)
  BY <1>4
<1>6. Good(D(top), top)
  BY <1>1, <1>2, <1>5
<1> QED
  BY <1>6 DEF Good, D

-----------------------------------------------------------------------------
\* Products with a width keep the order of the factors.
LEMMA Products ==
    ASSUME NEW a \in Int, NEW b \in Int, NEW w \in Nat, w > 0
    PROVE  /\ a * w \in Int /\ b * w \in Int
           /\ a < b <=> a * w < b * w
           /\ a < b => a * w + w <= b * w
           /\ (a + b) * w = a * w + b * w
<1>1. ASSUME NEW c \in Int, NEW d \in Int, c < d
      PROVE  c * w + w <= d * w
  <2>1. (d - c - 1) * w >= 0
    BY <1>1
  <2>2. (d - c - 1) * w = d * w - c * w - w
    OBVIOUS
  <2> QED
    BY <2>1, <2>2
<1>2. a < b => a * w + w <= b * w
  BY <1>1
<1>3. b < a => b * w + w <= a * w
  BY <1>1
<1>4. a * w \in Int /\ b * w \in Int
  OBVIOUS
<1>5. (a + b) * w = a * w + b * w
  OBVIOUS
<1> QED
  BY <1>2, <1>3, <1>4, <1>5

\* The buckets of a model lie one after the other.
LEMMA EdgesGrow ==
    ASSUME NEW n, n.start \in Int, n.width \in Nat, n.width > 0
    PROVE  \A a, b \in Int : /\ Edge(n, a) \in Int
                             /\ a < b <=> Edge(n, a) < Edge(n, b)
                             /\ a < b => Edge(n, a) + n.width <= Edge(n, b)
                             /\ Edge(n, a + b) = Edge(n, a) + b * n.width
                             /\ a = b <=> Edge(n, a) = Edge(n, b)
<1> SUFFICES ASSUME NEW a \in Int, NEW b \in Int
             PROVE  /\ Edge(n, a) \in Int
                    /\ a < b <=> Edge(n, a) < Edge(n, b)
                    /\ a < b => Edge(n, a) + n.width <= Edge(n, b)
                    /\ Edge(n, a + b) = Edge(n, a) + b * n.width
                    /\ a = b <=> Edge(n, a) = Edge(n, b)
  OBVIOUS
<1>1. /\ a * n.width \in Int /\ b * n.width \in Int
      /\ a < b <=> a * n.width < b * n.width
      /\ a < b => a * n.width + n.width <= b * n.width
      /\ (a + b) * n.width = a * n.width + b * n.width
  BY Products
<1>2. b < a <=> b * n.width < a * n.width
  BY Products
<1>3. a * n.width = b * n.width => a = b
  BY <1>1, <1>2
<1> DEFINE x == a * n.width
           y == b * n.width
           z == (a + b) * n.width
<1>4. Edge(n, a) = n.start + x /\ Edge(n, b) = n.start + y /\ Edge(n, a + b) = n.start + z
  BY DEF Edge
<1>5. /\ x \in Int /\ y \in Int /\ (a < b <=> x < y) /\ (a < b => x + n.width <= y)
      /\ z = x + y /\ (x = y => a = b) /\ (a = b => x = y) /\ y = b * n.width
  BY <1>1, <1>3
<1> HIDE DEF x, y, z
<1> QED
  BY <1>4, <1>5

\* Prediction of a key's bucket, rounding apart, finds the bucket it is in.
LEMMA PredictionIsExact ==
    ASSUME NEW n, n.start \in Int, n.width \in Nat, n.width > 0, n.rounding = Exact,
           NEW key \in Int
    PROVE  /\ Predict(n, key) \in Int
           /\ Edge(n, Predict(n, key)) <= key
           /\ key < Edge(n, Predict(n, key) + 1)
           /\ \A e \in Int : /\ Predict(n, key) < e <=> key < Edge(n, e)
                             /\ BeforeBoundary(n, key, e) <=> key < Edge(n, e)
<1> DEFINE q == (key - n.start) \div n.width
<1>1. q \in Int /\ q * n.width <= key - n.start /\ key - n.start < q * n.width + n.width
  OBVIOUS
<1>2. Predict(n, key) = q
  <2>1. n.rounding.below = {}
    BY DEF Exact
  <2> QED
    BY <1>1, <2>1 DEF Predict
<1>3. Edge(n, q) <= key /\ key < Edge(n, q) + n.width
  BY <1>1 DEF Edge
<1>4. /\ Edge(n, q + 1) \in Int /\ Edge(n, q) \in Int
      /\ Edge(n, q) + n.width <= Edge(n, q + 1)
  <2>1. q \in Int /\ q + 1 \in Int /\ q < q + 1
    BY <1>1
  <2> HIDE DEF q
  <2> QED
    BY <2>1, EdgesGrow
<1>5. key < Edge(n, q + 1)
  BY <1>3, <1>4
<1>6. ASSUME NEW e \in Int
      PROVE  /\ q < e <=> key < Edge(n, e)
             /\ BeforeBoundary(n, key, e) <=> key < Edge(n, e)
  <2>1. /\ Edge(n, q) \in Int /\ Edge(n, e) \in Int
        /\ q < e => q + 1 <= e
        /\ e <= q => Edge(n, e) <= Edge(n, q)
        /\ q + 1 <= e => Edge(n, q + 1) <= Edge(n, e)
    <3>1. q \in Int /\ q + 1 \in Int
      BY <1>1
    <3> HIDE DEF q
    <3>2. \A a, b \in Int : /\ Edge(n, a) \in Int
                            /\ a < b <=> Edge(n, a) < Edge(n, b)
                            /\ a = b <=> Edge(n, a) = Edge(n, b)
      BY EdgesGrow
    <3> QED
      BY <3>1, <3>2
  <2>2. q < e <=> key < Edge(n, e)
    <3> HIDE DEF q
    <3> QED
      BY <1>1, <1>3, <1>4, <1>5, <2>1
  <2>3. n.rounding.late = {}
    BY DEF Exact
  <2>4. BeforeBoundary(n, key, e) <=> key < Edge(n, e)
    BY <2>3 DEF BeforeBoundary, Edge
  <2> QED
    BY <2>2, <2>4
<1> QED
  BY <1>1, <1>2, <1>3, <1>5, <1>6

\* The bucket that a key is taken to.
LEMMA BucketFacts ==
    ASSUME NEW n, n.start \in Int, n.width \in Nat, n.width > 0, n.rounding = Exact,
           n.num_children_ \in Nat, n.num_children_ > 0,
           NEW key \in Int
    PROVE  /\ Bucket(n, key) \in 0 .. n.num_children_ - 1
           /\ Edge(n, 0) <= key /\ key < Edge(n, n.num_children_) =>
                  /\ Edge(n, Bucket(n, key)) <= key
                  /\ key < Edge(n, Bucket(n, key) + 1)
           /\ key < Edge(n, 0) => Bucket(n, key) = 0
           /\ key >= Edge(n, n.num_children_) => Bucket(n, key) = n.num_children_ - 1
<1> DEFINE p == Predict(n, key)
           m == n.num_children_
<1>1. /\ p \in Int /\ Edge(n, p) <= key /\ key < Edge(n, p + 1)
      /\ \A e \in Int : p < e <=> key < Edge(n, e)
  BY PredictionIsExact
<1>2. Bucket(n, key) = IF p < 0 THEN 0 ELSE IF p >= m THEN m - 1 ELSE p
  BY DEF Bucket
<1>3. /\ \A a \in Int : Edge(n, a) \in Int
      /\ m \in Nat /\ m > 0
  BY EdgesGrow
<1>4. p < 0 <=> key < Edge(n, 0)
  BY <1>1
<1>5. p < m <=> key < Edge(n, m)
  BY <1>1, <1>3
<1> HIDE DEF p, m
<1>6. Bucket(n, key) \in 0 .. m - 1
  BY <1>1, <1>2, <1>3
<1>7. ASSUME Edge(n, 0) <= key, key < Edge(n, m)
      PROVE  Edge(n, Bucket(n, key)) <= key /\ key < Edge(n, Bucket(n, key) + 1)
  <2>1. Bucket(n, key) = p
    BY <1>1, <1>2, <1>3, <1>4, <1>5, <1>7
  <2> QED
    BY <1>1, <2>1
<1>8. key < Edge(n, 0) => Bucket(n, key) = 0
  BY <1>2, <1>4
<1>9. key >= Edge(n, m) => Bucket(n, key) = m - 1
  BY <1>1, <1>2, <1>3, <1>5
<1> QED
  BY <1>6, <1>7, <1>8, <1>9 DEF m

\* A node has at least one pointer in its parent.
LEMMA RepeatsFacts ==
    ASSUME NEW n, n.duplication_factor_ \in Nat
    PROVE  Repeats(n) \in Nat /\ Repeats(n) > 0
BY PowerFacts DEF Repeats

\* Remainders, of which the prover knows little.
LEMMA Remainders ==
    ASSUME NEW a \in Int, NEW r \in Nat, r > 0
    PROVE  /\ a % r \in 0 .. r - 1 /\ a \div r \in Int
           /\ a = (a \div r) * r + (a % r)
           /\ \A q \in Int, d \in 0 .. r - 1 : a = q * r + d => a \div r = q /\ a % r = d
<1>1. a % r \in 0 .. r - 1 /\ a \div r \in Int /\ a = (a \div r) * r + (a % r)
  <2>1. a % r \in Int /\ 0 <= a % r /\ a % r < r /\ a \div r \in Int
    OBVIOUS
  <2>2. a = r * (a \div r) + (a % r)
    OBVIOUS
  <2> QED
    BY <2>1, <2>2
<1>2. ASSUME NEW q \in Int, NEW d \in 0 .. r - 1, a = q * r + d
      PROVE  a \div r = q /\ a % r = d
  <2> DEFINE x == a \div r
  <2>1. x \in Int /\ x * r <= a /\ a < x * r + r
    BY <1>1
  <2>2. q * r <= a /\ a < q * r + r
    BY <1>2
  <2> HIDE DEF x
  <2>3. x < q => x * r + r <= q * r
    BY <2>1, Products
  <2>4. q < x => q * r + r <= x * r
    BY <2>1, Products
  <2>5. x * r \in Int /\ q * r \in Int
    BY <2>1
  <2>6. x = q
    BY <2>1, <2>2, <2>3, <2>4, <2>5
  <2>7. a % r = a - x * r
    BY <1>1 DEF x
  <2> QED
    BY <1>2, <2>5, <2>6, <2>7 DEF x
<1> QED
  BY <1>1, <1>2

\* Any of a run's pointers tells where the run starts.
LEMMA RunStartFacts ==
    ASSUME NEW start \in Nat, NEW r \in Nat, r > 0, start % r = 0,
           NEW b \in Nat, start <= b, b < start + r
    PROVE  RunStart(b, r) = start /\ b % r = b - start
<1> DEFINE q == start \div r
           d == b - start
<1>1. q \in Int /\ start = q * r
  BY Remainders
<1>2. d \in 0 .. r - 1
  OBVIOUS
<1>3. b = q * r + d
  BY <1>1
<1>4. b % r = d
  <2> HIDE DEF q, d
  <2> QED
    BY <1>1, <1>2, <1>3, Remainders
<1> QED
  BY <1>4 DEF RunStart

-----------------------------------------------------------------------------
\* The parts of a well-formed tree.
LEMMA WellFormedParts ==
    ASSUME NEW t, NEW parent, NEW first, NEW from, NEW to,
           WellFormed(t, parent, first, from, to)
    PROVE  /\ IsTree(t) /\ HasRuns(t, parent, first)
           /\ parent \in [Nodes(t) -> Models(t)] /\ first \in [Nodes(t) -> Nat]
           /\ from \in [Nodes(t) -> Int] /\ to \in [Nodes(t) -> Int]
BY DEF WellFormed, AreGhosts

\* What the pointers of a tree say, node by node.
LEMMA RunFacts ==
    ASSUME NEW t, NEW parent, NEW first, IsTree(t), HasRuns(t, parent, first),
           parent \in [Nodes(t) -> Models(t)], first \in [Nodes(t) -> Nat]
    PROVE  /\ \A c \in Nodes(t) :
                  /\ c \in DOMAIN t.nodes /\ c # Superroot
                  /\ parent[c] \in Models(t) /\ first[c] \in Nat
                  /\ Repeats(t.nodes[c]) \in Nat /\ Repeats(t.nodes[c]) > 0
                  /\ t.nodes[parent[c]].level_ < t.nodes[c].level_
                  /\ first[c] % Repeats(t.nodes[c]) = 0
                  /\ first[c] + Repeats(t.nodes[c]) <= t.nodes[parent[c]].num_children_
                  /\ \A b \in 0 .. t.nodes[parent[c]].num_children_ - 1 :
                         t.nodes[parent[c]].children_[b] = c
                             <=> first[c] <= b /\ b < first[c] + Repeats(t.nodes[c])
           /\ \A i \in Models(t) :
                  /\ \A b \in 0 .. t.nodes[i].num_children_ - 1 :
                        /\ t.nodes[i].children_[b] \in Nodes(t)
                        /\ parent[t.nodes[i].children_[b]] = i
                        /\ first[t.nodes[i].children_[b]] <= b
                        /\ b < first[t.nodes[i].children_[b]]
                                 + Repeats(t.nodes[t.nodes[i].children_[b]])
           /\ \A i \in Models(t) : i # Superroot => i \in Nodes(t)
           /\ \A i \in Leaves(t) : i \in Nodes(t)
<1>1. /\ \A c \in Nodes(t) : HasRun(t.nodes[parent[c]], c, t.nodes[c], first[c])
      /\ \A i \in Models(t) : \A b \in 0 .. t.nodes[i].num_children_ - 1 :
             /\ t.nodes[i].children_[b] \in Nodes(t)
             /\ parent[t.nodes[i].children_[b]] = i
  BY DEF HasRuns
<1>2. \A c \in Nodes(t) : c \in DOMAIN t.nodes /\ c # Superroot
  BY DEF Nodes
<1>3. ASSUME NEW c \in Nodes(t)
      PROVE  Repeats(t.nodes[c]) \in Nat /\ Repeats(t.nodes[c]) > 0
  BY <1>2, NodeFacts, RepeatsFacts
<1>4. ASSUME NEW c \in Nodes(t)
      PROVE  /\ parent[c] \in Models(t) /\ first[c] \in Nat
             /\ t.nodes[parent[c]].level_ < t.nodes[c].level_
             /\ first[c] % Repeats(t.nodes[c]) = 0
             /\ first[c] + Repeats(t.nodes[c]) <= t.nodes[parent[c]].num_children_
             /\ \A b \in 0 .. t.nodes[parent[c]].num_children_ - 1 :
                    t.nodes[parent[c]].children_[b] = c
                        <=> first[c] <= b /\ b < first[c] + Repeats(t.nodes[c])
  <2>1. HasRun(t.nodes[parent[c]], c, t.nodes[c], first[c])
    BY <1>1
  <2>2. parent[c] \in Models(t) /\ first[c] \in Nat
    OBVIOUS
  <2>3. t.nodes[parent[c]].level_ \in Int /\ t.nodes[c].level_ \in Int
    BY <1>2, <2>2, NodeFacts
  <2> QED
    BY <2>1, <2>2, <2>3 DEF HasRun
<1>5. ASSUME NEW i \in Models(t), NEW b \in 0 .. t.nodes[i].num_children_ - 1
      PROVE  /\ first[t.nodes[i].children_[b]] <= b
             /\ b < first[t.nodes[i].children_[b]]
                      + Repeats(t.nodes[t.nodes[i].children_[b]])
  <2> DEFINE c == t.nodes[i].children_[b]
  <2>1. c \in Nodes(t) /\ parent[c] = i
    BY <1>1
  <2> HIDE DEF c
  <2>2. t.nodes[i].children_[b] = c
    BY DEF c
  <2>3. first[c] <= b /\ b < first[c] + Repeats(t.nodes[c])
    BY <1>4, <2>1, <2>2
  <2> QED
    BY <2>3 DEF c
<1>6. /\ \A i \in Models(t) : i # Superroot => i \in Nodes(t)
      /\ \A i \in Leaves(t) : i \in Nodes(t)
  BY NodeFacts DEF Nodes
<1> QED
  BY <1>1, <1>2, <1>3, <1>4, <1>5, <1>6

\* The root is the child of the superroot, and its only one.
LEMMA RootFacts ==
    ASSUME NEW t, NEW parent, NEW first, IsTree(t), HasRuns(t, parent, first),
           parent \in [Nodes(t) -> Models(t)], first \in [Nodes(t) -> Nat]
    PROVE  /\ Root(t) \in Nodes(t) /\ Root(t) \in DOMAIN t.nodes
           /\ parent[Root(t)] = Superroot
           /\ first[Root(t)] = 0 /\ Repeats(t.nodes[Root(t)]) = 1
           /\ \A c \in Nodes(t) : parent[c] = Superroot => c = Root(t)
           /\ t.nodes[Superroot].num_children_ = 1
<1> DEFINE s == t.nodes[Superroot]
<1>1. s.num_children_ = 1 /\ Superroot \in Models(t)
  BY NodeFacts DEF IsTree
<1>2. 0 \in 0 .. s.num_children_ - 1
  BY <1>1
<1>3. /\ Root(t) \in Nodes(t) /\ parent[Root(t)] = Superroot
      /\ first[Root(t)] <= 0
  BY <1>1, <1>2, RunFacts DEF Root
<1>4. ASSUME NEW c \in Nodes(t), parent[c] = Superroot
      PROVE  first[c] = 0 /\ Repeats(t.nodes[c]) = 1 /\ c = Root(t)
  <2>1. /\ first[c] \in Nat /\ Repeats(t.nodes[c]) \in Nat /\ Repeats(t.nodes[c]) > 0
        /\ first[c] + Repeats(t.nodes[c]) <= s.num_children_
        /\ \A b \in 0 .. s.num_children_ - 1 :
               s.children_[b] = c <=> first[c] <= b /\ b < first[c] + Repeats(t.nodes[c])
    BY <1>4, RunFacts
  <2>2. first[c] = 0 /\ Repeats(t.nodes[c]) = 1
    BY <1>1, <2>1
  <2>3. s.children_[0] = c
    BY <1>2, <2>1, <2>2
  <2> QED
    BY <2>2, <2>3 DEF Root
<1> QED
  BY <1>1, <1>3, <1>4 DEF Nodes

\* A root leaf is the only node but the superroot.
LEMMA RootLeafIsAlone ==
    ASSUME NEW t, NEW parent, NEW first, IsTree(t), HasRuns(t, parent, first),
           parent \in [Nodes(t) -> Models(t)], first \in [Nodes(t) -> Nat],
           t.nodes[Root(t)].is_leaf_
    PROVE  Nodes(t) = {Root(t)} /\ Leaves(t) = {Root(t)} /\ Models(t) = {Superroot}
<1> DEFINE others == Nodes(t) \ {Root(t)}
           depths(most) == {t.nodes[c].level_ + most : c \in others}
<1>1. PICK most \in Nat : \A i \in DOMAIN t.nodes :
          -most <= t.nodes[i].level_ /\ t.nodes[i].level_ <= most
  BY LevelsAreBounded
<1>2. \A c \in Nodes(t) : /\ c \in DOMAIN t.nodes /\ t.nodes[c].level_ \in Int
                          /\ parent[c] \in Models(t) /\ parent[c] \in DOMAIN t.nodes
                          /\ t.nodes[parent[c]].level_ < t.nodes[c].level_
                          /\ t.nodes[parent[c]].level_ \in Int
  BY RunFacts, NodeFacts
<1>3. ASSUME NEW c \in others
      PROVE  parent[c] \in others
  <2>1. parent[c] # Superroot
    BY RootFacts
  <2>2. parent[c] # Root(t)
    BY <1>2, NodeFacts
  <2> QED
    BY <1>2, <2>1, <2>2, RunFacts
<1>4. others = {}
  <2>1. SUFFICES ASSUME others # {} PROVE FALSE
    OBVIOUS
  <2>2. depths(most) \in SUBSET Nat /\ depths(most) # {}
    <3>1. ASSUME NEW c \in others PROVE t.nodes[c].level_ + most \in Nat
      BY <1>1, <1>2
    <3> QED
      BY <2>1, <3>1
  <2>3. PICK d \in depths(most) : \A e \in depths(most) : d <= e
    BY <2>2, LeastElement
  <2>4. PICK c \in others : d = t.nodes[c].level_ + most
    BY <2>3
  <2>5. t.nodes[parent[c]].level_ + most \in depths(most)
    BY <1>3
  <2>6. d <= t.nodes[parent[c]].level_ + most
    BY <2>3, <2>5
  <2>7. c \in Nodes(t)
    OBVIOUS
  <2> QED
    BY <1>2, <2>4, <2>6, <2>7
<1>5. Nodes(t) = {Root(t)}
  BY <1>4, RootFacts
<1>6. \A i \in DOMAIN t.nodes : i = Superroot \/ i = Root(t)
  BY <1>5 DEF Nodes
<1>7. Root(t) \in Leaves(t) /\ Root(t) \notin Models(t) /\ Superroot \in Models(t)
      /\ Superroot \notin Leaves(t)
  BY RootFacts, NodeFacts DEF Models
<1>8. \A i : /\ i \in Leaves(t) => i \in DOMAIN t.nodes
             /\ i \in Models(t) => i \in DOMAIN t.nodes
  BY DEF Models, Leaves
<1>9. Leaves(t) = {Root(t)}
  BY <1>6, <1>7, <1>8
<1>10. Models(t) = {Superroot}
  BY <1>6, <1>7, <1>8
<1> QED
  BY <1>5, <1>9, <1>10

-----------------------------------------------------------------------------
\* What nodes are for, below a root that is a model node.
LEMMA RegionFacts ==
    ASSUME NEW t, NEW parent, NEW first, NEW from, NEW to,
           WellFormed(t, parent, first, from, to), ~t.nodes[Root(t)].is_leaf_
    PROVE  /\ t.key_domain_min_ \in Int /\ t.key_domain_max_ \in Int
           /\ t.key_domain_min_ < t.key_domain_max_
           /\ \A c \in Nodes(t) :
                  /\ from[c] \in Int /\ to[c] \in Int
                  /\ t.key_domain_min_ <= from[c] /\ from[c] < to[c]
                  /\ to[c] <= t.key_domain_max_
                  /\ parent[c] # Superroot =>
                        /\ from[c] = Edge(t.nodes[parent[c]], first[c])
                        /\ to[c] = Edge(t.nodes[parent[c]], first[c] + Repeats(t.nodes[c]))
           /\ \A i \in Models(t) : i # Superroot =>
                  /\ from[i] = Edge(t.nodes[i], 0)
                  /\ to[i] = Edge(t.nodes[i], t.nodes[i].num_children_)
           /\ Root(t) \in Models(t) /\ Root(t) # Superroot
           /\ from[Root(t)] = t.key_domain_min_ /\ to[Root(t)] = t.key_domain_max_
<1>1. /\ IsTree(t) /\ HasRuns(t, parent, first)
      /\ parent \in [Nodes(t) -> Models(t)] /\ first \in [Nodes(t) -> Nat]
      /\ from \in [Nodes(t) -> Int] /\ to \in [Nodes(t) -> Int]
  BY WellFormedParts
<1>2. HasRegions(t, parent, first, from, to) /\ HasDomain(t, from, to)
  BY DEF WellFormed
<1>3. /\ Root(t) \in Nodes(t) /\ Root(t) # Superroot /\ parent[Root(t)] = Superroot
      /\ Root(t) \in Models(t)
  BY <1>1, RootFacts, NodeFacts DEF Nodes
<1>4. t.key_domain_min_ \in Int /\ t.key_domain_max_ \in Int
  BY <1>1, NodeFacts
<1>5. ASSUME NEW c \in Nodes(t)
      PROVE  /\ from[c] \in Int /\ to[c] \in Int
             /\ t.key_domain_min_ <= from[c] /\ from[c] < to[c]
             /\ to[c] <= t.key_domain_max_
  BY <1>1, <1>2 DEF HasDomain
<1>6. ASSUME NEW c \in Nodes(t), parent[c] # Superroot
      PROVE  /\ from[c] = Edge(t.nodes[parent[c]], first[c])
             /\ to[c] = Edge(t.nodes[parent[c]], first[c] + Repeats(t.nodes[c]))
  BY <1>2, <1>6 DEF HasRegions
<1>7. ASSUME NEW i \in Models(t), i # Superroot
      PROVE  /\ from[i] = Edge(t.nodes[i], 0)
             /\ to[i] = Edge(t.nodes[i], t.nodes[i].num_children_)
  BY <1>2, <1>7 DEF HasRegions
<1>8. from[Root(t)] = t.key_domain_min_ /\ to[Root(t)] = t.key_domain_max_
  BY <1>2, <1>3 DEF HasRegions
<1>9. t.key_domain_min_ < t.key_domain_max_
  BY <1>3, <1>4, <1>5, <1>8
<1> QED
  BY <1>3, <1>4, <1>5, <1>6, <1>7, <1>8, <1>9

\* A clamped key is in the key domain, on the same side of any point inside.
LEMMA ClampedFacts ==
    ASSUME NEW t, t.key_domain_min_ \in Int, t.key_domain_max_ \in Int,
           t.key_domain_min_ < t.key_domain_max_, NEW key \in Int
    PROVE  /\ Clamped(t, key) \in Int
           /\ t.key_domain_min_ <= Clamped(t, key) /\ Clamped(t, key) < t.key_domain_max_
           /\ \/ Clamped(t, key) = key
              \/ key < t.key_domain_min_ /\ Clamped(t, key) = t.key_domain_min_
              \/ key >= t.key_domain_max_ /\ Clamped(t, key) = t.key_domain_max_ - 1
           /\ \A x \in Int : t.key_domain_min_ < x /\ x < t.key_domain_max_ =>
                                 (key < x <=> Clamped(t, key) < x)
<1> DEFINE y == Clamped(t, key)
           least == t.key_domain_min_
           greatest == t.key_domain_max_
<1>1. y = IF key < least THEN least ELSE IF key >= greatest THEN greatest - 1 ELSE key
  BY DEF Clamped
<1>2. least \in Int /\ greatest \in Int /\ least < greatest
  OBVIOUS
<1> HIDE DEF y, least, greatest
<1>3. /\ y \in Int /\ least <= y /\ y < greatest
      /\ \/ y = key
         \/ key < least /\ y = least
         \/ key >= greatest /\ y = greatest - 1
  BY <1>1, <1>2
<1>4. \A x \in Int : least < x /\ x < greatest => (key < x <=> y < x)
  BY <1>1, <1>2
<1> QED
  BY <1>3, <1>4 DEF y, least, greatest

\* The child that a key is taken to is the one that it belongs to.
LEMMA BucketHasKey ==
    ASSUME NEW t, NEW parent, NEW first, NEW from, NEW to,
           WellFormed(t, parent, first, from, to), ~t.nodes[Root(t)].is_leaf_,
           NEW key \in Int,
           NEW i \in Models(t), i # Superroot, IsIn(t, from, to, i, key)
    PROVE  /\ Bucket(t.nodes[i], key) \in 0 .. t.nodes[i].num_children_ - 1
           /\ Edge(t.nodes[i], Bucket(t.nodes[i], key)) <= Clamped(t, key)
           /\ Clamped(t, key) < Edge(t.nodes[i], Bucket(t.nodes[i], key) + 1)
           /\ IsIn(t, from, to, t.nodes[i].children_[Bucket(t.nodes[i], key)], key)
           /\ \A c \in Nodes(t) :
                  parent[c] = i /\ IsIn(t, from, to, c, key) =>
                      t.nodes[i].children_[Bucket(t.nodes[i], key)] = c
<1> DEFINE n == t.nodes[i]
           x == Clamped(t, key)
           b == Bucket(n, key)
           least == t.key_domain_min_
           greatest == t.key_domain_max_
<1>1. /\ IsTree(t) /\ HasRuns(t, parent, first)
      /\ parent \in [Nodes(t) -> Models(t)] /\ first \in [Nodes(t) -> Nat]
  BY WellFormedParts
<1>2. /\ n.start \in Int /\ n.width \in Nat /\ n.width > 0 /\ n.rounding = Exact
      /\ n.num_children_ \in Nat /\ n.num_children_ > 0
  BY <1>1, NodeFacts
<1>3. /\ least \in Int /\ greatest \in Int /\ least < greatest
      /\ from[i] = Edge(n, 0) /\ to[i] = Edge(n, n.num_children_)
      /\ least <= from[i] /\ to[i] <= greatest /\ from[i] \in Int /\ to[i] \in Int
  BY <1>1, RegionFacts, RunFacts
<1>4. /\ x \in Int
      /\ x = key \/ (key < least /\ x = least) \/ (key >= greatest /\ x = greatest - 1)
  BY <1>3, ClampedFacts
<1>5. from[i] <= x /\ x < to[i]
  BY DEF IsIn
<1>6. /\ b \in 0 .. n.num_children_ - 1
      /\ Edge(n, 0) <= key /\ key < Edge(n, n.num_children_) =>
             Edge(n, b) <= key /\ key < Edge(n, b + 1)
      /\ key < Edge(n, 0) => b = 0
      /\ key >= Edge(n, n.num_children_) => b = n.num_children_ - 1
  <2> HIDE DEF n
  <2> QED
    BY <1>2, BucketFacts
<1>7. \A a, e \in Int : /\ Edge(n, a) \in Int
                        /\ a < e <=> Edge(n, a) < Edge(n, e)
                        /\ a = e <=> Edge(n, a) = Edge(n, e)
  <2> HIDE DEF n
  <2>1. n.start \in Int /\ n.width \in Nat /\ n.width > 0
    BY <1>2
  <2> QED
    BY <2>1, EdgesGrow
<1> HIDE DEF x, b, n, least, greatest
<1>8. Edge(n, b) <= x /\ x < Edge(n, b + 1)
  <2>1. CASE x = key
    BY <1>3, <1>5, <1>6, <2>1
  <2>2. CASE key < least /\ x = least
    <3>1. b = 0 /\ x = Edge(n, 0)
      BY <1>3, <1>4, <1>5, <1>6, <2>2
    <3>2. Edge(n, 0) < Edge(n, 1) /\ Edge(n, 0) \in Int
      BY <1>7
    <3> QED
      BY <3>1, <3>2
  <2>3. CASE key >= greatest /\ x = greatest - 1
    <3>1. b = n.num_children_ - 1 /\ Edge(n, n.num_children_) = greatest
      BY <1>3, <1>4, <1>5, <1>6, <2>3
    <3>2. b + 1 = n.num_children_ /\ b < n.num_children_ /\ b \in Int
      BY <1>2, <3>1
    <3>3. Edge(n, b) < Edge(n, n.num_children_) /\ Edge(n, b) \in Int
      BY <1>2, <1>7, <3>2
    <3> QED
      BY <1>3, <2>3, <3>1, <3>2, <3>3
  <2> QED
    BY <1>4, <2>1, <2>2, <2>3
<1>9. ASSUME NEW c \in Nodes(t), parent[c] = i
      PROVE  /\ first[c] \in Int /\ first[c] + Repeats(t.nodes[c]) \in Int
             /\ from[c] = Edge(n, first[c])
             /\ to[c] = Edge(n, first[c] + Repeats(t.nodes[c]))
             /\ n.children_[b] = c <=> first[c] <= b /\ b < first[c] + Repeats(t.nodes[c])
  <2>1. /\ first[c] \in Nat /\ Repeats(t.nodes[c]) \in Nat
        /\ n.children_[b] = c <=> first[c] <= b /\ b < first[c] + Repeats(t.nodes[c])
    BY <1>1, <1>6, <1>9, RunFacts DEF n
  <2>2. /\ from[c] = Edge(n, first[c])
        /\ to[c] = Edge(n, first[c] + Repeats(t.nodes[c]))
    BY <1>9, RegionFacts DEF n
  <2> QED
    BY <2>1, <2>2
<1>10. IsIn(t, from, to, n.children_[b], key)
  <2> DEFINE c == n.children_[b]
  <2>1. c \in Nodes(t) /\ parent[c] = i
    BY <1>1, <1>6, RunFacts DEF n
  <2> HIDE DEF c
  <2>2. n.children_[b] = c
    BY DEF c
  <2> DEFINE s == first[c]
             e == first[c] + Repeats(t.nodes[c])
  <2>3. /\ s \in Int /\ e \in Int /\ from[c] = Edge(n, s) /\ to[c] = Edge(n, e)
        /\ s <= b /\ b + 1 <= e /\ b \in Int
    BY <1>2, <1>6, <1>9, <2>1, <2>2
  <2> HIDE DEF s, e
  <2>4. Edge(n, s) <= Edge(n, b) /\ Edge(n, b + 1) <= Edge(n, e)
        /\ Edge(n, s) \in Int /\ Edge(n, b) \in Int /\ Edge(n, e) \in Int /\ Edge(n, b + 1) \in Int
    BY <1>7, <2>3
  <2>5. from[c] <= x /\ x < to[c]
    BY <1>4, <1>8, <2>3, <2>4
  <2> QED
    BY <2>2, <2>5 DEF IsIn, x
<1>11. ASSUME NEW c \in Nodes(t), parent[c] = i, IsIn(t, from, to, c, key)
       PROVE  n.children_[b] = c
  <2> DEFINE s == first[c]
             e == first[c] + Repeats(t.nodes[c])
  <2>1. /\ s \in Int /\ e \in Int /\ b \in Int /\ from[c] = Edge(n, s) /\ to[c] = Edge(n, e)
        /\ n.children_[b] = c <=> s <= b /\ b < e
    BY <1>2, <1>6, <1>9, <1>11
  <2>2. from[c] <= x /\ x < to[c]
    BY <1>11 DEF IsIn, x
  <2> HIDE DEF s, e
  <2>3. Edge(n, s) < Edge(n, b + 1) /\ Edge(n, b) < Edge(n, e)
    <3>1. Edge(n, s) \in Int /\ Edge(n, b) \in Int /\ Edge(n, e) \in Int /\ Edge(n, b + 1) \in Int
      BY <1>7, <2>1
    <3> QED
      BY <1>4, <1>8, <2>1, <2>2, <3>1
  <2>4. s < b + 1 /\ b < e
    BY <1>7, <2>1, <2>3
  <2> QED
    BY <2>1, <2>4
<1> QED
  BY <1>6, <1>8, <1>10, <1>11 DEF x, b, n

-----------------------------------------------------------------------------
\* Least and greatest of a set of keys, which the type of keys bounds.
LEMMA MinAndMaxOfKeys ==
    ASSUME NEW S \in SUBSET Key, S # {}
    PROVE  /\ Min(S) \in S /\ \A k \in S : Min(S) <= k
           /\ Max(S) \in S /\ \A k \in S : k <= Max(S)
<1>1. /\ kLowest \in Int /\ kMax \in Int
      /\ \A k \in S : k \in Int /\ kLowest < k /\ k < kMax
  BY KeysAreWithinTheType
<1>2. \E m \in S : \A k \in S : m <= k
  <2> DEFINE R == {k - kLowest : k \in S}
  <2>1. R \in SUBSET Nat /\ R # {}
    BY <1>1
  <2>2. PICK r \in R : \A i \in R : r <= i
    BY <2>1, LeastElement
  <2>3. PICK m \in S : r = m - kLowest
    BY <2>2
  <2>4. \A k \in S : m - kLowest <= k - kLowest
    BY <2>2, <2>3
  <2>5. \A k \in S : m <= k
    BY <1>1, <2>4
  <2> QED
    BY <2>5
<1>3. \E m \in S : \A k \in S : k <= m
  <2> DEFINE R == {kMax - k : k \in S}
  <2>1. R \in SUBSET Nat /\ R # {}
    BY <1>1
  <2>2. PICK r \in R : \A i \in R : r <= i
    BY <2>1, LeastElement
  <2>3. PICK m \in S : r = kMax - m
    BY <2>2
  <2>4. \A k \in S : kMax - m <= kMax - k
    BY <2>2, <2>3
  <2>5. \A k \in S : k <= m
    BY <1>1, <2>4
  <2> QED
    BY <2>5
<1>4. Min(S) \in S /\ \A k \in S : Min(S) <= k
  BY <1>2, Zenon DEF Min
<1>5. Max(S) \in S /\ \A k \in S : Max(S) >= k
  <2>1. \E m \in S : \A k \in S : m >= k
    BY <1>1, <1>3
  <2> QED
    BY <2>1, Zenon DEF Max
<1> QED
  BY <1>1, <1>4, <1>5

\* Picks that lookups make.
LEMMA PicksOfLookups ==
    ASSUME NEW t, IsTree(t)
    PROVE  /\ ArePicks(t, LeftMost(t)) /\ ArePicks(t, RightMost(t))
           /\ \A key \in Int : ArePicks(t, Buckets(t, key))
<1>1. \A i \in Models(t) : /\ t.nodes[i].num_children_ \in Nat /\ t.nodes[i].num_children_ > 0
                           /\ t.nodes[i].start \in Int
                           /\ t.nodes[i].width \in Nat /\ t.nodes[i].width > 0
                           /\ t.nodes[i].rounding = Exact
  BY NodeFacts
<1>2. ArePicks(t, LeftMost(t)) /\ ArePicks(t, RightMost(t))
  BY <1>1 DEF ArePicks, LeftMost, RightMost
<1>3. ASSUME NEW key \in Int
      PROVE  ArePicks(t, Buckets(t, key))
  <2>1. \A i \in Models(t) : Bucket(t.nodes[i], key) \in 0 .. t.nodes[i].num_children_ - 1
    BY <1>1, BucketFacts
  <2> QED
    BY <2>1 DEF ArePicks, Buckets
<1> QED
  BY <1>2, <1>3

\* A path from the top that picks children in a set of nodes with the root.
LEMMA PathFromTopFacts ==
    ASSUME NEW t, NEW parent, NEW first, IsTree(t), HasRuns(t, parent, first),
           parent \in [Nodes(t) -> Models(t)], first \in [Nodes(t) -> Nat],
           NEW picks, ArePicks(t, picks),
           NEW A, Root(t) \in A, IsClosed(t, picks, A)
    PROVE  LET path == PathFromTop(t, picks)
           IN  /\ IsPath(t, path) /\ path[1] = Step(Superroot, 0)
               /\ LeafOf(t, path) \in A /\ LeafOf(t, path) \in Leaves(t)
               /\ parent[LeafOf(t, path)] = path[Len(path)].node
               /\ t.nodes[Root(t)].is_leaf_ => path = <<Step(Superroot, 0)>>
               /\ ~t.nodes[Root(t)].is_leaf_ => Len(path) > 1
<1> DEFINE path == PathFromTop(t, picks)
           top == Step(Superroot, 0)
           d == Descent(t, Root(t), picks)
<1>1. path = <<top>> \o d
  BY DEF PathFromTop
<1>2. /\ Root(t) \in Nodes(t) /\ Root(t) \in DOMAIN t.nodes
      /\ 0 \in 0 .. t.nodes[Superroot].num_children_ - 1
      /\ Superroot \in Models(t) /\ Root(t) = t.nodes[Superroot].children_[0]
  BY RootFacts, NodeFacts DEF Root
<1>3. CASE t.nodes[Root(t)].is_leaf_
  <2>1. d = << >>
    BY <1>2, <1>3, DescentUnfolds
  <2>2. path = <<top>>
    BY <1>1, <2>1
  <2>3. IsPath(t, path) /\ Len(path) = 1 /\ path[1] = top /\ LeafOf(t, path) = Root(t)
    BY <1>2, <2>2, PathBegins
  <2>4. Root(t) \in Leaves(t) /\ parent[Root(t)] = Superroot /\ top.node = Superroot
    BY <1>2, <1>3, RootFacts, NodeFacts DEF Step
  <2> QED
    BY <1>3, <2>2, <2>3, <2>4
<1>4. CASE ~t.nodes[Root(t)].is_leaf_
  <2>1. Root(t) \in A /\ Root(t) \in Models(t)
    BY <1>2, <1>4, NodeFacts
  <2>2. /\ IsPath(t, d) /\ d[1].node = Root(t)
        /\ LeafOf(t, d) \in A /\ LeafOf(t, d) \in Leaves(t)
    BY <2>1, DescendsWithin
  <2> HIDE DEF d
  <2>3. t.nodes[Superroot].children_[0] = d[1].node
    BY <1>2, <2>2
  <2>4. /\ IsPath(t, path) /\ path[1] = top /\ Len(path) = Len(d) + 1
        /\ LeafOf(t, path) = LeafOf(t, d)
    <3>1. path = <<Step(Superroot, 0)>> \o d
      BY <1>1
    <3> HIDE DEF path
    <3> QED
      BY <1>2, <2>2, <2>3, <3>1, PathGrows
  <2>5. Len(d) \in Nat /\ Len(d) > 0
    BY <2>2, PathFacts
  <2> HIDE DEF path, top
  <2>6. parent[LeafOf(t, path)] = path[Len(path)].node
    <3> DEFINE s == path[Len(path)]
    <3>1. Len(path) \in 1 .. Len(path)
      BY <2>4, <2>5
    <3>2. s.node \in Models(t) /\ s.bucketID \in 0 .. t.nodes[s.node].num_children_ - 1
      BY <2>4, <3>1 DEF IsPath
    <3>3. LeafOf(t, path) = t.nodes[s.node].children_[s.bucketID]
      BY DEF LeafOf, ChildOf, Last
    <3> HIDE DEF s
    <3>4. parent[t.nodes[s.node].children_[s.bucketID]] = s.node
      BY <3>2, RunFacts
    <3> QED
      BY <3>3, <3>4 DEF s
  <2> QED
    BY <1>4, <2>2, <2>4, <2>5, <2>6 DEF path, top
<1> QED
  BY <1>3, <1>4

-----------------------------------------------------------------------------
\* A key belongs to one leaf.
LEMMA OneLeafIsForKey ==
    ASSUME NEW t, NEW parent, NEW first, NEW from, NEW to,
           WellFormed(t, parent, first, from, to), ~t.nodes[Root(t)].is_leaf_,
           NEW key \in Int, NEW i \in Leaves(t), NEW j \in Leaves(t),
           IsIn(t, from, to, i, key), IsIn(t, from, to, j, key)
    PROVE  i = j
<1>1. Clamped(t, key) \in Int
  BY RegionFacts, ClampedFacts
<1>2. i \in Nodes(t) /\ j \in Nodes(t)
  BY WellFormedParts, RunFacts
<1>3. from[i] \in Int /\ to[i] \in Int /\ from[j] \in Int /\ to[j] \in Int
  BY <1>2, RegionFacts
<1>4. /\ from[i] <= Clamped(t, key) /\ Clamped(t, key) < to[i]
      /\ from[j] <= Clamped(t, key) /\ Clamped(t, key) < to[j]
  BY DEF IsIn
<1>5. i # j => to[i] <= from[j] \/ to[j] <= from[i]
  BY DEF WellFormed, AreApart
<1> QED
  BY <1>1, <1>3, <1>4, <1>5

\* No key of the leaf before is as great as one that belongs to a leaf.
LEMMA LeafBeforeIsBefore ==
    ASSUME NEW t, NEW parent, NEW first, NEW from, NEW to,
           WellFormed(t, parent, first, from, to), ~t.nodes[Root(t)].is_leaf_,
           NEW key \in Key, NEW i \in Leaves(t), IsIn(t, from, to, i, key),
           t.nodes[i].prev_leaf_ # NoNode
    PROVE  ~(last_key(t.nodes[t.nodes[i].prev_leaf_]) >= key)
<1> DEFINE prev == t.nodes[i].prev_leaf_
           m == last_key(t.nodes[prev])
<1>1. IsTree(t) /\ key \in Int /\ kLowest \in Int /\ kLowest < key
  BY WellFormedParts, KeysAreWithinTheType
<1>2. prev \in Leaves(t) /\ to[prev] = from[i]
  BY DEF WellFormed, IsChained
<1>3. prev \in Nodes(t) /\ i \in Nodes(t) /\ t.nodes[prev].keys \subseteq Key
  BY <1>1, <1>2, NodeFacts
<1>4. CASE t.nodes[prev].keys = {}
  BY <1>1, <1>4 DEF last_key
<1>5. CASE t.nodes[prev].keys # {}
  <2>1. m \in t.nodes[prev].keys
    BY <1>3, <1>5, MinAndMaxOfKeys DEF last_key
  <2>2. m \in Int
    BY <1>3, <2>1, KeysAreWithinTheType
  <2>3. IsIn(t, from, to, prev, m)
    BY <1>2, <2>1 DEF WellFormed, IsRouted
  <2>4. Clamped(t, m) < from[i] /\ from[i] <= Clamped(t, key)
    BY <1>2, <2>3 DEF IsIn
  <2>5. t.key_domain_min_ \in Int /\ t.key_domain_max_ \in Int /\ from[i] \in Int
        /\ t.key_domain_min_ < t.key_domain_max_
    BY <1>3, RegionFacts
  <2>6. m < key
    <3> HIDE DEF m
    <3> QED
      BY <1>1, <2>2, <2>4, <2>5 DEF Clamped
  <2> QED
    BY <1>1, <2>2, <2>6
<1> QED
  BY <1>4, <1>5

\* A lookup ends at the leaf that the key belongs to, on a path that leads
\* there: under exact predictions the neighbours need not be looked at.
LEMMA LookupFinds ==
    ASSUME NEW t, NEW parent, NEW first, NEW from, NEW to,
           WellFormed(t, parent, first, from, to),
           NEW key \in Key
    PROVE  LET found == get_leaf(t, key)
           IN  /\ IsPath(t, found.path) /\ found.path[1] = Step(Superroot, 0)
               /\ found.leaf \in Leaves(t) /\ found.leaf = LeafOf(t, found.path)
               /\ parent[found.leaf] = found.path[Len(found.path)].node
               /\ parent[found.leaf] = Last(found.path).node
               /\ t.nodes[Root(t)].is_leaf_ =>
                      found.leaf = Root(t) /\ found.path = <<Step(Superroot, 0)>>
               /\ ~t.nodes[Root(t)].is_leaf_ =>
                      Len(found.path) > 1 /\ IsIn(t, from, to, found.leaf, key)
<1> DEFINE picks == Buckets(t, key)
           path == PathFromTop(t, picks)
           leaf == LeafOf(t, path)
           A == {c \in Nodes(t) : t.nodes[Root(t)].is_leaf_ \/ IsIn(t, from, to, c, key)}
<1>1. /\ IsTree(t) /\ HasRuns(t, parent, first)
      /\ parent \in [Nodes(t) -> Models(t)] /\ first \in [Nodes(t) -> Nat]
  BY WellFormedParts
<1>2. key \in Int
  BY KeysAreWithinTheType
<1>3. ArePicks(t, picks)
  BY <1>1, <1>2, PicksOfLookups
<1>4. IsClosed(t, picks, A)
  <2>1. SUFFICES ASSUME NEW i \in Models(t), i \in A
                 PROVE  t.nodes[i].children_[picks[i]] \in A
    BY DEF IsClosed
  <2>2. picks[i] \in 0 .. t.nodes[i].num_children_ - 1
    BY <1>3 DEF ArePicks
  <2>3. t.nodes[i].children_[picks[i]] \in Nodes(t) /\ i \in Nodes(t) /\ i # Superroot
    BY <1>1, <2>1, <2>2, RunFacts
  <2>4. CASE ~t.nodes[Root(t)].is_leaf_
    <3>1. IsIn(t, from, to, i, key)
      BY <2>1, <2>4
    <3>2. picks[i] = Bucket(t.nodes[i], key)
      BY DEF Buckets
    <3> HIDE DEF picks
    <3>3. IsIn(t, from, to, t.nodes[i].children_[picks[i]], key)
      BY <1>2, <2>3, <2>4, <3>1, <3>2, BucketHasKey
    <3> QED
      BY <2>3, <3>3
  <2> QED
    BY <2>3, <2>4
<1>5. Root(t) \in A
  <2>1. Root(t) \in Nodes(t)
    BY <1>1, RootFacts
  <2>2. ASSUME ~t.nodes[Root(t)].is_leaf_ PROVE IsIn(t, from, to, Root(t), key)
    BY <1>2, <2>2, RegionFacts, ClampedFacts DEF IsIn
  <2> QED
    BY <2>1, <2>2
<1> HIDE DEF A
<1>6. /\ IsPath(t, path) /\ path[1] = Step(Superroot, 0)
      /\ leaf \in A /\ leaf \in Leaves(t)
      /\ parent[leaf] = path[Len(path)].node
      /\ t.nodes[Root(t)].is_leaf_ => path = <<Step(Superroot, 0)>>
      /\ ~t.nodes[Root(t)].is_leaf_ => Len(path) > 1
  BY <1>1, <1>3, <1>4, <1>5, PathFromTopFacts
<1>7. ~t.nodes[Root(t)].is_leaf_ => IsIn(t, from, to, leaf, key)
  BY <1>6 DEF A
<1>8. t.nodes[Root(t)].is_leaf_ => leaf = Root(t) /\ Len(path) = 1
  BY <1>1, <1>6, RootLeafIsAlone
<1>9. t.nodes[Last(path).node].rounding.below = {}
  <2>1. Last(path) = path[Len(path)] /\ path[Len(path)].node \in Models(t)
    BY <1>1, <1>6, PathFacts DEF Last
  <2>2. t.nodes[Last(path).node].rounding = Exact
    BY <1>1, <2>1, NodeFacts
  <2> QED
    BY <2>2 DEF Exact
<1>10. ~t.nodes[Root(t)].is_leaf_ /\ t.nodes[leaf].prev_leaf_ # NoNode =>
           ~(last_key(t.nodes[t.nodes[leaf].prev_leaf_]) >= key)
  BY <1>6, <1>7, LeafBeforeIsBefore
<1> HIDE DEF path, leaf
<1>11. get_leaf(t, key) = [leaf |-> leaf, path |-> path]
  <2> DEFINE prev == t.nodes[leaf].prev_leaf_
             next == t.nodes[leaf].next_leaf_
             below == key \in t.nodes[Last(path).node].rounding.below
             checked == Len(path) > 1 /\ WithinTolerance(t.nodes[Last(path).node], key)
             Corrected(left) ==
                 correct_traversal_path(t, path, Repeats(t.nodes[leaf]), left)
  <2>1. get_leaf(t, key) =
            IF checked /\ ~below /\ prev # NoNode /\ last_key(t.nodes[prev]) >= key
            THEN [leaf |-> prev, path |-> Corrected(TRUE)]
            ELSE IF checked /\ below /\ next # NoNode /\ first_key(t.nodes[next]) <= key
            THEN [leaf |-> next, path |-> Corrected(FALSE)]
            ELSE [leaf |-> leaf, path |-> path]
    BY DEF get_leaf, path, leaf
  <2>2. ~below
    BY <1>9
  <2>3. ~(checked /\ prev # NoNode /\ last_key(t.nodes[prev]) >= key)
    <3>1. CASE t.nodes[Root(t)].is_leaf_
      <4>2. Len(path) = 1
        BY <1>8, <3>1
      <4>1. ~(Len(path) > 1)
        BY <4>2
      <4> QED
        BY <4>1
    <3>2. CASE ~t.nodes[Root(t)].is_leaf_
      <4>1. prev # NoNode => ~(last_key(t.nodes[prev]) >= key)
        BY <1>10, <3>2
      <4> HIDE DEF prev, checked
      <4> QED
        BY <4>1
    <3> QED
      BY <3>1, <3>2
  <2> HIDE DEF prev, next, below, checked, Corrected
  <2> QED
    BY <2>1, <2>2, <2>3
<1>12. get_leaf(t, key).leaf = leaf /\ get_leaf(t, key).path = path
  BY <1>11
<1>13. Last(path) = path[Len(path)]
  BY DEF Last
<1> QED
  BY <1>6, <1>7, <1>8, <1>12, <1>13 DEF leaf

-----------------------------------------------------------------------------
(* The buckets that new leaves take.                                       *)

\* The ends of runs are the sums that their definition says.
LEMMA EndsUnfold ==
    ASSUME NEW start, NEW factors, Len(factors) \in Nat
    PROVE  /\ DOMAIN Ends(start, factors) = 0 .. Len(factors)
           /\ Ends(start, factors)[0] = start
           /\ \A j \in 1 .. Len(factors) :
                  Ends(start, factors)[j] = Ends(start, factors)[j - 1] + 2^factors[j]
<1> DEFINE m == Len(factors)
           Body(f, j) == IF j = 0 THEN start ELSE f[j - 1] + 2^factors[j]
           Solved(n) == \E f : f = [j \in 0 .. n |-> Body(f, j)]
           open == {n \in Nat : ~Solved(n)}
<1>1. Solved(0)
  <2> DEFINE f == [j \in 0 .. 0 |-> start]
  <2>1. f = [j \in 0 .. 0 |-> Body(f, j)]
    OBVIOUS
  <2> QED
    BY <2>1
<1>2. ASSUME NEW n \in Nat, Solved(n)
      PROVE  Solved(n + 1)
  <2>1. PICK f : f = [j \in 0 .. n |-> Body(f, j)]
    BY <1>2
  <2> DEFINE g == [j \in 0 .. n + 1 |-> Body(f, j)]
  <2>2. ASSUME NEW j \in 0 .. n + 1
        PROVE  Body(f, j) = Body(g, j)
    <3>1. CASE j = 0
      BY <3>1
    <3>2. CASE j # 0
      <4>1. j - 1 \in 0 .. n /\ j - 1 \in 0 .. n + 1
        BY <3>2
      <4> DEFINE i == j - 1
      <4> HIDE DEF i
      <4>2. f[i] = Body(f, i)
        <5> HIDE DEF Body
        <5> QED
          BY <2>1, <4>1 DEF i
      <4>3. g[i] = Body(f, i)
        <5> HIDE DEF Body
        <5> QED
          BY <4>1 DEF i
      <4> QED
        BY <3>2, <4>2, <4>3 DEF i
    <3> QED
      BY <3>1, <3>2
  <2> HIDE DEF Body
  <2>3. g = [j \in 0 .. n + 1 |-> Body(g, j)]
    BY <2>2
  <2> HIDE DEF g
  <2> QED
    BY <2>3
<1>3. Solved(m)
  <2> HIDE DEF Solved, m
  <2>1. SUFFICES ASSUME open # {} PROVE FALSE
    BY DEF m
  <2>2. PICK n \in open : \A k \in open : n <= k
    BY <2>1, LeastElement
  <2>3. n \in Nat /\ n # 0
    BY <1>1, <2>2
  <2>4. n - 1 \in Nat /\ (n - 1) + 1 = n /\ Solved(n - 1)
    BY <2>2, <2>3
  <2>5. Solved(n)
    BY <2>4, <1>2
  <2> QED
    BY <2>2, <2>5
<1> DEFINE e == CHOOSE f : f = [j \in 0 .. m |-> Body(f, j)]
<1>4. e = [j \in 0 .. m |-> Body(e, j)]
  <2> HIDE DEF Body
  <2> QED
    BY <1>3
<1>5. Ends(start, factors) = e
  BY DEF Ends
<1> HIDE DEF e
<1>6. DOMAIN e = 0 .. m /\ \A j \in 0 .. m : e[j] = Body(e, j)
  <2> HIDE DEF Body
  <2> QED
    BY <1>4
<1>7. e[0] = start
  BY <1>6
<1>8. \A j \in 1 .. m : e[j] = e[j - 1] + 2^factors[j]
  BY <1>6
<1> QED
  BY <1>5, <1>6, <1>7, <1>8

\* Runs of pointers that lie one after the other, each at a multiple of its
\* length.
AreRuns(ends, factors, count) ==
    /\ count \in Nat /\ count > 0
    /\ \A j \in 1 .. count : factors[j] \in Nat
    /\ ends[0] \in Nat
    /\ \A j \in 1 .. count : /\ ends[j] = ends[j - 1] + 2^factors[j]
                             /\ ends[j - 1] % 2^factors[j] = 0

\* They do not overlap, and together they have all pointers from first to last.
LEMMA RunsPartition ==
    ASSUME NEW ends, NEW factors, NEW count, AreRuns(ends, factors, count)
    PROVE  /\ \A j \in 0 .. count : ends[j] \in Nat
           /\ \A i, j \in 0 .. count : i < j => ends[i] < ends[j]
           /\ \A b \in Nat : ends[0] <= b /\ b < ends[count] =>
                  \E j \in 1 .. count : ends[j - 1] <= b /\ b < ends[j]
           /\ \A b \in Nat : \A i, j \in 1 .. count :
                  ends[i - 1] <= b /\ b < ends[i] /\ ends[j - 1] <= b /\ b < ends[j] => i = j
<1>1. /\ count \in Nat /\ count > 0 /\ ends[0] \in Nat
      /\ \A j \in 1 .. count : /\ ends[j] = ends[j - 1] + 2^factors[j]
                               /\ 2^factors[j] \in Nat /\ 2^factors[j] > 0
  BY PowerFacts DEF AreRuns
<1>2. \A j \in 0 .. count : ends[j] \in Nat
  <2> DEFINE open == {j \in 0 .. count : ends[j] \notin Nat}
  <2>1. SUFFICES ASSUME open # {} PROVE FALSE
    OBVIOUS
  <2>2. open \in SUBSET Nat
    BY <1>1
  <2>3. PICK j \in open : \A i \in open : j <= i
    BY <2>1, <2>2, LeastElement
  <2>4. j \in 1 .. count /\ j - 1 \in 0 .. count
    BY <1>1, <2>3
  <2>5. ends[j - 1] \in Nat
    BY <2>3, <2>4
  <2>6. ends[j] \in Nat
    BY <1>1, <2>4, <2>5
  <2> QED
    BY <2>3, <2>6
<1>3. \A j \in 1 .. count : ends[j - 1] < ends[j] /\ ends[j - 1] \in Nat /\ ends[j] \in Nat
  <2>1. ASSUME NEW j \in 1 .. count
        PROVE  ends[j - 1] < ends[j] /\ ends[j - 1] \in Nat /\ ends[j] \in Nat
    <3>1. j - 1 \in 0 .. count /\ j \in 0 .. count
      BY <1>1
    <3> QED
      BY <1>1, <1>2, <3>1
  <2> QED
    BY <2>1
<1>4. ASSUME NEW i \in 0 .. count, NEW j \in 0 .. count, i < j
      PROVE  ends[i] < ends[j]
  <2> DEFINE open == {n \in 0 .. count : i < n /\ ~(ends[i] < ends[n])}
  <2>1. SUFFICES ASSUME open # {} PROVE FALSE
    BY <1>4
  <2>2. open \in SUBSET Nat
    BY <1>1
  <2>3. PICK n \in open : \A k \in open : n <= k
    BY <2>1, <2>2, LeastElement
  <2>4. n \in 1 .. count /\ n - 1 \in 0 .. count /\ i < n
    BY <1>1, <2>3
  <2>5. n - 1 \notin open
    BY <2>3, <2>4
  <2>6. n - 1 = i \/ ends[i] < ends[n - 1]
    BY <2>4, <2>5
  <2>7. ends[n - 1] < ends[n] /\ ends[n - 1] \in Nat /\ ends[n] \in Nat /\ ends[i] \in Nat
    BY <1>2, <1>3, <2>4
  <2>8. ends[i] < ends[n]
    BY <2>6, <2>7
  <2> QED
    BY <2>3, <2>8
<1>5. ASSUME NEW b \in Nat, ends[0] <= b, b < ends[count]
      PROVE  \E j \in 1 .. count : ends[j - 1] <= b /\ b < ends[j]
  <2> DEFINE past == {j \in 0 .. count : b < ends[j]}
  <2>1. past \in SUBSET Nat /\ count \in past
    BY <1>1, <1>5
  <2>2. PICK j \in past : \A i \in past : j <= i
    BY <2>1, LeastElement
  <2>3. j # 0
    BY <1>1, <1>5, <2>2
  <2>4. j \in 1 .. count /\ j - 1 \in 0 .. count /\ j - 1 \notin past
    BY <1>1, <2>2, <2>3
  <2>5. ends[j - 1] <= b
    BY <1>2, <2>4
  <2> QED
    BY <2>2, <2>4, <2>5
<1>6. ASSUME NEW b \in Nat, NEW i \in 1 .. count, NEW j \in 1 .. count, i < j,
             b < ends[i], ends[j - 1] <= b
      PROVE  FALSE
  <2>1. i \in 0 .. count /\ j - 1 \in 0 .. count /\ (i < j - 1 \/ i = j - 1)
    BY <1>1, <1>6
  <2>2. ends[i] <= ends[j - 1] /\ ends[i] \in Nat /\ ends[j - 1] \in Nat
    BY <1>2, <1>4, <2>1
  <2> QED
    BY <1>6, <2>2
<1>7. ASSUME NEW b \in Nat, NEW i \in 1 .. count, NEW j \in 1 .. count,
             ends[i - 1] <= b, b < ends[i], ends[j - 1] <= b, b < ends[j]
      PROVE  i = j
  BY <1>1, <1>6, <1>7
<1> QED
  BY <1>2, <1>4, <1>5, <1>7

-----------------------------------------------------------------------------
(* A leaf is divided: new leaves take its pointers, its keys and its place  *)
(* in the chain.                                                           *)

Part(n, keys, ends, count, j) ==
    {k \in keys : /\ j > 1 => Edge(n, ends[j - 1]) <= k
                  /\ j < count => k < Edge(n, ends[j])}

NewLeaf(t, j) == t.fresh + j - 1

IsDivision(t, t2, old, p, ends, factors, count) ==
    /\ IsTree(t2)
    /\ DOMAIN t2.nodes = (DOMAIN t.nodes \ {old}) \cup {NewLeaf(t, j) : j \in 1 .. count}
    /\ t2.key_domain_min_ = t.key_domain_min_ /\ t2.key_domain_max_ = t.key_domain_max_
    /\ \A i \in DOMAIN t.nodes \ {old} :
           /\ t2.nodes[i].is_leaf_ = t.nodes[i].is_leaf_
           /\ t2.nodes[i].level_ = t.nodes[i].level_
           /\ t2.nodes[i].duplication_factor_ = t.nodes[i].duplication_factor_
    /\ \A i \in Models(t) :
           /\ t2.nodes[i].start = t.nodes[i].start
           /\ t2.nodes[i].width = t.nodes[i].width
           /\ t2.nodes[i].num_children_ = t.nodes[i].num_children_
           /\ i # p => t2.nodes[i].children_ = t.nodes[i].children_
    /\ \A b \in 0 .. t.nodes[p].num_children_ - 1 :
           /\ b < ends[0] \/ ends[count] <= b =>
                  t2.nodes[p].children_[b] = t.nodes[p].children_[b]
           /\ \A j \in 1 .. count : ends[j - 1] <= b /\ b < ends[j] =>
                  t2.nodes[p].children_[b] = NewLeaf(t, j)
    /\ \A i \in Leaves(t) \ {old} :
           /\ t2.nodes[i].keys = t.nodes[i].keys
           /\ t2.nodes[i].next_leaf_ = IF i = t.nodes[old].prev_leaf_ THEN NewLeaf(t, 1)
                                       ELSE t.nodes[i].next_leaf_
           /\ t2.nodes[i].prev_leaf_ =
                  IF i = t.nodes[old].next_leaf_ /\ i # t.nodes[old].prev_leaf_
                  THEN NewLeaf(t, count) ELSE t.nodes[i].prev_leaf_
    /\ \A j \in 1 .. count :
           /\ t2.nodes[NewLeaf(t, j)].is_leaf_
           /\ t2.nodes[NewLeaf(t, j)].level_ > t.nodes[p].level_
           /\ t2.nodes[NewLeaf(t, j)].duplication_factor_ = factors[j]
           /\ t2.nodes[NewLeaf(t, j)].keys = Part(t.nodes[p], t.nodes[old].keys, ends, count, j)
           /\ t2.nodes[NewLeaf(t, j)].prev_leaf_ =
                  IF j = 1 THEN t.nodes[old].prev_leaf_ ELSE NewLeaf(t, j - 1)
           /\ t2.nodes[NewLeaf(t, j)].next_leaf_ =
                  IF j = count THEN t.nodes[old].next_leaf_ ELSE NewLeaf(t, j + 1)

\* Which pointers the new leaves take.
TakesRun(t, parent, first, old, p, ends, factors, count) ==
    /\ old \in Leaves(t) /\ parent[old] = p /\ p # Superroot
    /\ AreRuns(ends, factors, count)
    /\ ends[0] = first[old] /\ ends[count] = first[old] + Repeats(t.nodes[old])

DividedParent(t, t2, parent, p) ==
    [i \in Nodes(t2) |-> IF i < t.fresh THEN parent[i] ELSE p]
DividedFirst(t, t2, first, ends) ==
    [i \in Nodes(t2) |-> IF i < t.fresh THEN first[i] ELSE ends[i - t.fresh]]
DividedFrom(t, t2, from, p, ends) ==
    [i \in Nodes(t2) |-> IF i < t.fresh THEN from[i] ELSE Edge(t.nodes[p], ends[i - t.fresh])]
DividedTo(t, t2, to, p, ends) ==
    [i \in Nodes(t2) |-> IF i < t.fresh THEN to[i] ELSE Edge(t.nodes[p], ends[i - t.fresh + 1])]

\* The nodes of a divided tree, and the ghosts of the new leaves.
LEMMA DivisionFacts ==
    ASSUME NEW t, NEW parent, NEW first, NEW from, NEW to,
           WellFormed(t, parent, first, from, to),
           NEW t2, NEW old, NEW p, NEW ends, NEW factors, NEW count,
           TakesRun(t, parent, first, old, p, ends, factors, count),
           IsDivision(t, t2, old, p, ends, factors, count)
    PROVE  /\ p \in Models(t) /\ p \in Nodes(t) /\ old \in Nodes(t) /\ old # p
           /\ ~t.nodes[Root(t)].is_leaf_
           /\ count \in Nat /\ count > 0 /\ t.fresh \in Nat
           /\ \A j \in 1 .. count : /\ NewLeaf(t, j) \in Nat /\ NewLeaf(t, j) >= t.fresh
                                    /\ NewLeaf(t, j) \in Leaves(t2) /\ NewLeaf(t, j) \in Nodes(t2)
                                    /\ NewLeaf(t, j) # p
           /\ \A i \in Nodes(t2) : \/ i \in Nodes(t) /\ i < t.fresh /\ i # old
                                   \/ \E j \in 1 .. count : i = NewLeaf(t, j)
           /\ \A i \in Nodes(t) : i \in Nat /\ i < t.fresh /\ (i # old => i \in Nodes(t2))
           /\ Models(t2) = Models(t)
           /\ \A i \in Leaves(t) : i # old => i \in Leaves(t2)
           /\ \A i \in Leaves(t2) : \/ i \in Leaves(t) /\ i < t.fresh /\ i # old
                                    \/ \E j \in 1 .. count : i = NewLeaf(t, j)
           /\ Root(t2) = Root(t)
           /\ ~t2.nodes[Root(t2)].is_leaf_
           /\ \A i, j \in 1 .. count : NewLeaf(t, i) = NewLeaf(t, j) => i = j
<1>1. /\ IsTree(t) /\ HasRuns(t, parent, first)
      /\ parent \in [Nodes(t) -> Models(t)] /\ first \in [Nodes(t) -> Nat]
  BY WellFormedParts
<1>2. /\ old \in Leaves(t) /\ parent[old] = p /\ p # Superroot
      /\ count \in Nat /\ count > 0
  BY DEF TakesRun, AreRuns
<1>3. old \in Nodes(t) /\ p \in Models(t) /\ p \in Nodes(t) /\ old # p
  BY <1>1, <1>2, RunFacts, NodeFacts DEF Models
<1>4. ~t.nodes[Root(t)].is_leaf_
  BY <1>1, <1>2, <1>3, RootLeafIsAlone
<1>5. t.fresh \in Nat /\ \A i \in DOMAIN t.nodes : i \in Nat /\ i < t.fresh
  BY <1>1, NodeFacts
<1>6. /\ \A j \in 1 .. count : NewLeaf(t, j) \in Nat /\ NewLeaf(t, j) >= t.fresh
      /\ \A i, j \in 1 .. count : NewLeaf(t, i) = NewLeaf(t, j) => i = j
  BY <1>2, <1>5 DEF NewLeaf
<1>7. /\ DOMAIN t2.nodes = (DOMAIN t.nodes \ {old}) \cup {NewLeaf(t, j) : j \in 1 .. count}
      /\ \A j \in 1 .. count : t2.nodes[NewLeaf(t, j)].is_leaf_
      /\ \A i \in DOMAIN t.nodes \ {old} : t2.nodes[i].is_leaf_ = t.nodes[i].is_leaf_
      /\ \A i \in Models(t) : i # p => t2.nodes[i].children_ = t.nodes[i].children_
      /\ IsTree(t2)
  BY DEF IsDivision
<1>8. \A i \in Nodes(t) : i \in DOMAIN t.nodes /\ i # Superroot
  BY DEF Nodes
<1>9. Superroot \in DOMAIN t.nodes
  BY <1>1, NodeFacts DEF Models
<1>10. /\ \A j \in 1 .. count : NewLeaf(t, j) \in Nodes(t2) /\ NewLeaf(t, j) \in DOMAIN t2.nodes
       /\ \A i \in Nodes(t2) : \/ i \in Nodes(t) /\ i < t.fresh /\ i # old
                               \/ \E j \in 1 .. count : i = NewLeaf(t, j)
       /\ \A i \in Nodes(t) : i \in Nat /\ i < t.fresh /\ (i # old => i \in Nodes(t2))
  BY <1>5, <1>6, <1>7, <1>8, <1>9 DEF Nodes
<1>11. /\ \A j \in 1 .. count : NewLeaf(t, j) \in Leaves(t2)
       /\ \A i \in Leaves(t) : i # old => i \in Leaves(t2)
       /\ \A i \in Leaves(t2) : \/ i \in Leaves(t) /\ i < t.fresh /\ i # old
                                \/ \E j \in 1 .. count : i = NewLeaf(t, j)
  BY <1>5, <1>7, <1>10 DEF Leaves
<1>12. \A i : i \in Models(t2) <=> i \in Models(t)
  <2>1. \A i : i \in Models(t2) <=> i \in DOMAIN t2.nodes /\ ~t2.nodes[i].is_leaf_
    BY DEF Models, Leaves
  <2>2. \A i : i \in Models(t) <=> i \in DOMAIN t.nodes /\ ~t.nodes[i].is_leaf_
    BY DEF Models, Leaves
  <2>3. \A i \in Models(t) : i # old
    BY <1>2, <2>2, NodeFacts DEF Leaves
  <2> QED
    BY <1>7, <2>1, <2>2, <2>3
<1>13. Models(t2) = Models(t)
  BY <1>12
<1>14. Root(t2) = Root(t)
  BY <1>1, <1>2, <1>7, NodeFacts DEF Root
<1>15. ~t2.nodes[Root(t2)].is_leaf_
  <2>1. Root(t) \in DOMAIN t.nodes
    BY <1>1, RootFacts
  <2>2. Root(t) # old
    BY <1>2, <1>4 DEF Leaves
  <2> QED
    BY <1>4, <1>7, <1>14, <2>1, <2>2
<1>16. \A j \in 1 .. count : NewLeaf(t, j) # p
  BY <1>3, <1>5, <1>6, <1>8
<1> QED
  BY <1>2, <1>3, <1>4, <1>5, <1>6, <1>10, <1>11, <1>13, <1>14, <1>15, <1>16

\* The ghosts of the nodes that stay, and of the new leaves.
LEMMA DivisionGhosts ==
    ASSUME NEW t, NEW parent, NEW first, NEW from, NEW to,
           WellFormed(t, parent, first, from, to),
           NEW t2, NEW old, NEW p, NEW ends, NEW factors, NEW count,
           TakesRun(t, parent, first, old, p, ends, factors, count),
           IsDivision(t, t2, old, p, ends, factors, count),
           NEW parent2, parent2 = DividedParent(t, t2, parent, p),
           NEW first2, first2 = DividedFirst(t, t2, first, ends),
           NEW from2, from2 = DividedFrom(t, t2, from, p, ends),
           NEW to2, to2 = DividedTo(t, t2, to, p, ends)
    PROVE  /\ AreGhosts(t2, parent2, first2, from2, to2)
           /\ \A i \in Nodes(t) : i # old =>
                  /\ parent2[i] = parent[i] /\ first2[i] = first[i]
                  /\ from2[i] = from[i] /\ to2[i] = to[i]
           /\ \A j \in 1 .. count :
                  /\ parent2[NewLeaf(t, j)] = p /\ first2[NewLeaf(t, j)] = ends[j - 1]
                  /\ from2[NewLeaf(t, j)] = Edge(t.nodes[p], ends[j - 1])
                  /\ to2[NewLeaf(t, j)] = Edge(t.nodes[p], ends[j])
                  /\ from2[NewLeaf(t, j)] \in Int /\ to2[NewLeaf(t, j)] \in Int
                  /\ from2[NewLeaf(t, j)] < to2[NewLeaf(t, j)]
                  /\ from[old] <= from2[NewLeaf(t, j)] /\ to2[NewLeaf(t, j)] <= to[old]
           /\ from[old] = Edge(t.nodes[p], ends[0])
           /\ to[old] = Edge(t.nodes[p], ends[count])
           /\ \A i, j \in 0 .. count : /\ ends[i] \in Nat
                                       /\ i < j => ends[i] < ends[j]
                                       /\ Edge(t.nodes[p], ends[i]) \in Int
                                       /\ i < j => Edge(t.nodes[p], ends[i]) < Edge(t.nodes[p], ends[j])
<1> DEFINE n == t.nodes[p]
<1>1. /\ IsTree(t) /\ HasRuns(t, parent, first)
      /\ parent \in [Nodes(t) -> Models(t)] /\ first \in [Nodes(t) -> Nat]
      /\ from \in [Nodes(t) -> Int] /\ to \in [Nodes(t) -> Int]
  BY WellFormedParts
<1>2. /\ p \in Models(t) /\ old \in Nodes(t) /\ ~t.nodes[Root(t)].is_leaf_
      /\ count \in Nat /\ count > 0 /\ t.fresh \in Nat
      /\ \A j \in 1 .. count : NewLeaf(t, j) >= t.fresh /\ NewLeaf(t, j) \in Nodes(t2)
      /\ \A i \in Nodes(t2) : \/ i \in Nodes(t) /\ i < t.fresh /\ i # old
                              \/ \E j \in 1 .. count : i = NewLeaf(t, j)
      /\ \A i \in Nodes(t) : i \in Nat /\ i < t.fresh /\ (i # old => i \in Nodes(t2))
      /\ Models(t2) = Models(t)
  BY DivisionFacts
<1>3. \A a, b \in Int : /\ Edge(n, a) \in Int
                        /\ a < b <=> Edge(n, a) < Edge(n, b)
                        /\ a = b <=> Edge(n, a) = Edge(n, b)
  <2>1. n.start \in Int /\ n.width \in Nat /\ n.width > 0
    BY <1>1, <1>2, NodeFacts
  <2> HIDE DEF n
  <2> QED
    BY <2>1, EdgesGrow
<1>4. /\ \A j \in 0 .. count : ends[j] \in Nat
      /\ \A i, j \in 0 .. count : i < j => ends[i] < ends[j]
  BY RunsPartition DEF TakesRun
<1>5. /\ parent[old] = p /\ p # Superroot
      /\ ends[0] = first[old] /\ ends[count] = first[old] + Repeats(t.nodes[old])
  BY DEF TakesRun
<1>6. from[old] = Edge(n, ends[0]) /\ to[old] = Edge(n, ends[count])
  BY <1>2, <1>5, RegionFacts
<1>7. \A i \in Nodes(t) : i # old =>
          /\ parent2[i] = parent[i] /\ first2[i] = first[i]
          /\ from2[i] = from[i] /\ to2[i] = to[i]
  BY <1>2 DEF DividedParent, DividedFirst, DividedFrom, DividedTo
<1> HIDE DEF n
<1>8. ASSUME NEW j \in 1 .. count
      PROVE  /\ parent2[NewLeaf(t, j)] = p /\ first2[NewLeaf(t, j)] = ends[j - 1]
             /\ from2[NewLeaf(t, j)] = Edge(n, ends[j - 1])
             /\ to2[NewLeaf(t, j)] = Edge(n, ends[j])
  <2>1. /\ NewLeaf(t, j) \in Nodes(t2) /\ ~(NewLeaf(t, j) < t.fresh)
        /\ NewLeaf(t, j) - t.fresh = j - 1 /\ NewLeaf(t, j) - t.fresh + 1 = j
    BY <1>2 DEF NewLeaf
  <2> DEFINE l == NewLeaf(t, j)
  <2> HIDE DEF l
  <2>2. l \in Nodes(t2) /\ ~(l < t.fresh) /\ l - t.fresh = j - 1 /\ l - t.fresh + 1 = j
    BY <2>1 DEF l
  <2>3. parent2[l] = p /\ first2[l] = ends[l - t.fresh]
    BY <2>2 DEF DividedParent, DividedFirst
  <2>4. /\ from2[l] = Edge(n, ends[l - t.fresh])
        /\ to2[l] = Edge(n, ends[l - t.fresh + 1])
    BY <2>2 DEF DividedFrom, DividedTo, n
  <2> QED
    BY <2>2, <2>3, <2>4 DEF l
<1>9. \A i, j \in 0 .. count :
          /\ Edge(n, ends[i]) \in Int
          /\ i < j => Edge(n, ends[i]) < Edge(n, ends[j])
  <2>1. \A j \in 0 .. count : ends[j] \in Int
    BY <1>4
  <2> QED
    BY <1>3, <1>4, <2>1
<1>10. ASSUME NEW j \in 1 .. count
       PROVE  /\ Edge(n, ends[j - 1]) \in Int /\ Edge(n, ends[j]) \in Int
              /\ Edge(n, ends[j - 1]) < Edge(n, ends[j])
              /\ Edge(n, ends[0]) <= Edge(n, ends[j - 1])
              /\ Edge(n, ends[j]) <= Edge(n, ends[count])
              /\ ends[j - 1] \in Nat
  <2>1. j - 1 \in 0 .. count /\ j \in 0 .. count /\ 0 \in 0 .. count /\ count \in 0 .. count
    BY <1>2
  <2>2. Edge(n, ends[0]) <= Edge(n, ends[j - 1])
    <3>1. CASE j - 1 = 0
      BY <1>9, <2>1, <3>1
    <3>2. CASE j - 1 # 0
      <4>1. 0 < j - 1
        BY <3>2
      <4> QED
        BY <1>9, <2>1, <4>1
    <3> QED
      BY <3>1, <3>2
  <2>3. Edge(n, ends[j]) <= Edge(n, ends[count])
    <3>1. CASE j = count
      BY <1>9, <2>1, <3>1
    <3>2. CASE j # count
      <4>1. j < count
        BY <1>2, <3>2
      <4> QED
        BY <1>9, <2>1, <4>1
    <3> QED
      BY <3>1, <3>2
  <2>4. Edge(n, ends[j - 1]) < Edge(n, ends[j])
    <3>1. j - 1 < j
      OBVIOUS
    <3> QED
      BY <1>9, <2>1, <3>1
  <2> QED
    BY <1>4, <1>9, <2>1, <2>2, <2>3, <2>4
<1>11. ASSUME NEW i \in Nodes(t2)
       PROVE  /\ parent2[i] \in Models(t2) /\ first2[i] \in Nat
              /\ from2[i] \in Int /\ to2[i] \in Int
  <2>1. CASE i \in Nodes(t) /\ i < t.fresh /\ i # old
    BY <1>1, <1>2, <1>7, <2>1
  <2>2. CASE \E j \in 1 .. count : i = NewLeaf(t, j)
    BY <1>2, <1>8, <1>10, <2>2
  <2> QED
    BY <1>2, <2>1, <2>2
<1>12. /\ DOMAIN parent2 = Nodes(t2) /\ parent2 = [i \in Nodes(t2) |-> parent2[i]]
       /\ DOMAIN first2 = Nodes(t2) /\ first2 = [i \in Nodes(t2) |-> first2[i]]
       /\ DOMAIN from2 = Nodes(t2) /\ from2 = [i \in Nodes(t2) |-> from2[i]]
       /\ DOMAIN to2 = Nodes(t2) /\ to2 = [i \in Nodes(t2) |-> to2[i]]
  BY DEF DividedParent, DividedFirst, DividedFrom, DividedTo
<1>13. AreGhosts(t2, parent2, first2, from2, to2)
  BY <1>11, <1>12 DEF AreGhosts
<1> QED
  BY <1>4, <1>6, <1>7, <1>8, <1>9, <1>10, <1>13 DEF n

\* All of a division at hand, with the ghosts of the new tree.
Divides(t, parent, first, from, to, old, p, ends, factors, count,
        t2, parent2, first2, from2, to2) ==
    /\ WellFormed(t, parent, first, from, to)
    /\ TakesRun(t, parent, first, old, p, ends, factors, count)
    /\ IsDivision(t, t2, old, p, ends, factors, count)
    /\ parent2 = DividedParent(t, t2, parent, p)
    /\ first2 = DividedFirst(t, t2, first, ends)
    /\ from2 = DividedFrom(t, t2, from, p, ends)
    /\ to2 = DividedTo(t, t2, to, p, ends)

\* A division keeps the runs of pointers.
LEMMA DivisionKeepsRuns ==
    ASSUME NEW t, NEW parent, NEW first, NEW from, NEW to,
           NEW old, NEW p, NEW ends, NEW factors, NEW count,
           NEW t2, NEW parent2, NEW first2, NEW from2, NEW to2,
           Divides(t, parent, first, from, to, old, p, ends, factors, count,
                   t2, parent2, first2, from2, to2)
    PROVE  HasRuns(t2, parent2, first2)
<1>0. /\ WellFormed(t, parent, first, from, to)
      /\ TakesRun(t, parent, first, old, p, ends, factors, count)
      /\ IsDivision(t, t2, old, p, ends, factors, count)
      /\ parent2 = DividedParent(t, t2, parent, p)
      /\ first2 = DividedFirst(t, t2, first, ends)
      /\ from2 = DividedFrom(t, t2, from, p, ends)
      /\ to2 = DividedTo(t, t2, to, p, ends)
  BY DEF Divides
<1>1. /\ IsTree(t) /\ HasRuns(t, parent, first)
      /\ parent \in [Nodes(t) -> Models(t)] /\ first \in [Nodes(t) -> Nat]
  BY <1>0, WellFormedParts
<1>2. /\ p \in Models(t) /\ p \in Nodes(t) /\ old \in Nodes(t) /\ old # p
      /\ count \in Nat /\ count > 0 /\ t.fresh \in Nat
      /\ \A j \in 1 .. count : /\ NewLeaf(t, j) \in Nat /\ NewLeaf(t, j) >= t.fresh
                               /\ NewLeaf(t, j) \in Nodes(t2)
      /\ \A i \in Nodes(t2) : \/ i \in Nodes(t) /\ i < t.fresh /\ i # old
                              \/ \E j \in 1 .. count : i = NewLeaf(t, j)
      /\ \A i \in Nodes(t) : i \in Nat /\ i < t.fresh /\ (i # old => i \in Nodes(t2))
      /\ Models(t2) = Models(t)
      /\ \A i, j \in 1 .. count : NewLeaf(t, i) = NewLeaf(t, j) => i = j
  BY <1>0, DivisionFacts
<1>3. /\ \A i \in Nodes(t) : i # old => parent2[i] = parent[i] /\ first2[i] = first[i]
      /\ \A j \in 1 .. count : parent2[NewLeaf(t, j)] = p /\ first2[NewLeaf(t, j)] = ends[j - 1]
  BY <1>0, DivisionGhosts
<1>4. /\ \A i \in DOMAIN t.nodes \ {old} :
             /\ t2.nodes[i].level_ = t.nodes[i].level_
             /\ t2.nodes[i].duplication_factor_ = t.nodes[i].duplication_factor_
      /\ \A i \in Models(t) :
             /\ t2.nodes[i].num_children_ = t.nodes[i].num_children_
             /\ i # p => t2.nodes[i].children_ = t.nodes[i].children_
      /\ \A b \in 0 .. t.nodes[p].num_children_ - 1 :
             /\ b < ends[0] \/ ends[count] <= b =>
                    t2.nodes[p].children_[b] = t.nodes[p].children_[b]
             /\ \A j \in 1 .. count : ends[j - 1] <= b /\ b < ends[j] =>
                    t2.nodes[p].children_[b] = NewLeaf(t, j)
      /\ \A j \in 1 .. count :
             /\ t2.nodes[NewLeaf(t, j)].level_ > t.nodes[p].level_
             /\ t2.nodes[NewLeaf(t, j)].duplication_factor_ = factors[j]
  BY <1>0 DEF IsDivision
<1>5. /\ parent[old] = p
      /\ ends[0] = first[old] /\ ends[count] = first[old] + Repeats(t.nodes[old])
      /\ AreRuns(ends, factors, count)
  BY <1>0 DEF TakesRun
<1>6. /\ \A j \in 0 .. count : ends[j] \in Nat
      /\ \A i, j \in 0 .. count : i < j => ends[i] < ends[j]
      /\ \A b \in Nat : ends[0] <= b /\ b < ends[count] =>
             \E j \in 1 .. count : ends[j - 1] <= b /\ b < ends[j]
      /\ \A b \in Nat : \A i, j \in 1 .. count :
             ends[i - 1] <= b /\ b < ends[i] /\ ends[j - 1] <= b /\ b < ends[j] => i = j
  BY <1>5, RunsPartition
<1>7. \A j \in 1 .. count : /\ ends[j] = ends[j - 1] + 2^factors[j]
                            /\ ends[j - 1] % 2^factors[j] = 0
                            /\ ends[j - 1] \in Nat /\ ends[j] \in Nat
                            /\ ends[j] <= ends[count] /\ ends[0] <= ends[j - 1]
  <2>1. ASSUME NEW j \in 1 .. count
        PROVE  /\ ends[j - 1] \in Nat /\ ends[j] \in Nat
               /\ ends[j] <= ends[count] /\ ends[0] <= ends[j - 1]
    <3>1. /\ j - 1 \in 0 .. count /\ j \in 0 .. count /\ 0 \in 0 .. count /\ count \in 0 .. count
          /\ (j = count \/ j < count) /\ (j - 1 = 0 \/ 0 < j - 1)
      BY <1>2
    <3>2. ends[j - 1] \in Nat /\ ends[j] \in Nat /\ ends[0] \in Nat /\ ends[count] \in Nat
      BY <1>6, <3>1
    <3>3. ends[j] <= ends[count]
      BY <1>6, <3>1, <3>2
    <3>4. ends[0] <= ends[j - 1]
      BY <1>6, <3>1, <3>2
    <3> QED
      BY <3>2, <3>3, <3>4
  <2> QED
    BY <1>5, <2>1 DEF AreRuns
<1>8. /\ ends[0] \in Nat /\ ends[count] \in Nat /\ t.nodes[p].num_children_ \in Nat
      /\ ends[count] <= t.nodes[p].num_children_
      /\ \A b \in 0 .. t.nodes[p].num_children_ - 1 :
             t.nodes[p].children_[b] = old <=> ends[0] <= b /\ b < ends[count]
  <2>1. 0 \in 0 .. count /\ count \in 0 .. count
    BY <1>2
  <2>2. ends[0] \in Nat /\ ends[count] \in Nat /\ t.nodes[p].num_children_ \in Nat
    BY <1>1, <1>2, <1>6, <2>1, NodeFacts
  <2> QED
    BY <1>1, <1>2, <1>5, <2>2, RunFacts
\* Where p's pointers lead to now.
<1>9. ASSUME NEW b \in 0 .. t.nodes[p].num_children_ - 1
      PROVE  \/ /\ b < ends[0] \/ ends[count] <= b
                /\ t2.nodes[p].children_[b] = t.nodes[p].children_[b]
                /\ t.nodes[p].children_[b] # old
             \/ \E j \in 1 .. count :
                    /\ ends[j - 1] <= b /\ b < ends[j]
                    /\ t2.nodes[p].children_[b] = NewLeaf(t, j)
                    /\ t.nodes[p].children_[b] = old
  <2>1. b \in Nat
    BY <1>8
  <2>2. CASE b < ends[0] \/ ends[count] <= b
    <3>1. t.nodes[p].children_[b] # old
      BY <1>8, <2>1, <2>2
    <3> QED
      BY <1>4, <2>2, <3>1
  <2>3. CASE ends[0] <= b /\ b < ends[count]
    <3>1. PICK j \in 1 .. count : ends[j - 1] <= b /\ b < ends[j]
      BY <1>6, <2>1, <2>3
    <3>2. t2.nodes[p].children_[b] = NewLeaf(t, j)
      BY <1>4, <3>1
    <3>3. t.nodes[p].children_[b] = old
      BY <1>8, <2>3
    <3> QED
      BY <3>1, <3>2, <3>3
  <2> QED
    BY <1>8, <2>1, <2>2, <2>3
<1>10. \A i \in Models(t2) : \E x \in Nat : t2.nodes[i].num_children_ = 2^x
  BY <1>1, <1>2, <1>4 DEF HasRuns
<1>11. ASSUME NEW c \in Nodes(t2)
       PROVE  HasRun(t2.nodes[parent2[c]], c, t2.nodes[c], first2[c])
  <2>1. CASE c \in Nodes(t) /\ c < t.fresh /\ c # old
    <3>1. HasRun(t.nodes[parent[c]], c, t.nodes[c], first[c])
      BY <1>1, <2>1 DEF HasRuns
    <3>2. parent2[c] = parent[c] /\ first2[c] = first[c] /\ parent[c] \in Models(t)
          /\ c \in DOMAIN t.nodes /\ parent[c] \in DOMAIN t.nodes /\ parent[c] # old
      <4>1. old \in Leaves(t)
        BY <1>0 DEF TakesRun
      <4>2. parent[c] \in Models(t) /\ c \in DOMAIN t.nodes
        BY <1>1, <2>1, RunFacts
      <4>3. parent[c] \in DOMAIN t.nodes /\ parent[c] # old
        BY <4>1, <4>2 DEF Models
      <4> QED
        BY <1>3, <2>1, <4>2, <4>3
    <3>3. /\ t2.nodes[c].level_ = t.nodes[c].level_
          /\ t2.nodes[c].duplication_factor_ = t.nodes[c].duplication_factor_
          /\ t2.nodes[parent[c]].level_ = t.nodes[parent[c]].level_
          /\ t2.nodes[parent[c]].num_children_ = t.nodes[parent[c]].num_children_
      BY <1>4, <2>1, <3>2
    <3>4. Repeats(t2.nodes[c]) = Repeats(t.nodes[c])
      BY <3>3 DEF Repeats
    <3>5. ASSUME NEW b \in 0 .. t.nodes[parent[c]].num_children_ - 1
          PROVE  t2.nodes[parent[c]].children_[b] = c
                     <=> t.nodes[parent[c]].children_[b] = c
      <4>1. CASE parent[c] = p
        <5>1. \A j \in 1 .. count : NewLeaf(t, j) # c
          BY <1>2, <2>1
        <5> QED
          BY <1>9, <2>1, <4>1, <5>1
      <4>2. CASE parent[c] # p
        BY <1>4, <3>2, <4>2
      <4> QED
        BY <4>1, <4>2
    <3> QED
      BY <3>1, <3>2, <3>3, <3>4, <3>5 DEF HasRun
  <2>2. ASSUME NEW j \in 1 .. count, c = NewLeaf(t, j)
        PROVE  HasRun(t2.nodes[parent2[c]], c, t2.nodes[c], first2[c])
    <3>1. parent2[c] = p /\ first2[c] = ends[j - 1]
      BY <1>3, <2>2
    <3>2. p \in DOMAIN t.nodes
      BY <1>2 DEF Nodes
    <3>3. /\ t2.nodes[c].level_ > t2.nodes[p].level_
          /\ t2.nodes[c].duplication_factor_ = factors[j]
          /\ t2.nodes[p].num_children_ = t.nodes[p].num_children_
      BY <1>2, <1>4, <2>2, <3>2
    <3>4. Repeats(t2.nodes[c]) = 2^factors[j]
      BY <3>3 DEF Repeats
    <3>5. /\ ends[j - 1] % 2^factors[j] = 0
          /\ ends[j - 1] + 2^factors[j] = ends[j]
          /\ ends[j] <= t.nodes[p].num_children_
      BY <1>7, <1>8
    <3>6. ASSUME NEW b \in 0 .. t.nodes[p].num_children_ - 1
          PROVE  t2.nodes[p].children_[b] = c <=> ends[j - 1] <= b /\ b < ends[j]
      <4>1. ends[j - 1] <= b /\ b < ends[j] => t2.nodes[p].children_[b] = c
        BY <1>4, <2>2
      <4>2. ASSUME t2.nodes[p].children_[b] = c
            PROVE  ends[j - 1] <= b /\ b < ends[j]
        <5>1. t.nodes[p].children_[b] # c
          <6>1. t.nodes[p].children_[b] \in Nodes(t)
            BY <1>1, <1>2, RunFacts
          <6> QED
            BY <1>2, <2>2, <6>1
        <5>2. PICK i \in 1 .. count :
                  ends[i - 1] <= b /\ b < ends[i] /\ t2.nodes[p].children_[b] = NewLeaf(t, i)
          BY <1>9, <4>2, <5>1
        <5>3. i = j
          BY <1>2, <2>2, <4>2, <5>2
        <5> QED
          BY <5>2, <5>3
      <4> QED
        BY <4>1, <4>2
    <3> QED
      BY <3>1, <3>3, <3>4, <3>5, <3>6 DEF HasRun
  <2> QED
    BY <1>2, <2>1, <2>2
<1>12. ASSUME NEW i \in Models(t2), NEW b \in 0 .. t2.nodes[i].num_children_ - 1
       PROVE  /\ t2.nodes[i].children_[b] \in Nodes(t2)
              /\ parent2[t2.nodes[i].children_[b]] = i
  <2>1. i \in Models(t) /\ b \in 0 .. t.nodes[i].num_children_ - 1
    BY <1>2, <1>4
  <2>2. t.nodes[i].children_[b] \in Nodes(t) /\ parent[t.nodes[i].children_[b]] = i
    BY <1>1, <2>1, RunFacts
  <2>3. CASE i = p
    <3>1. b \in 0 .. t.nodes[p].num_children_ - 1
      BY <2>1, <2>3
    <3>2. CASE /\ t2.nodes[p].children_[b] = t.nodes[p].children_[b]
               /\ t.nodes[p].children_[b] # old
      BY <1>2, <1>3, <2>2, <2>3, <3>2
    <3>3. CASE \E j \in 1 .. count : t2.nodes[p].children_[b] = NewLeaf(t, j)
      BY <1>2, <1>3, <2>3, <3>3
    <3> QED
      BY <1>9, <3>1, <3>2, <3>3
  <2>4. CASE i # p
    <3>1. t2.nodes[i].children_[b] = t.nodes[i].children_[b]
      BY <1>4, <2>1, <2>4
    <3>2. t.nodes[i].children_[b] # old
      BY <1>5, <2>2, <2>4
    <3> QED
      BY <1>2, <1>3, <2>2, <3>1, <3>2
  <2> QED
    BY <2>3, <2>4
<1> QED
  BY <1>10, <1>11, <1>12 DEF HasRuns

\* A division keeps what nodes are for: the new leaves divide the old one's.
LEMMA DivisionKeepsRegions ==
    ASSUME NEW t, NEW parent, NEW first, NEW from, NEW to,
           NEW old, NEW p, NEW ends, NEW factors, NEW count,
           NEW t2, NEW parent2, NEW first2, NEW from2, NEW to2,
           Divides(t, parent, first, from, to, old, p, ends, factors, count,
                   t2, parent2, first2, from2, to2)
    PROVE  /\ HasRegions(t2, parent2, first2, from2, to2)
           /\ HasDomain(t2, from2, to2)
           /\ AreApart(t2, from2, to2)
<1>0. /\ WellFormed(t, parent, first, from, to)
      /\ TakesRun(t, parent, first, old, p, ends, factors, count)
      /\ IsDivision(t, t2, old, p, ends, factors, count)
      /\ parent2 = DividedParent(t, t2, parent, p)
      /\ first2 = DividedFirst(t, t2, first, ends)
      /\ from2 = DividedFrom(t, t2, from, p, ends)
      /\ to2 = DividedTo(t, t2, to, p, ends)
  BY DEF Divides
<1>1. /\ IsTree(t) /\ HasRuns(t, parent, first)
      /\ parent \in [Nodes(t) -> Models(t)] /\ first \in [Nodes(t) -> Nat]
  BY <1>0, WellFormedParts
<1>2. /\ p \in Models(t) /\ p \in Nodes(t) /\ old \in Nodes(t) /\ p # Superroot
      /\ ~t.nodes[Root(t)].is_leaf_
      /\ count \in Nat /\ count > 0
      /\ \A j \in 1 .. count : NewLeaf(t, j) \in Nodes(t2)
      /\ \A i \in Nodes(t2) : \/ i \in Nodes(t) /\ i < t.fresh /\ i # old
                              \/ \E j \in 1 .. count : i = NewLeaf(t, j)
      /\ Models(t2) = Models(t)
      /\ \A i \in Leaves(t2) : \/ i \in Leaves(t) /\ i < t.fresh /\ i # old
                               \/ \E j \in 1 .. count : i = NewLeaf(t, j)
      /\ \A i \in Leaves(t) : i \in Nodes(t)
      /\ old \in Leaves(t)
  <2>1. old \in Leaves(t) /\ p # Superroot
    BY <1>0 DEF TakesRun
  <2>2. \A i \in Leaves(t) : i \in Nodes(t)
    BY <1>1, RunFacts
  <2> QED
    BY <1>0, <2>1, <2>2, DivisionFacts
<1>3. /\ \A i \in Nodes(t) : i # old =>
             /\ parent2[i] = parent[i] /\ first2[i] = first[i]
             /\ from2[i] = from[i] /\ to2[i] = to[i]
      /\ \A j \in 1 .. count :
             /\ parent2[NewLeaf(t, j)] = p /\ first2[NewLeaf(t, j)] = ends[j - 1]
             /\ from2[NewLeaf(t, j)] = Edge(t.nodes[p], ends[j - 1])
             /\ to2[NewLeaf(t, j)] = Edge(t.nodes[p], ends[j])
             /\ from2[NewLeaf(t, j)] \in Int /\ to2[NewLeaf(t, j)] \in Int
             /\ from2[NewLeaf(t, j)] < to2[NewLeaf(t, j)]
             /\ from[old] <= from2[NewLeaf(t, j)] /\ to2[NewLeaf(t, j)] <= to[old]
      /\ \A i, j \in 0 .. count : /\ ends[i] \in Nat
                                  /\ Edge(t.nodes[p], ends[i]) \in Int
                                  /\ i < j => Edge(t.nodes[p], ends[i]) < Edge(t.nodes[p], ends[j])
  BY <1>0, DivisionGhosts
<1>4. /\ t2.key_domain_min_ = t.key_domain_min_ /\ t2.key_domain_max_ = t.key_domain_max_
      /\ \A i \in DOMAIN t.nodes \ {old} :
             t2.nodes[i].duplication_factor_ = t.nodes[i].duplication_factor_
      /\ \A i \in Models(t) :
             /\ t2.nodes[i].num_children_ = t.nodes[i].num_children_
             /\ t2.nodes[i].start = t.nodes[i].start /\ t2.nodes[i].width = t.nodes[i].width
      /\ \A j \in 1 .. count : t2.nodes[NewLeaf(t, j)].duplication_factor_ = factors[j]
  BY <1>0 DEF IsDivision
<1>5. \A j \in 1 .. count : ends[j] = ends[j - 1] + 2^factors[j]
  BY <1>0 DEF TakesRun, AreRuns
<1>6. ASSUME NEW i \in Models(t), NEW b
      PROVE  Edge(t2.nodes[i], b) = Edge(t.nodes[i], b)
  BY <1>4 DEF Edge
<1>7. /\ t.key_domain_min_ \in Int /\ t.key_domain_max_ \in Int
      /\ \A c \in Nodes(t) :
             /\ from[c] \in Int /\ to[c] \in Int
             /\ t.key_domain_min_ <= from[c] /\ from[c] < to[c]
             /\ to[c] <= t.key_domain_max_
             /\ parent[c] # Superroot =>
                   /\ from[c] = Edge(t.nodes[parent[c]], first[c])
                   /\ to[c] = Edge(t.nodes[parent[c]], first[c] + Repeats(t.nodes[c]))
      /\ \A i \in Models(t) : i # Superroot =>
             /\ from[i] = Edge(t.nodes[i], 0)
             /\ to[i] = Edge(t.nodes[i], t.nodes[i].num_children_)
  BY <1>0, <1>2, RegionFacts
<1>8. ASSUME NEW c \in Nodes(t2)
      PROVE  IF parent2[c] = Superroot
             THEN from2[c] = t2.key_domain_min_ /\ to2[c] = t2.key_domain_max_
             ELSE /\ from2[c] = Edge(t2.nodes[parent2[c]], first2[c])
                  /\ to2[c] = Edge(t2.nodes[parent2[c]], first2[c] + Repeats(t2.nodes[c]))
  <2>1. CASE c \in Nodes(t) /\ c < t.fresh /\ c # old
    <3>1. /\ parent2[c] = parent[c] /\ first2[c] = first[c]
          /\ from2[c] = from[c] /\ to2[c] = to[c] /\ parent[c] \in Models(t)
          /\ c \in DOMAIN t.nodes \ {old}
      BY <1>1, <1>3, <2>1, RunFacts
    <3>2. Repeats(t2.nodes[c]) = Repeats(t.nodes[c])
      BY <1>4, <3>1 DEF Repeats
    <3>3. IF parent[c] = Superroot
          THEN from[c] = t.key_domain_min_ /\ to[c] = t.key_domain_max_
          ELSE /\ from[c] = Edge(t.nodes[parent[c]], first[c])
               /\ to[c] = Edge(t.nodes[parent[c]], first[c] + Repeats(t.nodes[c]))
      BY <1>0, <2>1 DEF WellFormed, HasRegions
    <3> QED
      BY <1>4, <1>6, <3>1, <3>2, <3>3
  <2>2. ASSUME NEW j \in 1 .. count, c = NewLeaf(t, j)
        PROVE  /\ parent2[c] = p
               /\ from2[c] = Edge(t2.nodes[p], first2[c])
               /\ to2[c] = Edge(t2.nodes[p], first2[c] + Repeats(t2.nodes[c]))
    <3>1. Repeats(t2.nodes[c]) = 2^factors[j]
      BY <1>4, <2>2 DEF Repeats
    <3>2. first2[c] + Repeats(t2.nodes[c]) = ends[j]
      BY <1>3, <1>5, <2>2, <3>1
    <3>3. parent2[c] = p /\ first2[c] = ends[j - 1]
      BY <1>3, <2>2
    <3>4. from2[c] = Edge(t.nodes[p], first2[c])
      BY <1>3, <2>2
    <3>5. to2[c] = Edge(t.nodes[p], first2[c] + Repeats(t2.nodes[c]))
      BY <1>3, <2>2, <3>2
    <3>6. \A b : Edge(t2.nodes[p], b) = Edge(t.nodes[p], b)
      BY <1>2, <1>6
    <3> QED
      BY <3>3, <3>4, <3>5, <3>6
  <2> QED
    BY <1>2, <2>1, <2>2
<1>9. ASSUME NEW i \in Models(t2) \ {Superroot}
      PROVE  /\ from2[i] = Edge(t2.nodes[i], 0)
             /\ to2[i] = Edge(t2.nodes[i], t2.nodes[i].num_children_)
  <2>1. i \in Models(t) /\ i \in Nodes(t) /\ i # old /\ i # Superroot
    BY <1>1, <1>2, RunFacts DEF Models
  <2>2. from2[i] = from[i] /\ to2[i] = to[i]
    BY <1>3, <2>1
  <2> QED
    BY <1>4, <1>6, <1>7, <2>1, <2>2
<1>10. ASSUME NEW c \in Nodes(t2)
       PROVE  /\ t2.key_domain_min_ <= from2[c] /\ from2[c] < to2[c]
              /\ to2[c] <= t2.key_domain_max_
  <2>1. CASE c \in Nodes(t) /\ c < t.fresh /\ c # old
    BY <1>3, <1>4, <1>7, <2>1
  <2>2. CASE \E j \in 1 .. count : c = NewLeaf(t, j)
    BY <1>2, <1>3, <1>4, <1>7, <2>2
  <2> QED
    BY <1>2, <2>1, <2>2
<1>11. ASSUME NEW i \in 1 .. count, NEW j \in 1 .. count, i < j
       PROVE  to2[NewLeaf(t, i)] <= from2[NewLeaf(t, j)]
  <2>1. i \in 0 .. count /\ j - 1 \in 0 .. count /\ (i = j - 1 \/ i < j - 1)
    BY <1>2, <1>11
  <2>2. Edge(t.nodes[p], ends[i]) <= Edge(t.nodes[p], ends[j - 1])
    BY <1>3, <2>1
  <2> QED
    BY <1>3, <2>2
<1>12. ASSUME NEW i \in Leaves(t), i # old, NEW j \in 1 .. count
       PROVE  to2[i] <= from2[NewLeaf(t, j)] \/ to2[NewLeaf(t, j)] <= from2[i]
  <2>1. to[i] <= from[old] \/ to[old] <= from[i]
    BY <1>0, <1>2, <1>12 DEF WellFormed, AreApart
  <2>2. i \in Nodes(t) /\ from2[i] = from[i] /\ to2[i] = to[i]
    BY <1>2, <1>3, <1>12
  <2> QED
    BY <1>2, <1>3, <1>7, <2>1, <2>2
<1>13. ASSUME NEW i \in Leaves(t2), NEW j \in Leaves(t2), i # j
       PROVE  to2[i] <= from2[j] \/ to2[j] <= from2[i]
  <2>1. CASE i \in Leaves(t) /\ i # old /\ j \in Leaves(t) /\ j # old
    <3>1. to[i] <= from[j] \/ to[j] <= from[i]
      BY <1>0, <1>13, <2>1 DEF WellFormed, AreApart
    <3> QED
      BY <1>2, <1>3, <2>1, <3>1
  <2>2. CASE i \in Leaves(t) /\ i # old /\ \E k \in 1 .. count : j = NewLeaf(t, k)
    BY <1>12, <2>2
  <2>3. CASE j \in Leaves(t) /\ j # old /\ \E k \in 1 .. count : i = NewLeaf(t, k)
    BY <1>12, <2>3
  <2>4. ASSUME NEW k \in 1 .. count, i = NewLeaf(t, k), NEW l \in 1 .. count, j = NewLeaf(t, l)
        PROVE  to2[i] <= from2[j] \/ to2[j] <= from2[i]
    <3>1. k < l \/ l < k
      BY <1>2, <1>13, <2>4
    <3> QED
      BY <1>11, <2>4, <3>1
  <2> QED
    BY <1>2, <2>1, <2>2, <2>3, <2>4
<1>14. HasRegions(t2, parent2, first2, from2, to2)
  BY <1>8, <1>9 DEF HasRegions
<1>15. HasDomain(t2, from2, to2)
  BY <1>10 DEF HasDomain
<1>16. AreApart(t2, from2, to2)
  BY <1>13 DEF AreApart
<1> QED
  BY <1>14, <1>15, <1>16

\* A division keeps the chain: the new leaves are between the old one's
\* neighbours, in order.
LEMMA DivisionKeepsChain ==
    ASSUME NEW t, NEW parent, NEW first, NEW from, NEW to,
           NEW old, NEW p, NEW ends, NEW factors, NEW count,
           NEW t2, NEW parent2, NEW first2, NEW from2, NEW to2,
           Divides(t, parent, first, from, to, old, p, ends, factors, count,
                   t2, parent2, first2, from2, to2)
    PROVE  IsChained(t2, from2, to2)
<1> DEFINE prev == t.nodes[old].prev_leaf_
           next == t.nodes[old].next_leaf_
<1>0. /\ WellFormed(t, parent, first, from, to)
      /\ TakesRun(t, parent, first, old, p, ends, factors, count)
      /\ IsDivision(t, t2, old, p, ends, factors, count)
      /\ parent2 = DividedParent(t, t2, parent, p)
      /\ first2 = DividedFirst(t, t2, first, ends)
      /\ from2 = DividedFrom(t, t2, from, p, ends)
      /\ to2 = DividedTo(t, t2, to, p, ends)
  BY DEF Divides
<1>1. /\ old \in Leaves(t) /\ \A i \in Leaves(t) : i \in Nodes(t)
  BY <1>0, WellFormedParts, RunFacts DEF TakesRun
<1>2. /\ old \in Nodes(t) /\ ~t.nodes[Root(t)].is_leaf_
      /\ count \in Nat /\ count > 0
      /\ \A j \in 1 .. count : NewLeaf(t, j) \in Leaves(t2)
      /\ \A i, j \in 1 .. count : NewLeaf(t, i) = NewLeaf(t, j) => i = j
      /\ \A i \in Leaves(t) : i # old => i \in Leaves(t2)
      /\ \A i \in Leaves(t2) : \/ i \in Leaves(t) /\ i # old
                               \/ \E j \in 1 .. count : i = NewLeaf(t, j)
      /\ \A j \in 1 .. count : NewLeaf(t, j) \notin Leaves(t)
  <2>1. \A i \in Leaves(t) : i < t.fresh /\ i \in Nat
    BY <1>0, <1>1, DivisionFacts
  <2>2. \A j \in 1 .. count : NewLeaf(t, j) >= t.fresh /\ t.fresh \in Nat /\ NewLeaf(t, j) \in Nat
    BY <1>0, DivisionFacts
  <2>3. \A j \in 1 .. count : NewLeaf(t, j) \notin Leaves(t)
    BY <2>1, <2>2
  <2> QED
    BY <1>0, <2>3, DivisionFacts
<1>3. /\ \A i \in Nodes(t) : i # old => from2[i] = from[i] /\ to2[i] = to[i]
      /\ \A j \in 1 .. count :
             /\ from2[NewLeaf(t, j)] = Edge(t.nodes[p], ends[j - 1])
             /\ to2[NewLeaf(t, j)] = Edge(t.nodes[p], ends[j])
             /\ from2[NewLeaf(t, j)] < to2[NewLeaf(t, j)]
      /\ from[old] = Edge(t.nodes[p], ends[0])
      /\ to[old] = Edge(t.nodes[p], ends[count])
  BY <1>0, DivisionGhosts
<1>4. /\ t2.key_domain_min_ = t.key_domain_min_ /\ t2.key_domain_max_ = t.key_domain_max_
      /\ \A i \in Leaves(t) \ {old} :
             /\ t2.nodes[i].next_leaf_ = IF i = prev THEN NewLeaf(t, 1) ELSE t.nodes[i].next_leaf_
             /\ t2.nodes[i].prev_leaf_ = IF i = next /\ i # prev THEN NewLeaf(t, count)
                                         ELSE t.nodes[i].prev_leaf_
      /\ \A j \in 1 .. count :
             /\ t2.nodes[NewLeaf(t, j)].prev_leaf_ = IF j = 1 THEN prev ELSE NewLeaf(t, j - 1)
             /\ t2.nodes[NewLeaf(t, j)].next_leaf_ = IF j = count THEN next ELSE NewLeaf(t, j + 1)
  BY <1>0 DEF IsDivision
<1>5. \A c \in Nodes(t) : from[c] \in Int /\ to[c] \in Int /\ from[c] < to[c]
  BY <1>0, <1>2, RegionFacts
<1>6. \A i \in Leaves(t) :
          /\ \/ t.nodes[i].next_leaf_ = NoNode /\ to[i] = t.key_domain_max_
             \/ t.nodes[i].next_leaf_ \in Leaves(t) \ {i} /\ from[t.nodes[i].next_leaf_] = to[i]
          /\ \/ t.nodes[i].prev_leaf_ = NoNode /\ from[i] = t.key_domain_min_
             \/ t.nodes[i].prev_leaf_ \in Leaves(t) \ {i} /\ to[t.nodes[i].prev_leaf_] = from[i]
  BY <1>0 DEF WellFormed, IsChained
<1>7. \A i, j \in Leaves(t) : i # j => to[i] <= from[j] \/ to[j] <= from[i]
  BY <1>0 DEF WellFormed, AreApart
\* Two leaves with the same end, or beginning, are one.
<1>8. ASSUME NEW i \in Leaves(t), NEW j \in Leaves(t), from[i] = from[j] \/ to[i] = to[j]
      PROVE  i = j
  BY <1>1, <1>5, <1>7, <1>8
<1>9. prev \in Leaves(t) => prev # next
  <2>1. ASSUME prev \in Leaves(t), prev = next PROVE FALSE
    <3>1. /\ \A c \in Leaves(t) : c # NoNode
      BY <1>0, <1>1, DivisionFacts DEF NoNode
    <3>2. to[prev] = from[old] /\ from[prev] = to[old]
      BY <1>1, <1>6, <2>1, <3>1
    <3> QED
      BY <1>1, <1>2, <1>5, <2>1, <3>2
  <2> QED
    BY <2>1
<1>10. 1 \in 1 .. count /\ count \in 1 .. count
  BY <1>2
<1>11. from2[NewLeaf(t, 1)] = from[old] /\ to2[NewLeaf(t, count)] = to[old]
  BY <1>3, <1>10
\* A leaf that stays is linked as before, or to an end of the new leaves.
<1>12. ASSUME NEW i \in Leaves(t), i # old
       PROVE  /\ \/ t2.nodes[i].next_leaf_ = NoNode /\ to2[i] = t.key_domain_max_
                 \/ /\ t2.nodes[i].next_leaf_ \in Leaves(t2) \ {i}
                    /\ from2[t2.nodes[i].next_leaf_] = to2[i]
              /\ \/ t2.nodes[i].prev_leaf_ = NoNode /\ from2[i] = t.key_domain_min_
                 \/ /\ t2.nodes[i].prev_leaf_ \in Leaves(t2) \ {i}
                    /\ to2[t2.nodes[i].prev_leaf_] = from2[i]
  <2>1. i \in Nodes(t) /\ from2[i] = from[i] /\ to2[i] = to[i]
    BY <1>1, <1>3, <1>12
  <2>2. \/ t2.nodes[i].next_leaf_ = NoNode /\ to2[i] = t.key_domain_max_
        \/ /\ t2.nodes[i].next_leaf_ \in Leaves(t2) \ {i}
           /\ from2[t2.nodes[i].next_leaf_] = to2[i]
    <3>1. CASE i = prev
      <4>1. t2.nodes[i].next_leaf_ = NewLeaf(t, 1)
        BY <1>4, <1>12, <3>1
      <4>2. to[i] = from[old]
        <5>1. i # NoNode
          BY <1>0, <2>1, DivisionFacts DEF NoNode
        <5> QED
          BY <1>1, <1>6, <3>1, <5>1
      <4>3. NewLeaf(t, 1) \in Leaves(t2) \ {i}
        BY <1>2, <1>10, <1>12
      <4> QED
        BY <1>11, <2>1, <4>1, <4>2, <4>3
    <3>2. CASE i # prev
      <4>1. t2.nodes[i].next_leaf_ = t.nodes[i].next_leaf_
        BY <1>4, <1>12, <3>2
      <4>2. CASE t.nodes[i].next_leaf_ = NoNode /\ to[i] = t.key_domain_max_
        BY <2>1, <4>1, <4>2
      <4>3. CASE /\ t.nodes[i].next_leaf_ \in Leaves(t) \ {i}
                 /\ from[t.nodes[i].next_leaf_] = to[i]
        <5> DEFINE q == t.nodes[i].next_leaf_
        <5>1. q # old
          <6>1. ASSUME q = old PROVE FALSE
            <7>1. to[i] = from[old]
              BY <4>3, <6>1
            <7>2. prev \in Leaves(t) /\ to[prev] = from[old]
              <8>1. \/ prev = NoNode /\ from[old] = t.key_domain_min_
                    \/ prev \in Leaves(t) \ {old} /\ to[prev] = from[old]
                BY <1>1, <1>6
              <8>2. from[old] # t.key_domain_min_
                <9>1. t.key_domain_min_ <= from[i] /\ from[i] < to[i] /\ from[i] \in Int
                      /\ to[i] \in Int /\ t.key_domain_min_ \in Int
                  BY <1>0, <1>2, <2>1, RegionFacts
                <9> QED
                  BY <7>1, <9>1
              <8> QED
                BY <8>1, <8>2
            <7>3. i = prev
              BY <1>8, <7>1, <7>2
            <7> QED
              BY <3>2, <7>3
          <6> QED
            BY <6>1
        <5>2. q \in Leaves(t2) \ {i} /\ from2[q] = from[q]
          BY <1>1, <1>2, <1>3, <4>3, <5>1
        <5> QED
          BY <2>1, <4>1, <4>3, <5>2
      <4> QED
        BY <1>6, <4>2, <4>3
    <3> QED
      BY <3>1, <3>2
  <2>3. \/ t2.nodes[i].prev_leaf_ = NoNode /\ from2[i] = t.key_domain_min_
        \/ /\ t2.nodes[i].prev_leaf_ \in Leaves(t2) \ {i}
           /\ to2[t2.nodes[i].prev_leaf_] = from2[i]
    <3>1. CASE i = next
      <4>0. i # prev
        BY <1>9, <1>12, <3>1
      <4>1. t2.nodes[i].prev_leaf_ = NewLeaf(t, count)
        BY <1>4, <1>12, <3>1, <4>0
      <4>2. from[i] = to[old]
        <5>1. i # NoNode
          BY <1>0, <2>1, DivisionFacts DEF NoNode
        <5> QED
          BY <1>1, <1>6, <3>1, <5>1
      <4>3. NewLeaf(t, count) \in Leaves(t2) \ {i}
        BY <1>2, <1>10, <1>12
      <4> QED
        BY <1>11, <2>1, <4>1, <4>2, <4>3
    <3>2. CASE i # next
      <4>1. t2.nodes[i].prev_leaf_ = t.nodes[i].prev_leaf_
        BY <1>4, <1>12, <3>2
      <4>2. CASE t.nodes[i].prev_leaf_ = NoNode /\ from[i] = t.key_domain_min_
        BY <2>1, <4>1, <4>2
      <4>3. CASE /\ t.nodes[i].prev_leaf_ \in Leaves(t) \ {i}
                 /\ to[t.nodes[i].prev_leaf_] = from[i]
        <5> DEFINE q == t.nodes[i].prev_leaf_
        <5>1. q # old
          <6>1. ASSUME q = old PROVE FALSE
            <7>1. from[i] = to[old]
              BY <4>3, <6>1
            <7>2. next \in Leaves(t) /\ from[next] = to[old]
              <8>1. \/ next = NoNode /\ to[old] = t.key_domain_max_
                    \/ next \in Leaves(t) \ {old} /\ from[next] = to[old]
                BY <1>1, <1>6
              <8>2. to[old] # t.key_domain_max_
                <9>1. to[i] <= t.key_domain_max_ /\ from[i] < to[i] /\ from[i] \in Int
                      /\ to[i] \in Int /\ t.key_domain_max_ \in Int
                  BY <1>0, <1>2, <2>1, RegionFacts
                <9> QED
                  BY <7>1, <9>1
              <8> QED
                BY <8>1, <8>2
            <7>3. i = next
              BY <1>8, <7>1, <7>2
            <7> QED
              BY <3>2, <7>3
          <6> QED
            BY <6>1
        <5>2. q \in Leaves(t2) \ {i} /\ to2[q] = to[q]
          BY <1>1, <1>2, <1>3, <4>3, <5>1
        <5> QED
          BY <2>1, <4>1, <4>3, <5>2
      <4> QED
        BY <1>6, <4>2, <4>3
    <3> QED
      BY <3>1, <3>2
  <2> QED
    BY <2>2, <2>3
<1>13. ASSUME NEW j \in 1 .. count
       PROVE  LET l == NewLeaf(t, j)
              IN  /\ \/ t2.nodes[l].next_leaf_ = NoNode /\ to2[l] = t.key_domain_max_
                     \/ /\ t2.nodes[l].next_leaf_ \in Leaves(t2) \ {l}
                        /\ from2[t2.nodes[l].next_leaf_] = to2[l]
                  /\ \/ t2.nodes[l].prev_leaf_ = NoNode /\ from2[l] = t.key_domain_min_
                     \/ /\ t2.nodes[l].prev_leaf_ \in Leaves(t2) \ {l}
                        /\ to2[t2.nodes[l].prev_leaf_] = from2[l]
  <2> DEFINE l == NewLeaf(t, j)
  <2>1. \/ t2.nodes[l].next_leaf_ = NoNode /\ to2[l] = t.key_domain_max_
        \/ /\ t2.nodes[l].next_leaf_ \in Leaves(t2) \ {l}
           /\ from2[t2.nodes[l].next_leaf_] = to2[l]
    <3>1. CASE j = count
      <4>1. t2.nodes[l].next_leaf_ = next /\ to2[l] = to[old]
        BY <1>4, <1>11, <3>1
      <4>2. CASE next = NoNode /\ to[old] = t.key_domain_max_
        BY <4>1, <4>2
      <4>3. CASE next \in Leaves(t) \ {old} /\ from[next] = to[old]
        <5>1. next \in Leaves(t2) \ {l} /\ from2[next] = from[next]
          BY <1>1, <1>2, <1>3, <4>3
        <5> QED
          BY <4>1, <4>3, <5>1
      <4> QED
        BY <1>1, <1>6, <4>2, <4>3
    <3>2. CASE j # count
      <4>1. j + 1 \in 1 .. count /\ (j + 1) - 1 = j /\ j + 1 # j
        BY <1>2, <3>2
      <4>2. t2.nodes[l].next_leaf_ = NewLeaf(t, j + 1)
        BY <1>4, <3>2
      <4>3. NewLeaf(t, j + 1) \in Leaves(t2) \ {l}
        BY <1>2, <4>1
      <4>4. from2[NewLeaf(t, j + 1)] = to2[l]
        BY <1>3, <4>1
      <4> QED
        BY <4>2, <4>3, <4>4
    <3> QED
      BY <3>1, <3>2
  <2>2. \/ t2.nodes[l].prev_leaf_ = NoNode /\ from2[l] = t.key_domain_min_
        \/ /\ t2.nodes[l].prev_leaf_ \in Leaves(t2) \ {l}
           /\ to2[t2.nodes[l].prev_leaf_] = from2[l]
    <3>1. CASE j = 1
      <4>1. t2.nodes[l].prev_leaf_ = prev /\ from2[l] = from[old]
        BY <1>4, <1>11, <3>1
      <4>2. CASE prev = NoNode /\ from[old] = t.key_domain_min_
        BY <4>1, <4>2
      <4>3. CASE prev \in Leaves(t) \ {old} /\ to[prev] = from[old]
        <5>1. prev \in Leaves(t2) \ {l} /\ to2[prev] = to[prev]
          BY <1>1, <1>2, <1>3, <4>3
        <5> QED
          BY <4>1, <4>3, <5>1
      <4> QED
        BY <1>1, <1>6, <4>2, <4>3
    <3>2. CASE j # 1
      <4>1. j - 1 \in 1 .. count /\ j - 1 # j
        BY <1>2, <3>2
      <4>2. t2.nodes[l].prev_leaf_ = NewLeaf(t, j - 1)
        BY <1>4, <3>2
      <4>3. NewLeaf(t, j - 1) \in Leaves(t2) \ {l}
        BY <1>2, <4>1
      <4>4. to2[NewLeaf(t, j - 1)] = from2[l]
        BY <1>3, <4>1
      <4> QED
        BY <4>2, <4>3, <4>4
    <3> QED
      BY <3>1, <3>2
  <2> QED
    BY <2>1, <2>2
<1>14. ASSUME NEW i \in Leaves(t2)
       PROVE  /\ \/ t2.nodes[i].next_leaf_ = NoNode /\ to2[i] = t2.key_domain_max_
                 \/ /\ t2.nodes[i].next_leaf_ \in Leaves(t2) \ {i}
                    /\ from2[t2.nodes[i].next_leaf_] = to2[i]
              /\ \/ t2.nodes[i].prev_leaf_ = NoNode /\ from2[i] = t2.key_domain_min_
                 \/ /\ t2.nodes[i].prev_leaf_ \in Leaves(t2) \ {i}
                    /\ to2[t2.nodes[i].prev_leaf_] = from2[i]
  <2>1. CASE i \in Leaves(t) /\ i # old
    BY <1>4, <1>12, <2>1
  <2>2. CASE \E j \in 1 .. count : i = NewLeaf(t, j)
    BY <1>4, <1>13, <2>2
  <2> QED
    BY <1>2, <2>1, <2>2
<1> QED
  BY <1>14 DEF IsChained

\* A key is in the tree if it is in a leaf.
LEMMA KeysFacts ==
    ASSUME NEW t
    PROVE  \A k : k \in Keys(t) <=> \E i \in Leaves(t) : k \in t.nodes[i].keys
BY DEF Keys

\* A division keeps each key where lookups look for it, and loses none.
LEMMA DivisionKeepsKeys ==
    ASSUME NEW t, NEW parent, NEW first, NEW from, NEW to,
           NEW old, NEW p, NEW ends, NEW factors, NEW count,
           NEW t2, NEW parent2, NEW first2, NEW from2, NEW to2,
           Divides(t, parent, first, from, to, old, p, ends, factors, count,
                   t2, parent2, first2, from2, to2)
    PROVE  /\ IsRouted(t2, from2, to2)
           /\ Keys(t2) = Keys(t)
           /\ \A key \in Int : IsIn(t, from, to, old, key) =>
                  /\ \E j \in 1 .. count : IsIn(t2, from2, to2, NewLeaf(t, j), key)
                  /\ IsIn(t2, from2, to2, p, key)
<1> DEFINE e(j) == Edge(t.nodes[p], ends[j])
<1>0. /\ WellFormed(t, parent, first, from, to)
      /\ TakesRun(t, parent, first, old, p, ends, factors, count)
      /\ IsDivision(t, t2, old, p, ends, factors, count)
      /\ parent2 = DividedParent(t, t2, parent, p)
      /\ first2 = DividedFirst(t, t2, first, ends)
      /\ from2 = DividedFrom(t, t2, from, p, ends)
      /\ to2 = DividedTo(t, t2, to, p, ends)
  BY DEF Divides
<1>1. /\ IsTree(t) /\ HasRuns(t, parent, first)
      /\ parent \in [Nodes(t) -> Models(t)] /\ first \in [Nodes(t) -> Nat]
  BY <1>0, WellFormedParts
<1>2. old \in Leaves(t) /\ parent[old] = p /\ p # Superroot
      /\ ends[0] = first[old] /\ ends[count] = first[old] + Repeats(t.nodes[old])
  BY <1>0 DEF TakesRun
<1>3. \A i \in Leaves(t) : i \in Nodes(t) /\ t.nodes[i].keys \subseteq Key
  BY <1>1, NodeFacts
<1>4. /\ old \in Nodes(t) /\ p \in Nodes(t) /\ p \in Models(t) /\ old # p
      /\ ~t.nodes[Root(t)].is_leaf_ /\ ~t2.nodes[Root(t2)].is_leaf_
      /\ count \in Nat /\ count > 0
      /\ \A j \in 1 .. count : NewLeaf(t, j) \in Leaves(t2)
      /\ \A i \in Leaves(t) : i # old => i \in Leaves(t2)
      /\ \A i \in Leaves(t2) : \/ i \in Leaves(t) /\ i # old
                               \/ \E j \in 1 .. count : i = NewLeaf(t, j)
  BY <1>0, DivisionFacts
<1>5. /\ \A i \in Nodes(t) : i # old => from2[i] = from[i] /\ to2[i] = to[i]
      /\ \A j \in 1 .. count : from2[NewLeaf(t, j)] = e(j - 1) /\ to2[NewLeaf(t, j)] = e(j)
      /\ from[old] = e(0) /\ to[old] = e(count)
      /\ \A i, j \in 0 .. count : e(i) \in Int /\ (i < j => e(i) < e(j))
  BY <1>0, DivisionGhosts
<1>6. /\ t2.key_domain_min_ = t.key_domain_min_ /\ t2.key_domain_max_ = t.key_domain_max_
      /\ \A i \in Leaves(t) \ {old} : t2.nodes[i].keys = t.nodes[i].keys
      /\ \A j \in 1 .. count :
             t2.nodes[NewLeaf(t, j)].keys = Part(t.nodes[p], t.nodes[old].keys, ends, count, j)
  BY <1>0 DEF IsDivision
<1>7. /\ t.key_domain_min_ \in Int /\ t.key_domain_max_ \in Int
      /\ t.key_domain_min_ < t.key_domain_max_
      /\ \A c \in Nodes(t) : /\ from[c] \in Int /\ to[c] \in Int
                             /\ t.key_domain_min_ <= from[c] /\ to[c] <= t.key_domain_max_
  BY <1>0, <1>4, RegionFacts
<1>8. \A key : Clamped(t2, key) = Clamped(t, key)
  BY <1>6 DEF Clamped
<1>9. \A i \in Leaves(t) : \A key \in t.nodes[i].keys : IsIn(t, from, to, i, key)
  BY <1>0, <1>4 DEF WellFormed, IsRouted
<1>10. \A j : t2.nodes[NewLeaf(t, j)].keys = t2.nodes[NewLeaf(t, j)].keys
  OBVIOUS
<1>11. ASSUME NEW j \in 1 .. count, NEW k
       PROVE  k \in t2.nodes[NewLeaf(t, j)].keys <=>
                  /\ k \in t.nodes[old].keys
                  /\ j > 1 => e(j - 1) <= k
                  /\ j < count => k < e(j)
  BY <1>6 DEF Part
<1> HIDE DEF e
<1>12. ASSUME NEW j \in 1 .. count, NEW k \in Int, IsIn(t, from, to, old, k),
              j > 1 => e(j - 1) <= k,
              j < count => k < e(j)
       PROVE  IsIn(t2, from2, to2, NewLeaf(t, j), k)
  <2> DEFINE x == Clamped(t, k)
             least == t.key_domain_min_
             greatest == t.key_domain_max_
  <2>1. /\ x \in Int
        /\ \A y \in Int : least < y /\ y < greatest => (k < y <=> x < y)
    BY <1>7, ClampedFacts
  <2>2. from[old] <= x /\ x < to[old] /\ least <= from[old] /\ to[old] <= greatest
    BY <1>4, <1>7, <1>12 DEF IsIn
  <2>3. least \in Int /\ greatest \in Int
    BY <1>7
  <2>4. /\ j - 1 \in 0 .. count /\ j \in 0 .. count /\ 0 \in 0 .. count /\ count \in 0 .. count
        /\ j - 1 < count /\ 0 < j
    BY <1>4
  <2>5. /\ e(j - 1) \in Int /\ e(j) \in Int /\ e(0) \in Int /\ e(count) \in Int
        /\ e(j - 1) < e(count) /\ e(0) < e(j)
        /\ j > 1 => e(0) < e(j - 1)
        /\ j < count => e(j) < e(count)
    BY <1>4, <1>5, <2>4
  <2> HIDE DEF x, least, greatest
  <2>6. e(j - 1) <= x
    <3>1. CASE j = 1
      <4>1. j - 1 = 0
        BY <3>1
      <4> QED
        BY <1>5, <2>2, <4>1
    <3>2. CASE j > 1
      <4>1. least < e(j - 1) /\ e(j - 1) < greatest
        BY <1>5, <2>2, <2>3, <2>5, <3>2
      <4>2. k < e(j - 1) <=> x < e(j - 1)
        BY <2>1, <2>5, <4>1
      <4> QED
        BY <1>12, <2>1, <2>5, <3>2, <4>2
    <3> QED
      BY <2>4, <3>1, <3>2
  <2>7. x < e(j)
    <3>1. CASE j = count
      BY <1>5, <2>2, <3>1
    <3>2. CASE j < count
      <4>1. least < e(j) /\ e(j) < greatest
        BY <1>5, <2>2, <2>3, <2>5, <3>2
      <4>2. k < e(j) <=> x < e(j)
        BY <2>1, <2>5, <4>1
      <4> QED
        BY <1>12, <3>2, <4>2
    <3> QED
      BY <1>4, <3>1, <3>2
  <2>8. from2[NewLeaf(t, j)] <= x /\ x < to2[NewLeaf(t, j)]
    BY <1>5, <2>6, <2>7
  <2> QED
    BY <1>8, <2>8 DEF IsIn, x
<1>13. ASSUME NEW k \in Int
       PROVE  \E j \in 1 .. count : /\ j > 1 => e(j - 1) <= k
                                    /\ j < count => k < e(j)
  <2> DEFINE past == {j \in 1 .. count : j = count \/ k < e(j)}
  <2>1. past \in SUBSET Nat /\ count \in past
    BY <1>4
  <2>2. PICK j \in past : \A i \in past : j <= i
    BY <2>1, LeastElement
  <2>3. j \in 1 .. count /\ (j < count => k < e(j))
    BY <2>2
  <2>4. j > 1 => e(j - 1) <= k
    <3>1. SUFFICES ASSUME j > 1 PROVE e(j - 1) <= k
      OBVIOUS
    <3>2. j - 1 \in 1 .. count /\ j - 1 \in 0 .. count /\ j - 1 \notin past
      BY <1>4, <2>2, <2>3, <3>1
    <3>3. e(j - 1) \in Int
      BY <1>5, <3>2
    <3> QED
      BY <3>2, <3>3
  <2> QED
    BY <2>3, <2>4
<1>14. IsRouted(t2, from2, to2)
  <2>1. SUFFICES ASSUME NEW i \in Leaves(t2), NEW k \in t2.nodes[i].keys
                 PROVE  IsIn(t2, from2, to2, i, k)
    BY DEF IsRouted
  <2>2. CASE i \in Leaves(t) /\ i # old
    <3>1. k \in t.nodes[i].keys
      BY <1>6, <2>1, <2>2
    <3>2. IsIn(t, from, to, i, k)
      BY <1>9, <2>2, <3>1
    <3> QED
      BY <1>3, <1>5, <1>8, <2>2, <3>2 DEF IsIn
  <2>3. ASSUME NEW j \in 1 .. count, i = NewLeaf(t, j)
        PROVE  IsIn(t2, from2, to2, i, k)
    <3>1. /\ k \in t.nodes[old].keys
          /\ j > 1 => e(j - 1) <= k
          /\ j < count => k < e(j)
      BY <1>11, <2>1, <2>3
    <3>2. k \in Int /\ IsIn(t, from, to, old, k)
      BY <1>2, <1>3, <1>9, <3>1, KeysAreWithinTheType
    <3> QED
      BY <1>12, <2>3, <3>1, <3>2
  <2> QED
    BY <1>4, <2>2, <2>3
<1>15. ASSUME NEW k
       PROVE  k \in Keys(t2) <=> k \in Keys(t)
  <2>1. ASSUME k \in Keys(t) PROVE k \in Keys(t2)
    <3>1. PICK i \in Leaves(t) : k \in t.nodes[i].keys
      BY <2>1, KeysFacts
    <3>2. CASE i # old
      <4>1. i \in Leaves(t2) /\ k \in t2.nodes[i].keys
        BY <1>4, <1>6, <3>1, <3>2
      <4> QED
        BY <4>1, KeysFacts
    <3>3. CASE i = old
      <4>1. k \in Int
        BY <1>3, <3>1, KeysAreWithinTheType
      <4>2. PICK j \in 1 .. count : /\ j > 1 => e(j - 1) <= k
                                    /\ j < count => k < e(j)
        BY <1>13, <4>1
      <4>3. k \in t2.nodes[NewLeaf(t, j)].keys
        BY <1>11, <3>1, <3>3, <4>2
      <4> QED
        BY <1>4, <4>3, KeysFacts
    <3> QED
      BY <3>2, <3>3
  <2>2. ASSUME k \in Keys(t2) PROVE k \in Keys(t)
    <3>1. PICK i \in Leaves(t2) : k \in t2.nodes[i].keys
      BY <2>2, KeysFacts
    <3>2. CASE i \in Leaves(t) /\ i # old
      BY <1>6, <3>1, <3>2, KeysFacts
    <3>3. CASE \E j \in 1 .. count : i = NewLeaf(t, j)
      <4>1. k \in t.nodes[old].keys
        BY <1>11, <3>1, <3>3
      <4> QED
        BY <1>2, <4>1, KeysFacts
    <3> QED
      BY <1>4, <3>1, <3>2, <3>3
  <2> QED
    BY <2>1, <2>2
<1>16. Keys(t2) = Keys(t)
  <2>1. \A k : k \in Keys(t2) <=> k \in Keys(t)
    BY <1>15
  <2> QED
    BY <2>1
<1>17. ASSUME NEW key \in Int, IsIn(t, from, to, old, key)
       PROVE  /\ \E j \in 1 .. count : IsIn(t2, from2, to2, NewLeaf(t, j), key)
              /\ IsIn(t2, from2, to2, p, key)
  <2>1. \E j \in 1 .. count : IsIn(t2, from2, to2, NewLeaf(t, j), key)
    BY <1>12, <1>13, <1>17
  <2>2. from[p] <= from[old] /\ to[old] <= to[p]
    <3> DEFINE n == t.nodes[p]
               s == first[old]
               r == Repeats(t.nodes[old])
    <3>1. /\ from[p] = Edge(n, 0) /\ to[p] = Edge(n, n.num_children_)
          /\ from[old] = Edge(n, s) /\ to[old] = Edge(n, s + r)
      BY <1>0, <1>2, <1>4, RegionFacts
    <3>2. /\ s \in Nat /\ r \in Nat /\ s + r <= n.num_children_ /\ n.num_children_ \in Nat
      BY <1>1, <1>2, <1>4, RunFacts, NodeFacts
    <3>3. n.start \in Int /\ n.width \in Nat /\ n.width > 0
      BY <1>1, <1>4, NodeFacts
    <3> HIDE DEF n, s, r
    <3>4. \A a, b \in Int : /\ Edge(n, a) \in Int
                            /\ a < b <=> Edge(n, a) < Edge(n, b)
                            /\ a = b <=> Edge(n, a) = Edge(n, b)
      BY <3>3, EdgesGrow
    <3>5. 0 \in Int /\ s \in Int /\ s + r \in Int /\ n.num_children_ \in Int
      BY <3>2
    <3>6. Edge(n, 0) <= Edge(n, s) /\ Edge(n, s + r) <= Edge(n, n.num_children_)
      BY <3>2, <3>4, <3>5
    <3> QED
      BY <3>1, <3>6
  <2>3. Clamped(t, key) \in Int
    BY <1>7, ClampedFacts
  <2>4. IsIn(t2, from2, to2, p, key)
    <3>1. from[old] <= Clamped(t, key) /\ Clamped(t, key) < to[old]
      BY <1>17 DEF IsIn
    <3>2. from2[p] = from[p] /\ to2[p] = to[p]
      BY <1>4, <1>5
    <3>3. from[p] \in Int /\ to[p] \in Int /\ from[old] \in Int /\ to[old] \in Int
      BY <1>4, <1>7
    <3>4. from2[p] <= Clamped(t, key) /\ Clamped(t, key) < to2[p]
      BY <2>2, <2>3, <3>1, <3>2, <3>3
    <3> QED
      BY <1>8, <3>4 DEF IsIn
  <2> QED
    BY <2>1, <2>4
<1> QED
  BY <1>14, <1>16, <1>17

\* So a divided tree is well-formed.
LEMMA DivisionIsWellFormed ==
    ASSUME NEW t, NEW parent, NEW first, NEW from, NEW to,
           WellFormed(t, parent, first, from, to),
           NEW t2, NEW old, NEW p, NEW ends, NEW factors, NEW count,
           TakesRun(t, parent, first, old, p, ends, factors, count),
           IsDivision(t, t2, old, p, ends, factors, count)
    PROVE  /\ Keys(t2) = Keys(t)
           /\ ~t2.nodes[Root(t2)].is_leaf_
           /\ \E parent2, first2, from2, to2 :
                  /\ WellFormed(t2, parent2, first2, from2, to2)
                  /\ \A j \in 1 .. count : /\ parent2[NewLeaf(t, j)] = p
                                           /\ NewLeaf(t, j) \in Leaves(t2)
                  /\ p \in Models(t2) /\ p # Superroot
                  /\ \A key \in Int : IsIn(t, from, to, old, key) =>
                         /\ \E j \in 1 .. count : IsIn(t2, from2, to2, NewLeaf(t, j), key)
                         /\ IsIn(t2, from2, to2, p, key)
<1> DEFINE parent2 == DividedParent(t, t2, parent, p)
           first2 == DividedFirst(t, t2, first, ends)
           from2 == DividedFrom(t, t2, from, p, ends)
           to2 == DividedTo(t, t2, to, p, ends)
<1>1. Divides(t, parent, first, from, to, old, p, ends, factors, count,
              t2, parent2, first2, from2, to2)
  BY DEF Divides
<1>2. /\ AreGhosts(t2, parent2, first2, from2, to2)
      /\ \A j \in 1 .. count : parent2[NewLeaf(t, j)] = p
  BY DivisionGhosts
<1> HIDE DEF parent2, first2, from2, to2
<1>3. HasRuns(t2, parent2, first2)
  BY <1>1, DivisionKeepsRuns
<1>4. HasRegions(t2, parent2, first2, from2, to2) /\ HasDomain(t2, from2, to2)
      /\ AreApart(t2, from2, to2)
  BY <1>1, DivisionKeepsRegions
<1>5. IsChained(t2, from2, to2)
  BY <1>1, DivisionKeepsChain
<1>6. /\ IsRouted(t2, from2, to2)
      /\ Keys(t2) = Keys(t)
      /\ \A key \in Int : IsIn(t, from, to, old, key) =>
             /\ \E j \in 1 .. count : IsIn(t2, from2, to2, NewLeaf(t, j), key)
             /\ IsIn(t2, from2, to2, p, key)
  BY <1>1, DivisionKeepsKeys
<1>7. IsTree(t2)
  BY DEF IsDivision
<1>8. /\ ~t2.nodes[Root(t2)].is_leaf_ /\ p \in Models(t2)
      /\ \A j \in 1 .. count : NewLeaf(t, j) \in Leaves(t2)
  BY DivisionFacts
<1>9. p # Superroot
  BY DEF TakesRun
<1>10. WellFormed(t2, parent2, first2, from2, to2)
  BY <1>2, <1>3, <1>4, <1>5, <1>6, <1>7 DEF WellFormed
<1> QED
  BY <1>2, <1>6, <1>8, <1>9, <1>10

-----------------------------------------------------------------------------
(* Assignments to members.                                                 *)

\* A leaf with another next leaf.
LEMMA LeafWithNext ==
    ASSUME NEW n \in LeafNodes, NEW v \in Int
    PROVE  LET m == [n EXCEPT !.next_leaf_ = v]
           IN  /\ m \in LeafNodes /\ m.is_leaf_ /\ m.level_ = n.level_
               /\ m.duplication_factor_ = n.duplication_factor_ /\ m.keys = n.keys
               /\ m.prev_leaf_ = n.prev_leaf_ /\ m.next_leaf_ = v
BY DEF LeafNodes

\* A leaf with another previous leaf.
LEMMA LeafWithPrev ==
    ASSUME NEW n \in LeafNodes, NEW v \in Int
    PROVE  LET m == [n EXCEPT !.prev_leaf_ = v]
           IN  /\ m \in LeafNodes /\ m.is_leaf_ /\ m.level_ = n.level_
               /\ m.duplication_factor_ = n.duplication_factor_ /\ m.keys = n.keys
               /\ m.prev_leaf_ = v /\ m.next_leaf_ = n.next_leaf_
BY DEF LeafNodes

\* A leaf with other neighbours.
LEMMA LeafWithLinks ==
    ASSUME NEW n \in LeafNodes, NEW v \in Int, NEW w \in Int
    PROVE  LET m == [n EXCEPT !.prev_leaf_ = v, !.next_leaf_ = w]
           IN  /\ m \in LeafNodes /\ m.is_leaf_ /\ m.level_ = n.level_
               /\ m.duplication_factor_ = n.duplication_factor_ /\ m.keys = n.keys
               /\ m.prev_leaf_ = v /\ m.next_leaf_ = w
BY DEF LeafNodes

\* A leaf with another duplication factor.
LEMMA LeafWithDuplication ==
    ASSUME NEW n \in LeafNodes, NEW d \in Nat
    PROVE  LET m == [n EXCEPT !.duplication_factor_ = d]
           IN  /\ m \in LeafNodes /\ m.is_leaf_ /\ m.level_ = n.level_
               /\ m.duplication_factor_ = d /\ m.keys = n.keys
               /\ m.prev_leaf_ = n.prev_leaf_ /\ m.next_leaf_ = n.next_leaf_
BY DEF LeafNodes

\* A leaf with other keys.
LEMMA LeafWithKeys ==
    ASSUME NEW n \in LeafNodes, NEW S \in SUBSET Key
    PROVE  LET m == [n EXCEPT !.keys = S]
           IN  /\ m \in LeafNodes /\ m.is_leaf_ /\ m.level_ = n.level_
               /\ m.duplication_factor_ = n.duplication_factor_ /\ m.keys = S
               /\ m.prev_leaf_ = n.prev_leaf_ /\ m.next_leaf_ = n.next_leaf_
BY DEF LeafNodes

\* A new leaf is a leaf.
LEMMA NewDataNodeFacts ==
    ASSUME NEW K \in SUBSET Key, NEW level \in Int, NEW d \in Nat
    PROVE  LET m == NewDataNode(K, level, d)
           IN  /\ m \in LeafNodes /\ m.is_leaf_ /\ m.level_ = level
               /\ m.duplication_factor_ = d /\ m.keys = K
               /\ m.prev_leaf_ = NoNode /\ m.next_leaf_ = NoNode
BY DEF NewDataNode, LeafNodes, NoNode

\* A model node with other children.
LEMMA ModelWithChildren ==
    ASSUME NEW n, IsModel(n), NEW c \in [0 .. n.num_children_ - 1 -> Int]
    PROVE  LET m == [n EXCEPT !.children_ = c]
           IN  /\ IsModel(m) /\ ~m.is_leaf_ /\ m.level_ = n.level_
               /\ m.duplication_factor_ = n.duplication_factor_
               /\ m.start = n.start /\ m.width = n.width
               /\ m.num_children_ = n.num_children_ /\ m.children_ = c
<1> DEFINE m == [n EXCEPT !.children_ = c]
<1>1. /\ IsModel(m) /\ m.is_leaf_ = FALSE /\ m.level_ = n.level_
      /\ m.duplication_factor_ = n.duplication_factor_
      /\ m.start = n.start /\ m.width = n.width
      /\ m.num_children_ = n.num_children_ /\ m.children_ = c
  BY DEF IsModel
<1> QED
  BY <1>1

\* A model node with another level.
LEMMA ModelWithLevel ==
    ASSUME NEW n, IsModel(n), NEW l \in Int
    PROVE  LET m == [n EXCEPT !.level_ = l]
           IN  /\ IsModel(m) /\ ~m.is_leaf_ /\ m.level_ = l
               /\ m.duplication_factor_ = n.duplication_factor_
               /\ m.start = n.start /\ m.width = n.width
               /\ m.num_children_ = n.num_children_ /\ m.children_ = n.children_
<1> DEFINE m == [n EXCEPT !.level_ = l]
<1>1. /\ IsModel(m) /\ m.is_leaf_ = FALSE /\ m.level_ = l
      /\ m.duplication_factor_ = n.duplication_factor_
      /\ m.start = n.start /\ m.width = n.width
      /\ m.num_children_ = n.num_children_ /\ m.children_ = n.children_
  BY DEF IsModel
<1> QED
  BY <1>1

\* A model node with another duplication factor.
LEMMA ModelWithDuplication ==
    ASSUME NEW n, IsModel(n), NEW d \in Nat
    PROVE  LET m == [n EXCEPT !.duplication_factor_ = d]
           IN  /\ IsModel(m) /\ ~m.is_leaf_ /\ m.level_ = n.level_
               /\ m.duplication_factor_ = d
               /\ m.start = n.start /\ m.width = n.width
               /\ m.num_children_ = n.num_children_ /\ m.children_ = n.children_
<1> DEFINE m == [n EXCEPT !.duplication_factor_ = d]
<1>1. /\ IsModel(m) /\ m.is_leaf_ = FALSE /\ m.level_ = n.level_
      /\ m.duplication_factor_ = d
      /\ m.start = n.start /\ m.width = n.width
      /\ m.num_children_ = n.num_children_ /\ m.children_ = n.children_
  BY DEF IsModel
<1> QED
  BY <1>1

\* The members of a new model node.
IsModelOf(m, level, d, start, width, num) ==
    /\ IsModel(m) /\ ~m.is_leaf_ /\ m.level_ = level
    /\ m.duplication_factor_ = d
    /\ m.start = start /\ m.width = width
    /\ m.num_children_ = num

\* A new model node is one, with the members it is given.
LEMMA NewModelNodeFacts ==
    ASSUME NEW level \in Int, NEW d \in Nat, NEW start \in Int, NEW width \in Nat, width > 0,
           NEW num \in Nat, num > 0
    PROVE  IsModelOf(NewModelNode(level, d, start, width, num, Exact),
                     level, d, start, width, num)
<1> DEFINE c == [i \in 0 .. num - 1 |-> NoNode]
           m == [is_leaf_ |-> FALSE, level_ |-> level,
                 duplication_factor_ |-> d, start |-> start,
                 width |-> width, rounding |-> Exact, num_children_ |-> num,
                 children_ |-> c]
<1>1. c \in [0 .. num - 1 -> Int]
  BY DEF NoNode
<1>2. NewModelNode(level, d, start, width, num, Exact) = m
  BY DEF NewModelNode
<1>3. c = [i \in 0 .. num - 1 |-> NoNode]
  OBVIOUS
<1> HIDE DEF c
<1>4. /\ IsModel(m) /\ m.is_leaf_ = FALSE /\ m.level_ = level
      /\ m.duplication_factor_ = d
      /\ m.start = start /\ m.width = width
      /\ m.num_children_ = num /\ m.children_ = c
  BY <1>1 DEF IsModel
<1> QED
  BY <1>2, <1>3, <1>4 DEF IsModelOf

-----------------------------------------------------------------------------
(* Assignments to the members of a tree.                                   *)

AreNodes(nodes, fresh) ==
    /\ nodes = [i \in DOMAIN nodes |-> nodes[i]]
    /\ fresh \in Nat /\ DOMAIN nodes \subseteq 0 .. fresh - 1
    /\ Superroot \in DOMAIN nodes
    /\ IsModel(nodes[Superroot]) /\ nodes[Superroot].num_children_ = 1
    /\ \A i \in DOMAIN nodes : IsModel(nodes[i]) \/ nodes[i] \in LeafNodes

\* A record of a tree.
TreeOf(nodes, fresh, least, greatest) ==
    [nodes |-> nodes, fresh |-> fresh, key_domain_min_ |-> least, key_domain_max_ |-> greatest]

\* A record of nodes and addresses is a tree.
LEMMA TreeOfFacts ==
    ASSUME NEW nodes, NEW fresh, AreNodes(nodes, fresh), NEW least \in Int, NEW greatest \in Int
    PROVE  LET t == TreeOf(nodes, fresh, least, greatest)
           IN  /\ IsTree(t) /\ t.nodes = nodes /\ t.fresh = fresh
               /\ t.key_domain_min_ = least /\ t.key_domain_max_ = greatest
BY DEF TreeOf, IsTree, AreNodes

\* The nodes of a tree.
LEMMA NodesOfTree ==
    ASSUME NEW t, IsTree(t)
    PROVE  /\ AreNodes(t.nodes, t.fresh)
           /\ t.key_domain_min_ \in Int /\ t.key_domain_max_ \in Int
           /\ t = TreeOf(t.nodes, t.fresh, t.key_domain_min_, t.key_domain_max_)
<1>1. AreNodes(t.nodes, t.fresh) /\ t.key_domain_min_ \in Int /\ t.key_domain_max_ \in Int
  BY DEF IsTree, AreNodes
<1>2. t = TreeOf(t.nodes, t.fresh, t.key_domain_min_, t.key_domain_max_)
  BY DEF IsTree, TreeOf
<1> QED
  BY <1>1, <1>2

\* A tree with other nodes, or another domain.
LEMMA TreeSetters ==
    ASSUME NEW t, IsTree(t), NEW nodes, NEW fresh, NEW least, NEW greatest
    PROVE  /\ [t EXCEPT !.nodes = nodes]
                  = TreeOf(nodes, t.fresh, t.key_domain_min_, t.key_domain_max_)
           /\ [t EXCEPT !.nodes = nodes, !.fresh = fresh]
                  = TreeOf(nodes, fresh, t.key_domain_min_, t.key_domain_max_)
           /\ [t EXCEPT !.nodes = nodes, !.fresh = fresh,
                        !.key_domain_min_ = least, !.key_domain_max_ = greatest]
                  = TreeOf(nodes, fresh, least, greatest)
           /\ [t EXCEPT !.key_domain_min_ = least, !.key_domain_max_ = greatest]
                  = TreeOf(t.nodes, t.fresh, least, greatest)
<1>1. \E n, f, a, b : t = TreeOf(n, f, a, b)
  BY NodesOfTree
<1>2. PICK n, f, a, b : t = TreeOf(n, f, a, b)
  BY <1>1
<1> DEFINE S(x, y, u, v) == [nodes : {x}, fresh : {y}, key_domain_min_ : {u}, key_domain_max_ : {v}]
<1>3. /\ t.nodes = n /\ t.fresh = f /\ t.key_domain_min_ = a /\ t.key_domain_max_ = b
      /\ t \in S(n, f, a, b)
  BY <1>2 DEF TreeOf
<1>4. \A x, y, u, v : \A r \in S(x, y, u, v) : r = TreeOf(x, y, u, v)
  BY DEF TreeOf
<1>5. /\ [t EXCEPT !.nodes = nodes] \in S(nodes, f, a, b)
      /\ [t EXCEPT !.nodes = nodes, !.fresh = fresh] \in S(nodes, fresh, a, b)
      /\ [t EXCEPT !.nodes = nodes, !.fresh = fresh,
                   !.key_domain_min_ = least, !.key_domain_max_ = greatest]
             \in S(nodes, fresh, least, greatest)
      /\ [t EXCEPT !.key_domain_min_ = least, !.key_domain_max_ = greatest]
             \in S(n, f, least, greatest)
  BY <1>3
<1> HIDE DEF S
<1> QED
  BY <1>3, <1>4, <1>5

\* A node that stays what it is, or another in its place.
LEMMA WithNodeFacts ==
    ASSUME NEW t, IsTree(t), NEW i \in DOMAIN t.nodes, NEW n, IsModel(n) \/ n \in LeafNodes,
           i = Superroot => IsModel(n) /\ n.num_children_ = 1
    PROVE  LET t2 == WithNode(t, i, n)
           IN  /\ IsTree(t2) /\ DOMAIN t2.nodes = DOMAIN t.nodes /\ t2.fresh = t.fresh
               /\ t2.key_domain_min_ = t.key_domain_min_
               /\ t2.key_domain_max_ = t.key_domain_max_
               /\ t2.nodes[i] = n
               /\ \A j \in DOMAIN t.nodes : j # i => t2.nodes[j] = t.nodes[j]
<1> DEFINE nodes == [j \in DOMAIN t.nodes |-> IF j = i THEN n ELSE t.nodes[j]]
<1>1. WithNode(t, i, n) = [t EXCEPT !.nodes = nodes]
  BY DEF WithNode
<1>2. AreNodes(t.nodes, t.fresh)
  BY NodesOfTree
<1>3. /\ DOMAIN nodes = DOMAIN t.nodes /\ nodes[i] = n
      /\ \A j \in DOMAIN t.nodes : j # i => nodes[j] = t.nodes[j]
      /\ nodes = [j \in DOMAIN nodes |-> nodes[j]]
  OBVIOUS
<1> HIDE DEF nodes
<1>4. AreNodes(nodes, t.fresh)
  BY <1>2, <1>3 DEF AreNodes
<1> QED
  <2>1. t.key_domain_min_ \in Int /\ t.key_domain_max_ \in Int
    BY NodesOfTree
  <2>2. [t EXCEPT !.nodes = nodes]
            = TreeOf(nodes, t.fresh, t.key_domain_min_, t.key_domain_max_)
    BY TreeSetters
  <2> QED
    BY <1>1, <1>3, <1>4, <2>1, <2>2, TreeOfFacts

\* A node that is no more.
LEMMA DeletedFacts ==
    ASSUME NEW t, IsTree(t), NEW i, i # Superroot
    PROVE  LET t2 == Deleted(t, i)
           IN  /\ IsTree(t2) /\ DOMAIN t2.nodes = DOMAIN t.nodes \ {i} /\ t2.fresh = t.fresh
               /\ t2.key_domain_min_ = t.key_domain_min_
               /\ t2.key_domain_max_ = t.key_domain_max_
               /\ \A j \in DOMAIN t.nodes : j # i => t2.nodes[j] = t.nodes[j]
<1> DEFINE nodes == [j \in DOMAIN t.nodes \ {i} |-> t.nodes[j]]
<1>1. Deleted(t, i) = [t EXCEPT !.nodes = nodes]
  BY DEF Deleted
<1>2. AreNodes(t.nodes, t.fresh)
  BY NodesOfTree
<1>3. /\ DOMAIN nodes = DOMAIN t.nodes \ {i}
      /\ \A j \in DOMAIN t.nodes : j # i => nodes[j] = t.nodes[j]
      /\ nodes = [j \in DOMAIN nodes |-> nodes[j]]
  OBVIOUS
<1> HIDE DEF nodes
<1>4. AreNodes(nodes, t.fresh)
  BY <1>2, <1>3 DEF AreNodes
<1> QED
  <2>1. t.key_domain_min_ \in Int /\ t.key_domain_max_ \in Int
    BY NodesOfTree
  <2>2. [t EXCEPT !.nodes = nodes]
            = TreeOf(nodes, t.fresh, t.key_domain_min_, t.key_domain_max_)
    BY TreeSetters
  <2> QED
    BY <1>1, <1>3, <1>4, <2>1, <2>2, TreeOfFacts

\* Pointers that lead to another child.
LEMMA RedirectedFacts ==
    ASSUME NEW t, IsTree(t), NEW i \in Models(t), NEW start, NEW end, NEW child \in Int
    PROVE  LET t2 == Redirected(t, i, start, end, child)
           IN  /\ IsTree(t2) /\ DOMAIN t2.nodes = DOMAIN t.nodes /\ t2.fresh = t.fresh
               /\ t2.key_domain_min_ = t.key_domain_min_
               /\ t2.key_domain_max_ = t.key_domain_max_
               /\ \A j \in DOMAIN t.nodes : j # i => t2.nodes[j] = t.nodes[j]
               /\ ~t2.nodes[i].is_leaf_
               /\ t2.nodes[i].level_ = t.nodes[i].level_
               /\ t2.nodes[i].duplication_factor_ = t.nodes[i].duplication_factor_
               /\ t2.nodes[i].start = t.nodes[i].start
               /\ t2.nodes[i].width = t.nodes[i].width
               /\ t2.nodes[i].num_children_ = t.nodes[i].num_children_
               /\ \A b \in 0 .. t.nodes[i].num_children_ - 1 :
                      t2.nodes[i].children_[b] =
                          IF start <= b /\ b < end THEN child ELSE t.nodes[i].children_[b]
<1> DEFINE n == t.nodes[i]
           c == [b \in DOMAIN n.children_ |-> IF start <= b /\ b < end THEN child ELSE n.children_[b]]
           m == [n EXCEPT !.children_ = c]
<1>1. IsModel(n) /\ i \in DOMAIN t.nodes /\ n.children_ \in [0 .. n.num_children_ - 1 -> Int]
  BY NodeFacts
<1>2. Redirected(t, i, start, end, child) = WithNode(t, i, m)
  BY DEF Redirected
<1>3. /\ c \in [0 .. n.num_children_ - 1 -> Int]
      /\ \A b \in 0 .. n.num_children_ - 1 :
             c[b] = IF start <= b /\ b < end THEN child ELSE n.children_[b]
  BY <1>1
<1> HIDE DEF c
<1>4. /\ IsModel(m) /\ ~m.is_leaf_ /\ m.level_ = n.level_
      /\ m.duplication_factor_ = n.duplication_factor_
      /\ m.start = n.start /\ m.width = n.width
      /\ m.num_children_ = n.num_children_ /\ m.children_ = c
  BY <1>1, <1>3, ModelWithChildren
<1>5. i = Superroot => m.num_children_ = 1
  <2>1. AreNodes(t.nodes, t.fresh)
    BY NodesOfTree
  <2>2. i = Superroot => n.num_children_ = 1
    BY <2>1 DEF AreNodes
  <2> QED
    BY <1>4, <2>2
<1> HIDE DEF m
<1>6. LET t2 == WithNode(t, i, m)
      IN  /\ IsTree(t2) /\ DOMAIN t2.nodes = DOMAIN t.nodes /\ t2.fresh = t.fresh
          /\ t2.key_domain_min_ = t.key_domain_min_
          /\ t2.key_domain_max_ = t.key_domain_max_
          /\ t2.nodes[i] = m
          /\ \A j \in DOMAIN t.nodes : j # i => t2.nodes[j] = t.nodes[j]
  BY <1>1, <1>4, <1>5, WithNodeFacts
<1> QED
  BY <1>2, <1>3, <1>4, <1>6

-----------------------------------------------------------------------------
\* New leaves take an old one's place in the chain, which keeps its own links.
LEMMA LinkedFacts ==
    ASSUME NEW t, IsTree(t), NEW old \in Leaves(t),
           t.nodes[old].prev_leaf_ = NoNode \/ t.nodes[old].prev_leaf_ \in Leaves(t),
           t.nodes[old].next_leaf_ = NoNode \/ t.nodes[old].next_leaf_ \in Leaves(t),
           NEW count \in Nat, count > 0, NEW leaves, DOMAIN leaves = 1 .. count,
           Len(leaves) = count, \A j \in 1 .. count : leaves[j] \in LeafNodes
    PROVE  LET t2 == link_data_nodes(t, old, leaves)
           IN  /\ IsTree(t2)
               /\ DOMAIN t2.nodes = DOMAIN t.nodes \cup {NewLeaf(t, j) : j \in 1 .. count}
               /\ t2.fresh = t.fresh + count
               /\ t2.key_domain_min_ = t.key_domain_min_
               /\ t2.key_domain_max_ = t.key_domain_max_
               /\ \A i \in Models(t) : t2.nodes[i] = t.nodes[i]
               /\ \A i \in Leaves(t) :
                     /\ t2.nodes[i] \in LeafNodes /\ t2.nodes[i].is_leaf_
                     /\ t2.nodes[i].level_ = t.nodes[i].level_
                     /\ t2.nodes[i].duplication_factor_ = t.nodes[i].duplication_factor_
                     /\ t2.nodes[i].keys = t.nodes[i].keys
                     /\ t2.nodes[i].next_leaf_ =
                            IF i = t.nodes[old].prev_leaf_ THEN NewLeaf(t, 1)
                            ELSE t.nodes[i].next_leaf_
                     /\ t2.nodes[i].prev_leaf_ =
                            IF i = t.nodes[old].next_leaf_ /\ i # t.nodes[old].prev_leaf_
                            THEN NewLeaf(t, count) ELSE t.nodes[i].prev_leaf_
               /\ \A j \in 1 .. count :
                     /\ t2.nodes[NewLeaf(t, j)] \in LeafNodes /\ t2.nodes[NewLeaf(t, j)].is_leaf_
                     /\ t2.nodes[NewLeaf(t, j)].level_ = leaves[j].level_
                     /\ t2.nodes[NewLeaf(t, j)].duplication_factor_
                            = leaves[j].duplication_factor_
                     /\ t2.nodes[NewLeaf(t, j)].keys = leaves[j].keys
                     /\ t2.nodes[NewLeaf(t, j)].prev_leaf_ =
                            IF j = 1 THEN t.nodes[old].prev_leaf_ ELSE NewLeaf(t, j - 1)
                     /\ t2.nodes[NewLeaf(t, j)].next_leaf_ =
                            IF j = count THEN t.nodes[old].next_leaf_ ELSE NewLeaf(t, j + 1)
<1> DEFINE prev == t.nodes[old].prev_leaf_
           next == t.nodes[old].next_leaf_
           before(j) == IF j = 1 THEN prev ELSE NewLeaf(t, j - 1)
           after(j) == IF j = count THEN next ELSE NewLeaf(t, j + 1)
           linked(j) == [leaves[j] EXCEPT !.prev_leaf_ = before(j), !.next_leaf_ = after(j)]
           neighbour(i) ==
               IF i = prev THEN [t.nodes[i] EXCEPT !.next_leaf_ = NewLeaf(t, 1)]
               ELSE IF i = next THEN [t.nodes[i] EXCEPT !.prev_leaf_ = NewLeaf(t, count)]
               ELSE t.nodes[i]
           D == DOMAIN t.nodes \cup {NewLeaf(t, j) : j \in 1 .. count}
           nodes == [i \in D |-> IF i < t.fresh THEN neighbour(i) ELSE linked(i - t.fresh + 1)]
<1>1. /\ t.fresh \in Nat
      /\ \A i \in DOMAIN t.nodes : i \in Nat /\ i < t.fresh
      /\ \A i : i \in Leaves(t) <=> i \in DOMAIN t.nodes /\ t.nodes[i].is_leaf_
      /\ \A i : i \in Models(t) <=> i \in DOMAIN t.nodes /\ ~t.nodes[i].is_leaf_
      /\ \A i \in Leaves(t) : t.nodes[i] \in LeafNodes
      /\ \A i \in Models(t) : IsModel(t.nodes[i])
      /\ prev \in Int /\ next \in Int
  BY NodeFacts DEF Leaves, Models
<1>2. /\ prev \notin Models(t) /\ next \notin Models(t)
  BY <1>1 DEF NoNode
<1>3. \A j \in 0 .. count + 1 : NewLeaf(t, j) = t.fresh + j - 1 /\ NewLeaf(t, j) \in Int
  BY <1>1 DEF NewLeaf
<1>4. link_data_nodes(t, old, leaves) = [t EXCEPT !.nodes = nodes, !.fresh = t.fresh + count]
  BY DEF link_data_nodes, NewLeaf
<1>5. /\ DOMAIN nodes = D
      /\ nodes = [i \in DOMAIN nodes |-> nodes[i]]
      /\ \A i \in D : nodes[i] = IF i < t.fresh THEN neighbour(i) ELSE linked(i - t.fresh + 1)
  OBVIOUS
<1>11. /\ \A i \in DOMAIN t.nodes : i \in D
       /\ \A j \in 1 .. count : NewLeaf(t, j) \in D
       /\ \A i \in D : i \in DOMAIN t.nodes \/ \E j \in 1 .. count : i = NewLeaf(t, j)
  OBVIOUS
<1>12. /\ \A i \in DOMAIN t.nodes : nodes[i] = neighbour(i)
       /\ \A j \in 1 .. count : nodes[NewLeaf(t, j)] = linked(j)
  <2>1. ASSUME NEW i \in DOMAIN t.nodes PROVE nodes[i] = neighbour(i)
    BY <1>1, <1>5, <1>11
  <2>2. ASSUME NEW j \in 1 .. count PROVE nodes[NewLeaf(t, j)] = linked(j)
    <3>0. t.fresh \in Nat
      BY <1>1
    <3>1. ~(NewLeaf(t, j) < t.fresh) /\ NewLeaf(t, j) - t.fresh + 1 = j
      BY <3>0 DEF NewLeaf
    <3>2. nodes[NewLeaf(t, j)] = linked(NewLeaf(t, j) - t.fresh + 1)
      BY <1>5, <1>11, <3>1
    <3> QED
      BY <3>1, <3>2
  <2> QED
    BY <2>1, <2>2
<1>13. \A i \in D : i \in 0 .. (t.fresh + count) - 1
  <2>1. \A j \in 1 .. count : NewLeaf(t, j) \in 0 .. (t.fresh + count) - 1
    BY <1>1, <1>3
  <2>2. \A i \in DOMAIN t.nodes : i \in 0 .. (t.fresh + count) - 1
    BY <1>1
  <2> QED
    BY <1>11, <2>1, <2>2
<1> HIDE DEF nodes, prev, next, D
<1>6. \A i \in Models(t) : nodes[i] = t.nodes[i]
  BY <1>1, <1>2, <1>12
<1>7. ASSUME NEW i \in Leaves(t)
      PROVE  /\ nodes[i] \in LeafNodes /\ nodes[i].is_leaf_
             /\ nodes[i].level_ = t.nodes[i].level_
             /\ nodes[i].duplication_factor_ = t.nodes[i].duplication_factor_
             /\ nodes[i].keys = t.nodes[i].keys
             /\ nodes[i].next_leaf_ = IF i = prev THEN NewLeaf(t, 1) ELSE t.nodes[i].next_leaf_
             /\ nodes[i].prev_leaf_ =
                    IF i = next /\ i # prev THEN NewLeaf(t, count) ELSE t.nodes[i].prev_leaf_
  <2>0. i \in DOMAIN t.nodes /\ t.nodes[i] \in LeafNodes /\ t.nodes[i].is_leaf_
    BY <1>1
  <2>5. NewLeaf(t, 1) \in Int /\ NewLeaf(t, count) \in Int
    BY <1>3
  <2>6. nodes[i] = neighbour(i)
    BY <1>12, <2>0
  <2>1. t.nodes[i] \in LeafNodes /\ t.nodes[i].is_leaf_
        /\ NewLeaf(t, 1) \in Int /\ NewLeaf(t, count) \in Int /\ nodes[i] = neighbour(i)
    BY <2>0, <2>5, <2>6
  <2>2. CASE i = prev
    <3>1. nodes[i] = [t.nodes[i] EXCEPT !.next_leaf_ = NewLeaf(t, 1)]
      BY <2>1, <2>2
    <3> QED
      BY <2>1, <2>2, <3>1, LeafWithNext
  <2>3. CASE i # prev /\ i = next
    <3>1. nodes[i] = [t.nodes[i] EXCEPT !.prev_leaf_ = NewLeaf(t, count)]
      BY <2>1, <2>3
    <3> QED
      BY <2>1, <2>3, <3>1, LeafWithPrev
  <2>4. CASE i # prev /\ i # next
    BY <2>1, <2>4
  <2> QED
    BY <2>2, <2>3, <2>4
<1>8. ASSUME NEW j \in 1 .. count
      PROVE  /\ nodes[NewLeaf(t, j)] \in LeafNodes /\ nodes[NewLeaf(t, j)].is_leaf_
             /\ nodes[NewLeaf(t, j)].level_ = leaves[j].level_
             /\ nodes[NewLeaf(t, j)].duplication_factor_ = leaves[j].duplication_factor_
             /\ nodes[NewLeaf(t, j)].keys = leaves[j].keys
             /\ nodes[NewLeaf(t, j)].prev_leaf_ = before(j)
             /\ nodes[NewLeaf(t, j)].next_leaf_ = after(j)
  <2>2. nodes[NewLeaf(t, j)] = linked(j)
    BY <1>12
  <2>3. before(j) \in Int /\ after(j) \in Int /\ leaves[j] \in LeafNodes
    BY <1>1, <1>3
  <2> DEFINE a == before(j)
             b == after(j)
             n == leaves[j]
  <2>4. nodes[NewLeaf(t, j)] = [n EXCEPT !.prev_leaf_ = a, !.next_leaf_ = b]
    BY <2>2
  <2>5. a \in Int /\ b \in Int /\ n \in LeafNodes
    BY <2>3
  <2> HIDE DEF a, b, n
  <2>6. LET m == [n EXCEPT !.prev_leaf_ = a, !.next_leaf_ = b]
        IN  /\ m \in LeafNodes /\ m.is_leaf_ /\ m.level_ = n.level_
            /\ m.duplication_factor_ = n.duplication_factor_ /\ m.keys = n.keys
            /\ m.prev_leaf_ = a /\ m.next_leaf_ = b
    BY <2>5 DEF LeafNodes
  <2> QED
    BY <2>4, <2>6 DEF a, b, n
<1>9. AreNodes(nodes, t.fresh + count)
  <2>1. AreNodes(t.nodes, t.fresh)
    BY NodesOfTree
  <2>2. Superroot \in Models(t)
    BY NodeFacts
  <2>3. DOMAIN nodes \subseteq 0 .. (t.fresh + count) - 1
    BY <1>5, <1>13
  <2>4. nodes[Superroot] = t.nodes[Superroot]
    BY <1>6, <2>2
  <2>5. ASSUME NEW i \in DOMAIN nodes PROVE IsModel(nodes[i]) \/ nodes[i] \in LeafNodes
    <3>1. i \in Models(t) \/ i \in Leaves(t) \/ \E j \in 1 .. count : i = NewLeaf(t, j)
      BY <1>1, <1>5, <1>11
    <3> QED
      BY <1>1, <1>6, <1>7, <1>8, <3>1
  <2>6. Superroot \in DOMAIN nodes /\ t.fresh + count \in Nat
    <3>1. Superroot \in DOMAIN t.nodes /\ t.fresh \in Nat
      BY <1>1, <2>2
    <3>2. Superroot \in DOMAIN nodes
      BY <1>5, <1>11, <3>1
    <3> QED
      BY <3>1, <3>2
  <2>7. IsModel(nodes[Superroot]) /\ nodes[Superroot].num_children_ = 1
    BY <2>1, <2>4 DEF AreNodes
  <2>8. nodes = [i \in DOMAIN nodes |-> nodes[i]]
    BY <1>5
  <2> QED
    BY <2>3, <2>5, <2>6, <2>7, <2>8 DEF AreNodes
<1>10. LET t2 == link_data_nodes(t, old, leaves)
       IN  /\ IsTree(t2) /\ t2.nodes = nodes /\ t2.fresh = t.fresh + count
           /\ t2.key_domain_min_ = t.key_domain_min_
           /\ t2.key_domain_max_ = t.key_domain_max_
  <2>1. t.key_domain_min_ \in Int /\ t.key_domain_max_ \in Int
    BY NodesOfTree
  <2>2. link_data_nodes(t, old, leaves)
            = TreeOf(nodes, t.fresh + count, t.key_domain_min_, t.key_domain_max_)
    BY <1>4, TreeSetters
  <2> QED
    BY <1>9, <2>1, <2>2, TreeOfFacts
<1> QED
  BY <1>5, <1>6, <1>7, <1>8, <1>10 DEF prev, next, D

-----------------------------------------------------------------------------
\* Each run is within them all.
LEMMA RunsAreWithin ==
    ASSUME NEW ends, NEW factors, NEW count, AreRuns(ends, factors, count),
           NEW j \in 1 .. count
    PROVE  /\ ends[0] \in Nat /\ ends[count] \in Nat /\ ends[j - 1] \in Nat /\ ends[j] \in Nat
           /\ ends[0] <= ends[j - 1] /\ ends[j - 1] < ends[j] /\ ends[j] <= ends[count]
<1>1. count \in Nat
  BY DEF AreRuns
<1>2. /\ \A i \in 0 .. count : ends[i] \in Nat
      /\ \A i, m \in 0 .. count : i < m => ends[i] < ends[m]
  BY RunsPartition
<1>3. j - 1 \in 0 .. count /\ j \in 0 .. count /\ count \in 0 .. count /\ 0 \in 0 .. count
  BY <1>1
<1>4. ends[0] \in Nat /\ ends[count] \in Nat /\ ends[j - 1] \in Nat /\ ends[j] \in Nat
  BY <1>2, <1>3
<1>5. /\ j - 1 = 0 \/ ends[0] < ends[j - 1]
      /\ j = count \/ ends[j] < ends[count]
      /\ ends[j - 1] < ends[j]
  BY <1>1, <1>2, <1>3
<1> QED
  BY <1>4, <1>5

\* The keys that a new leaf gets.
LEMMA PartsAreParts ==
    ASSUME NEW n, n.start \in Int, n.width \in Nat, n.width > 0, n.rounding = Exact,
           NEW keys \in SUBSET Int, NEW ends, NEW factors, NEW count,
           AreRuns(ends, factors, count), NEW j \in 1 .. count
    PROVE  /\ Parts(n, keys, ends, count)[j] = Part(n, keys, ends, count, j)
           /\ Part(n, keys, ends, count, j) \subseteq keys
<1>1. /\ count \in Nat /\ \A i \in 0 .. count : ends[i] \in Nat
      /\ \A i, m \in 0 .. count : i < m => ends[i] < ends[m]
  <2>1. count \in Nat
    BY DEF AreRuns
  <2> QED
    BY <2>1, RunsPartition
<1>2. \A k \in keys, e \in Int :
          (BeforeBoundary(n, k, e) \/ Predict(n, k) < e) <=> k < Edge(n, e)
  BY PredictionIsExact
<1>3. \A a, e \in Int : /\ Edge(n, a) \in Int
                        /\ a < e => Edge(n, a) < Edge(n, e)
  BY EdgesGrow
<1>4. Parts(n, keys, ends, count)[j] =
          {k \in keys : /\ \A i \in 1 .. j - 1 : ~(BeforeBoundary(n, k, ends[i])
                                                   \/ Predict(n, k) < ends[i])
                        /\ \/ j = count
                           \/ BeforeBoundary(n, k, ends[j]) \/ Predict(n, k) < ends[j]}
  BY DEF Parts
<1>5. ASSUME NEW k \in keys
      PROVE  (/\ \A i \in 1 .. j - 1 : ~(BeforeBoundary(n, k, ends[i])
                                         \/ Predict(n, k) < ends[i])
              /\ \/ j = count
                 \/ BeforeBoundary(n, k, ends[j]) \/ Predict(n, k) < ends[j])
             <=> (/\ j > 1 => Edge(n, ends[j - 1]) <= k
                  /\ j < count => k < Edge(n, ends[j]))
  <2>1. \A i \in 1 .. count : (BeforeBoundary(n, k, ends[i]) \/ Predict(n, k) < ends[i])
                                  <=> k < Edge(n, ends[i])
    BY <1>1, <1>2
  <2>2. \A i \in 0 .. count : Edge(n, ends[i]) \in Int
    BY <1>1, <1>3
  <2>3. (\A i \in 1 .. j - 1 : ~(k < Edge(n, ends[i])))
            <=> (j > 1 => Edge(n, ends[j - 1]) <= k)
    <3>1. ASSUME j > 1, Edge(n, ends[j - 1]) <= k, NEW i \in 1 .. j - 1
          PROVE  ~(k < Edge(n, ends[i]))
      <4>1. i \in 0 .. count /\ j - 1 \in 0 .. count /\ (i = j - 1 \/ i < j - 1)
        BY <1>1, <3>1
      <4>2. Edge(n, ends[i]) <= Edge(n, ends[j - 1])
        <5>1. i = j - 1 \/ ends[i] < ends[j - 1]
          BY <1>1, <4>1
        <5>2. ends[i] \in Int /\ ends[j - 1] \in Int
          BY <1>1, <4>1
        <5>3. Edge(n, ends[i]) \in Int /\ Edge(n, ends[j - 1]) \in Int
          BY <1>3, <5>2
        <5>4. ends[i] < ends[j - 1] => Edge(n, ends[i]) < Edge(n, ends[j - 1])
          BY <1>3, <5>2
        <5> QED
          BY <5>1, <5>3, <5>4
      <4> QED
        BY <2>2, <3>1, <4>1, <4>2
    <3>2. ASSUME \A i \in 1 .. j - 1 : ~(k < Edge(n, ends[i])), j > 1
          PROVE  Edge(n, ends[j - 1]) <= k
      <4>1. j - 1 \in 1 .. j - 1 /\ j - 1 \in 0 .. count
        BY <1>1, <3>2
      <4>2. ~(k < Edge(n, ends[j - 1])) /\ Edge(n, ends[j - 1]) \in Int /\ k \in Int
        BY <2>2, <3>2, <4>1
      <4> QED
        BY <4>2
    <3> QED
      BY <3>1, <3>2
  <2>4. \A i \in 1 .. j - 1 : i \in 1 .. count
    BY <1>1
  <2> QED
    BY <1>1, <2>1, <2>3, <2>4
<1> QED
  BY <1>4, <1>5 DEF Part

\* A leaf is replaced by new ones, node by node.
IsReplaced(t, t2, old, p, ends, factors, count) ==
    /\ IsTree(t2)
    /\ DOMAIN t2.nodes = (DOMAIN t.nodes \ {old})
                             \cup {NewLeaf(t, j) : j \in 1 .. count}
    /\ t2.fresh = t.fresh + count
    /\ t2.key_domain_min_ = t.key_domain_min_
    /\ t2.key_domain_max_ = t.key_domain_max_
    /\ \A i \in Models(t) : i # p => t2.nodes[i] = t.nodes[i]
    /\ t2.nodes[p].is_leaf_ = FALSE
    /\ t2.nodes[p].level_ = t.nodes[p].level_
    /\ t2.nodes[p].duplication_factor_ = t.nodes[p].duplication_factor_
    /\ t2.nodes[p].start = t.nodes[p].start
    /\ t2.nodes[p].width = t.nodes[p].width
    /\ t2.nodes[p].num_children_ = t.nodes[p].num_children_
    /\ \A b \in 0 .. t.nodes[p].num_children_ - 1 :
           /\ b < ends[0] \/ ends[count] <= b =>
                  t2.nodes[p].children_[b] = t.nodes[p].children_[b]
           /\ \A j \in 1 .. count : ends[j - 1] <= b /\ b < ends[j] =>
                  t2.nodes[p].children_[b] = NewLeaf(t, j)
    /\ \A i \in Leaves(t) \ {old} :
          /\ t2.nodes[i].is_leaf_
          /\ t2.nodes[i].level_ = t.nodes[i].level_
          /\ t2.nodes[i].duplication_factor_ = t.nodes[i].duplication_factor_
          /\ t2.nodes[i].keys = t.nodes[i].keys
          /\ t2.nodes[i].next_leaf_ =
                 IF i = t.nodes[old].prev_leaf_ THEN NewLeaf(t, 1)
                 ELSE t.nodes[i].next_leaf_
          /\ t2.nodes[i].prev_leaf_ =
                 IF i = t.nodes[old].next_leaf_ /\ i # t.nodes[old].prev_leaf_
                 THEN NewLeaf(t, count) ELSE t.nodes[i].prev_leaf_
    /\ \A j \in 1 .. count :
          /\ t2.nodes[NewLeaf(t, j)].is_leaf_
          /\ t2.nodes[NewLeaf(t, j)].level_ = t.nodes[p].level_ + 1
          /\ t2.nodes[NewLeaf(t, j)].duplication_factor_ = factors[j]
          /\ t2.nodes[NewLeaf(t, j)].keys
                 = Part(t.nodes[p], t.nodes[old].keys, ends, count, j)
          /\ t2.nodes[NewLeaf(t, j)].prev_leaf_ =
                 IF j = 1 THEN t.nodes[old].prev_leaf_ ELSE NewLeaf(t, j - 1)
          /\ t2.nodes[NewLeaf(t, j)].next_leaf_ =
                 IF j = count THEN t.nodes[old].next_leaf_ ELSE NewLeaf(t, j + 1)

\* A leaf is replaced by new ones.
LEMMA CreatedFacts ==
    ASSUME NEW t, IsTree(t), NEW old \in Leaves(t),
           t.nodes[old].prev_leaf_ = NoNode \/ t.nodes[old].prev_leaf_ \in Leaves(t),
           t.nodes[old].next_leaf_ = NoNode \/ t.nodes[old].next_leaf_ \in Leaves(t),
           NEW p \in Models(t), p # Superroot,
           NEW start, NEW factors, NEW ends, NEW count,
           ends = Ends(start, factors), count = Len(factors), AreRuns(ends, factors, count)
    PROVE  IsReplaced(t, Deleted(create_new_data_nodes(t, old, p, start, factors), old),
                      old, p, ends, factors, count)
<1> DEFINE n == t.nodes[p]
           num == n.num_children_
           keys == t.nodes[old].keys
           parts == Parts(n, keys, ends, count)
           leaves == [j \in 1 .. count |-> NewDataNode(parts[j], n.level_ + 1, factors[j])]
           leafOf(b) == CHOOSE j \in 1 .. count : ends[j - 1] <= b /\ b < ends[j]
           c == [b \in DOMAIN n.children_ |->
                    IF start <= b /\ b < ends[count] THEN t.fresh + leafOf(b) - 1
                    ELSE n.children_[b]]
           adopted == [n EXCEPT !.children_ = c]
           linked == link_data_nodes(t, old, leaves)
           made == WithNode(linked, p, adopted)
           t2 == Deleted(made, old)
<1>1. t2 = Deleted(create_new_data_nodes(t, old, p, start, factors), old)
  BY DEF create_new_data_nodes
<1>2. /\ n.start \in Int /\ n.width \in Nat /\ n.width > 0 /\ n.rounding = Exact
      /\ n.level_ \in Int /\ IsModel(n) /\ num \in Nat /\ num > 0
      /\ n.children_ \in [0 .. num - 1 -> Int]
      /\ keys \subseteq Key /\ t.fresh \in Nat /\ n.is_leaf_ = FALSE
  <2>1. /\ IsModel(n) /\ n.start \in Int /\ n.width \in Nat /\ n.width > 0 /\ n.rounding = Exact
        /\ num \in Nat /\ num > 0 /\ n.children_ \in [0 .. num - 1 -> Int]
        /\ keys \subseteq Key /\ t.fresh \in Nat
    BY NodeFacts
  <2>2. n.level_ \in Int /\ n.is_leaf_ = FALSE
    BY <2>1 DEF IsModel
  <2> QED
    BY <2>1, <2>2
<1>3. /\ count \in Nat /\ count > 0 /\ ends[0] = start
      /\ \A j \in 1 .. count : factors[j] \in Nat
      /\ \A j \in 0 .. count : ends[j] \in Nat
      /\ \A b \in Nat : ends[0] <= b /\ b < ends[count] =>
             \E j \in 1 .. count : ends[j - 1] <= b /\ b < ends[j]
      /\ \A b \in Nat : \A i, j \in 1 .. count :
             ends[i - 1] <= b /\ b < ends[i] /\ ends[j - 1] <= b /\ b < ends[j] => i = j
  <2>1. count \in Nat /\ count > 0 /\ \A j \in 1 .. count : factors[j] \in Nat
    BY DEF AreRuns
  <2>2. ends[0] = start
    BY <2>1, EndsUnfold
  <2>3. \A j \in 0 .. count : ends[j] \in Nat
    BY RunsPartition
  <2>4. \A b \in Nat : ends[0] <= b /\ b < ends[count] =>
             \E j \in 1 .. count : ends[j - 1] <= b /\ b < ends[j]
    <3>1. ASSUME NEW b \in Nat, ends[0] <= b, b < ends[count]
          PROVE  \E j \in 1 .. count : ends[j - 1] <= b /\ b < ends[j]
      BY <3>1, RunsPartition
    <3> QED
      BY <3>1
  <2>5. \A b \in Nat : \A i, j \in 1 .. count :
             ends[i - 1] <= b /\ b < ends[i] /\ ends[j - 1] <= b /\ b < ends[j] => i = j
    BY RunsPartition
  <2> QED
    BY <2>1, <2>2, <2>3, <2>4, <2>5
<1>4. \A j \in 1 .. count : /\ parts[j] = Part(n, keys, ends, count, j)
                            /\ parts[j] \in SUBSET Key
  <2>1. keys \in SUBSET Int
    BY <1>2, KeysAreWithinTheType
  <2> HIDE DEF n, keys
  <2>2. ASSUME NEW j \in 1 .. count
        PROVE  parts[j] = Part(n, keys, ends, count, j) /\ parts[j] \subseteq keys
    BY <1>2, <2>1, PartsAreParts
  <2> QED
    BY <1>2, <2>2
<1> HIDE DEF parts
<1>5. /\ DOMAIN leaves = 1 .. count /\ Len(leaves) = count
      /\ \A j \in 1 .. count : /\ leaves[j] \in LeafNodes
                               /\ leaves[j].level_ = n.level_ + 1
                               /\ leaves[j].duplication_factor_ = factors[j]
                               /\ leaves[j].keys = Part(n, keys, ends, count, j)
  <2>1. ASSUME NEW j \in 1 .. count
        PROVE  LET m == NewDataNode(parts[j], n.level_ + 1, factors[j])
               IN  /\ m \in LeafNodes /\ m.level_ = n.level_ + 1
                   /\ m.duplication_factor_ = factors[j] /\ m.keys = parts[j]
    <3>1. parts[j] \in SUBSET Key /\ n.level_ + 1 \in Int /\ factors[j] \in Nat
      BY <1>2, <1>3, <1>4
    <3> HIDE DEF n
    <3> QED
      BY <3>1, NewDataNodeFacts
  <2>2. \A j \in 1 .. count : leaves[j] = NewDataNode(parts[j], n.level_ + 1, factors[j])
    OBVIOUS
  <2>3. DOMAIN leaves = 1 .. count /\ Len(leaves) = count
    BY <1>3
  <2> QED
    BY <1>4, <2>1, <2>2, <2>3
<1> HIDE DEF leaves
<1>6. /\ IsTree(linked)
      /\ DOMAIN linked.nodes = DOMAIN t.nodes \cup {NewLeaf(t, j) : j \in 1 .. count}
      /\ linked.fresh = t.fresh + count
      /\ linked.key_domain_min_ = t.key_domain_min_
      /\ linked.key_domain_max_ = t.key_domain_max_
      /\ \A i \in Models(t) : linked.nodes[i] = t.nodes[i]
      /\ \A i \in Leaves(t) :
            /\ linked.nodes[i] \in LeafNodes /\ linked.nodes[i].is_leaf_
            /\ linked.nodes[i].level_ = t.nodes[i].level_
            /\ linked.nodes[i].duplication_factor_ = t.nodes[i].duplication_factor_
            /\ linked.nodes[i].keys = t.nodes[i].keys
            /\ linked.nodes[i].next_leaf_ =
                   IF i = t.nodes[old].prev_leaf_ THEN NewLeaf(t, 1)
                   ELSE t.nodes[i].next_leaf_
            /\ linked.nodes[i].prev_leaf_ =
                   IF i = t.nodes[old].next_leaf_ /\ i # t.nodes[old].prev_leaf_
                   THEN NewLeaf(t, count) ELSE t.nodes[i].prev_leaf_
      /\ \A j \in 1 .. count :
            /\ linked.nodes[NewLeaf(t, j)] \in LeafNodes /\ linked.nodes[NewLeaf(t, j)].is_leaf_
            /\ linked.nodes[NewLeaf(t, j)].level_ = leaves[j].level_
            /\ linked.nodes[NewLeaf(t, j)].duplication_factor_ = leaves[j].duplication_factor_
            /\ linked.nodes[NewLeaf(t, j)].keys = leaves[j].keys
            /\ linked.nodes[NewLeaf(t, j)].prev_leaf_ =
                   IF j = 1 THEN t.nodes[old].prev_leaf_ ELSE NewLeaf(t, j - 1)
            /\ linked.nodes[NewLeaf(t, j)].next_leaf_ =
                   IF j = count THEN t.nodes[old].next_leaf_ ELSE NewLeaf(t, j + 1)
  BY <1>3, <1>5, LinkedFacts
<1> HIDE DEF linked
<1>7. /\ c \in [0 .. num - 1 -> Int]
      /\ \A b \in 0 .. num - 1 :
             /\ b < ends[0] \/ ends[count] <= b => c[b] = n.children_[b]
             /\ \A j \in 1 .. count : ends[j - 1] <= b /\ b < ends[j] => c[b] = NewLeaf(t, j)
  <2>1. ASSUME NEW b \in 0 .. num - 1, NEW j \in 1 .. count, ends[j - 1] <= b, b < ends[j]
        PROVE  /\ start <= b /\ b < ends[count]
               /\ t.fresh + leafOf(b) - 1 = NewLeaf(t, j)
    <3>1. /\ ends[j] \in Nat /\ ends[j - 1] \in Nat /\ ends[count] \in Nat /\ ends[0] \in Nat
          /\ ends[0] <= ends[j - 1] /\ ends[j] <= ends[count]
      BY RunsAreWithin
    <3>2. b \in Nat /\ ends[0] = start
      BY <1>2, <1>3
    <3> HIDE DEF n, num
    <3>4. start <= b /\ b < ends[count]
      BY <2>1, <3>1, <3>2
    <3>6. \A i \in 1 .. count : ends[i - 1] <= b /\ b < ends[i] => i = j
      BY <1>3, <2>1, <3>2
    <3>5. leafOf(b) = j
      BY <2>1, <3>6
    <3> QED
      BY <3>4, <3>5 DEF NewLeaf
  <2>2. ASSUME NEW b \in 0 .. num - 1, start <= b, b < ends[count]
        PROVE  t.fresh + leafOf(b) - 1 \in Int
    <3>0. b \in Nat /\ ends[0] <= b
      BY <1>2, <1>3, <2>2
    <3>1. PICK j \in 1 .. count : ends[j - 1] <= b /\ b < ends[j]
      <4>1. \E j \in 1 .. count : ends[j - 1] <= b /\ b < ends[j]
        BY <1>3, <2>2, <3>0
      <4> QED
        BY <4>1
    <3>2. leafOf(b) \in 1 .. count
      BY <3>1
    <3> QED
      BY <1>2, <1>3, <3>2
  <2>3. DOMAIN n.children_ = 0 .. num - 1
    BY <1>2
  <2> HIDE DEF leafOf, n, num
  <2>4. c \in [0 .. num - 1 -> Int]
    BY <1>2, <2>2, <2>3
  <2>5. ASSUME NEW b \in 0 .. num - 1
        PROVE  c[b] = IF start <= b /\ b < ends[count] THEN t.fresh + leafOf(b) - 1
                      ELSE n.children_[b]
    BY <2>3
  <2> HIDE DEF c
  <2>6. ASSUME NEW b \in 0 .. num - 1, b < ends[0] \/ ends[count] <= b
        PROVE  c[b] = n.children_[b]
    <3>1. ends[0] \in Nat /\ ends[count] \in Nat /\ b \in Nat
      BY <1>2, <1>3
    <3>2. ~(start <= b /\ b < ends[count])
      BY <1>3, <2>6, <3>1
    <3> QED
      BY <2>5, <3>2
  <2>7. ASSUME NEW b \in 0 .. num - 1, NEW j \in 1 .. count, ends[j - 1] <= b, b < ends[j]
        PROVE  c[b] = NewLeaf(t, j)
    BY <2>1, <2>5, <2>7
  <2> QED
    BY <2>4, <2>6, <2>7
<1> HIDE DEF c
<1>8. /\ IsModel(adopted) /\ ~adopted.is_leaf_ /\ adopted.level_ = n.level_
      /\ adopted.duplication_factor_ = n.duplication_factor_
      /\ adopted.start = n.start /\ adopted.width = n.width
      /\ adopted.num_children_ = num /\ adopted.children_ = c
  <2> HIDE DEF n
  <2> QED
    BY <1>2, <1>7, ModelWithChildren
<1> HIDE DEF adopted
<1>9. /\ \A i \in DOMAIN t.nodes : i \in Nat /\ i < t.fresh
      /\ \A i : i \in Leaves(t) <=> i \in DOMAIN t.nodes /\ t.nodes[i].is_leaf_
      /\ \A i : i \in Models(t) <=> i \in DOMAIN t.nodes /\ ~t.nodes[i].is_leaf_
      /\ Superroot \in Models(t)
  BY NodeFacts DEF Leaves, Models
<1>10. p \in DOMAIN linked.nodes
  BY <1>6, <1>9
<1>11. /\ IsTree(made) /\ DOMAIN made.nodes = DOMAIN linked.nodes /\ made.fresh = linked.fresh
       /\ made.key_domain_min_ = linked.key_domain_min_
       /\ made.key_domain_max_ = linked.key_domain_max_
       /\ made.nodes[p] = adopted
       /\ \A j \in DOMAIN linked.nodes : j # p => made.nodes[j] = linked.nodes[j]
  BY <1>6, <1>8, <1>10, WithNodeFacts
<1> HIDE DEF made
<1>12. /\ IsTree(t2) /\ DOMAIN t2.nodes = DOMAIN made.nodes \ {old} /\ t2.fresh = made.fresh
       /\ t2.key_domain_min_ = made.key_domain_min_
       /\ t2.key_domain_max_ = made.key_domain_max_
       /\ \A j \in DOMAIN made.nodes : j # old => t2.nodes[j] = made.nodes[j]
  BY <1>9, <1>11, DeletedFacts
<1> HIDE DEF t2
<1>13. \A j \in 1 .. count : /\ NewLeaf(t, j) \in Int /\ NewLeaf(t, j) >= t.fresh
                             /\ NewLeaf(t, j) \notin DOMAIN t.nodes
                             /\ NewLeaf(t, j) \in DOMAIN linked.nodes
  <2>1. \A j \in 1 .. count : NewLeaf(t, j) \in Int /\ NewLeaf(t, j) >= t.fresh
    BY <1>2, <1>3 DEF NewLeaf
  <2> QED
    BY <1>2, <1>6, <1>9, <2>1
<1>14. DOMAIN t2.nodes = (DOMAIN t.nodes \ {old}) \cup {NewLeaf(t, j) : j \in 1 .. count}
  <2>1. old \in DOMAIN t.nodes
    BY <1>9
  <2> QED
    BY <1>6, <1>11, <1>12, <1>13, <2>1
<1>15. p \in DOMAIN t.nodes /\ p # old /\ \A j \in 1 .. count : NewLeaf(t, j) # p /\ NewLeaf(t, j) # old
  BY <1>9, <1>13
<1>16. ASSUME NEW i \in Models(t), i # p PROVE t2.nodes[i] = t.nodes[i]
  BY <1>6, <1>9, <1>11, <1>12, <1>16
<1>17. t2.nodes[p] = adopted
  BY <1>10, <1>11, <1>12, <1>15
<1>18. \A i \in Leaves(t) \ {old} : t2.nodes[i] = linked.nodes[i]
  BY <1>6, <1>9, <1>11, <1>12
<1>19. \A j \in 1 .. count : t2.nodes[NewLeaf(t, j)] = linked.nodes[NewLeaf(t, j)]
  BY <1>11, <1>12, <1>13, <1>15
<1>20. /\ \A i \in Leaves(t) \ {old} :
             /\ t2.nodes[i].is_leaf_
             /\ t2.nodes[i].level_ = t.nodes[i].level_
             /\ t2.nodes[i].duplication_factor_ = t.nodes[i].duplication_factor_
             /\ t2.nodes[i].keys = t.nodes[i].keys
             /\ t2.nodes[i].next_leaf_ =
                    IF i = t.nodes[old].prev_leaf_ THEN NewLeaf(t, 1)
                    ELSE t.nodes[i].next_leaf_
             /\ t2.nodes[i].prev_leaf_ =
                    IF i = t.nodes[old].next_leaf_ /\ i # t.nodes[old].prev_leaf_
                    THEN NewLeaf(t, count) ELSE t.nodes[i].prev_leaf_
       /\ \A j \in 1 .. count :
             /\ t2.nodes[NewLeaf(t, j)].is_leaf_
             /\ t2.nodes[NewLeaf(t, j)].level_ = n.level_ + 1
             /\ t2.nodes[NewLeaf(t, j)].duplication_factor_ = factors[j]
             /\ t2.nodes[NewLeaf(t, j)].keys = Part(n, keys, ends, count, j)
             /\ t2.nodes[NewLeaf(t, j)].prev_leaf_ =
                    IF j = 1 THEN t.nodes[old].prev_leaf_ ELSE NewLeaf(t, j - 1)
             /\ t2.nodes[NewLeaf(t, j)].next_leaf_ =
                    IF j = count THEN t.nodes[old].next_leaf_ ELSE NewLeaf(t, j + 1)
  BY <1>5, <1>6, <1>18, <1>19
<1>21. /\ t2.fresh = t.fresh + count
       /\ t2.key_domain_min_ = t.key_domain_min_
       /\ t2.key_domain_max_ = t.key_domain_max_
  BY <1>6, <1>11, <1>12
<1>22. /\ t2.nodes[p].is_leaf_ = FALSE
       /\ t2.nodes[p].level_ = n.level_
       /\ t2.nodes[p].duplication_factor_ = n.duplication_factor_
       /\ t2.nodes[p].start = n.start
       /\ t2.nodes[p].width = n.width
       /\ t2.nodes[p].num_children_ = num
       /\ t2.nodes[p].children_ = c
  <2>1. adopted.is_leaf_ = FALSE
    BY <1>8 DEF IsModel
  <2> QED
    BY <1>8, <1>17, <2>1
<1>23. IsReplaced(t, t2, old, p, ends, factors, count)
  BY <1>7, <1>12, <1>14, <1>16, <1>20, <1>21, <1>22 DEF IsReplaced
<1> QED
  BY <1>1, <1>23

-----------------------------------------------------------------------------
(* A model node comes between a node and its parent.                       *)

\* m, whose pointers all lead to c, takes c's pointers in p.
IsInterposed(t, t2, p, c, m, x, start, end) ==
    /\ IsTree(t2)
    /\ m = t.fresh /\ DOMAIN t2.nodes = DOMAIN t.nodes \cup {m} /\ t2.fresh = t.fresh + 1
    /\ t2.key_domain_min_ = t.key_domain_min_ /\ t2.key_domain_max_ = t.key_domain_max_
    /\ \A i \in DOMAIN t.nodes :
           /\ t2.nodes[i].is_leaf_ = t.nodes[i].is_leaf_
           /\ i # c => t2.nodes[i].duplication_factor_ = t.nodes[i].duplication_factor_
           /\ i # c /\ i # Superroot => t2.nodes[i].level_ = t.nodes[i].level_
    /\ p # Superroot => t2.nodes[Superroot].level_ = t.nodes[Superroot].level_
    /\ t2.nodes[p].level_ < t2.nodes[m].level_ /\ t2.nodes[m].level_ < t2.nodes[c].level_
    /\ c \in Models(t) => t2.nodes[c].level_ = t.nodes[c].level_
    /\ \A i \in Models(t) :
           /\ t2.nodes[i].start = t.nodes[i].start
           /\ t2.nodes[i].width = t.nodes[i].width
           /\ t2.nodes[i].num_children_ = t.nodes[i].num_children_
           /\ i # p => t2.nodes[i].children_ = t.nodes[i].children_
    /\ \A b \in 0 .. t.nodes[p].num_children_ - 1 :
           t2.nodes[p].children_[b] = IF start <= b /\ b < end THEN m ELSE t.nodes[p].children_[b]
    /\ \A i \in Leaves(t) :
           /\ t2.nodes[i].keys = t.nodes[i].keys
           /\ t2.nodes[i].next_leaf_ = t.nodes[i].next_leaf_
           /\ t2.nodes[i].prev_leaf_ = t.nodes[i].prev_leaf_
    /\ ~t2.nodes[m].is_leaf_
    /\ t2.nodes[m].duplication_factor_ = t.nodes[c].duplication_factor_
    /\ t2.nodes[m].num_children_ = 2^x /\ x \in Nat
    /\ t2.nodes[c].duplication_factor_ = x
    /\ \A b \in 0 .. 2^x - 1 : t2.nodes[m].children_[b] = c

\* What m divides is what c is for.
TakesPlace(t, parent, first, from, to, t2, p, c, m, start, end) ==
    /\ c \in Nodes(t) /\ parent[c] = p
    /\ start = first[c] /\ end = first[c] + Repeats(t.nodes[c])
    /\ t.key_domain_min_ < t.key_domain_max_
    /\ Edge(t2.nodes[m], 0) = from[c]
    /\ Edge(t2.nodes[m], t2.nodes[m].num_children_) = to[c]

InterposedGhost(t2, ghost, m, atm, c, atc) ==
    [i \in Nodes(t2) |-> IF i = m THEN atm ELSE IF i = c THEN atc ELSE ghost[i]]

\* The tree after that, well-formed and with the same keys.
IsRaised(t, from, to, t2, parent2, first2, from2, to2, p, c, m, x) ==
    /\ WellFormed(t2, parent2, first2, from2, to2)
    /\ Keys(t2) = Keys(t) /\ ~t2.nodes[Root(t2)].is_leaf_
    /\ m \in Models(t2) /\ m # Superroot /\ m \in Nodes(t2) /\ c \in Nodes(t2)
    /\ p \in Models(t) /\ p \in Models(t2) /\ p # m /\ c # m /\ c # p
    /\ parent2[c] = m /\ first2[c] = 0 /\ Repeats(t2.nodes[c]) = 2^x
    /\ \A key \in Int : /\ IsIn(t2, from2, to2, m, key) <=> IsIn(t, from, to, c, key)
                        /\ \A i \in Nodes(t) : IsIn(t2, from2, to2, i, key)
                                                   <=> IsIn(t, from, to, i, key)
    /\ Leaves(t2) = Leaves(t) /\ Models(t2) = Models(t) \cup {m}
    /\ \A i \in Nodes(t) : i \in Nodes(t2)

\* A model node that comes between keeps a tree well-formed.
LEMMA InterposedIsWellFormed ==
    ASSUME NEW t, NEW parent, NEW first, NEW from, NEW to,
           WellFormed(t, parent, first, from, to),
           NEW t2, NEW p, NEW c, NEW m, NEW x, NEW start, NEW end,
           IsInterposed(t, t2, p, c, m, x, start, end),
           TakesPlace(t, parent, first, from, to, t2, p, c, m, start, end),
           NEW parent2, parent2 = InterposedGhost(t2, parent, m, p, c, m),
           NEW first2, first2 = InterposedGhost(t2, first, m, first[c], c, 0),
           NEW from2, from2 = InterposedGhost(t2, from, m, from[c], c, from[c]),
           NEW to2, to2 = InterposedGhost(t2, to, m, to[c], c, to[c])
    PROVE  IsRaised(t, from, to, t2, parent2, first2, from2, to2, p, c, m, x)
<1>1. /\ IsTree(t) /\ HasRuns(t, parent, first)
      /\ parent \in [Nodes(t) -> Models(t)] /\ first \in [Nodes(t) -> Nat]
      /\ from \in [Nodes(t) -> Int] /\ to \in [Nodes(t) -> Int]
      /\ HasRegions(t, parent, first, from, to) /\ HasDomain(t, from, to)
      /\ AreApart(t, from, to) /\ IsChained(t, from, to) /\ IsRouted(t, from, to)
  BY WellFormedParts DEF WellFormed
<1>2. /\ c \in Nodes(t) /\ parent[c] = p
      /\ start = first[c] /\ end = first[c] + Repeats(t.nodes[c])
      /\ t.key_domain_min_ < t.key_domain_max_
      /\ Edge(t2.nodes[m], 0) = from[c]
      /\ Edge(t2.nodes[m], t2.nodes[m].num_children_) = to[c]
  BY DEF TakesPlace
<1>3. /\ t.fresh \in Nat /\ Superroot \in Models(t)
      /\ t.key_domain_min_ \in Int /\ t.key_domain_max_ \in Int
      /\ \A i \in DOMAIN t.nodes : i \in Nat /\ i < t.fresh
      /\ \A i : i \in Leaves(t) <=> i \in DOMAIN t.nodes /\ t.nodes[i].is_leaf_
      /\ \A i : i \in Models(t) <=> i \in DOMAIN t.nodes /\ ~t.nodes[i].is_leaf_
      /\ \A i : i \in Nodes(t) <=> i \in DOMAIN t.nodes /\ i # Superroot
  BY <1>1, NodeFacts DEF Leaves, Models, Nodes
<1>4. /\ IsTree(t2)
      /\ m = t.fresh /\ DOMAIN t2.nodes = DOMAIN t.nodes \cup {m}
      /\ t2.key_domain_min_ = t.key_domain_min_ /\ t2.key_domain_max_ = t.key_domain_max_
      /\ \A i \in DOMAIN t.nodes : t2.nodes[i].is_leaf_ = t.nodes[i].is_leaf_
      /\ ~t2.nodes[m].is_leaf_
      /\ t2.nodes[m].num_children_ = 2^x /\ x \in Nat
      /\ t2.nodes[c].duplication_factor_ = x
  BY DEF IsInterposed
<1>5. m \in Nat /\ m \notin DOMAIN t.nodes
  BY <1>3, <1>4
<1>6. /\ Leaves(t2) = Leaves(t) /\ Models(t2) = Models(t) \cup {m}
      /\ \A i : i \in Nodes(t2) <=> i \in Nodes(t) \/ i = m
      /\ m # Superroot
  <2>1. /\ \A i : i \in Leaves(t2) <=> i \in DOMAIN t2.nodes /\ t2.nodes[i].is_leaf_
        /\ \A i : i \in Models(t2) <=> i \in DOMAIN t2.nodes /\ ~t2.nodes[i].is_leaf_
        /\ \A i : i \in Nodes(t2) <=> i \in DOMAIN t2.nodes /\ i # Superroot
    BY DEF Leaves, Models, Nodes
  <2>2. m # Superroot
    BY <1>3, <1>5
  <2>3. ASSUME NEW i PROVE i \in Leaves(t2) <=> i \in Leaves(t)
    BY <1>3, <1>4, <2>1
  <2>4. ASSUME NEW i PROVE i \in Models(t2) <=> i \in Models(t) \/ i = m
    BY <1>3, <1>4, <1>5, <2>1
  <2> QED
    BY <1>3, <1>4, <2>1, <2>2, <2>3, <2>4
<1>7. /\ \A i \in Nodes(t) : i \in Nodes(t2) /\ i # m
      /\ \A i \in Nodes(t) : i # c => parent2[i] = parent[i] /\ first2[i] = first[i]
      /\ \A i \in Nodes(t) : from2[i] = from[i] /\ to2[i] = to[i]
      /\ parent2[m] = p /\ first2[m] = first[c] /\ from2[m] = from[c] /\ to2[m] = to[c]
      /\ parent2[c] = m /\ first2[c] = 0
      /\ m \in Nodes(t2) /\ c \in Nodes(t2) /\ m # c
  <2>1. \A i \in Nodes(t) : i \in Nodes(t2) /\ i # m
    BY <1>3, <1>5, <1>6
  <2> QED
    BY <1>2, <1>6, <2>1 DEF InterposedGhost
<1>8. AreGhosts(t2, parent2, first2, from2, to2)
  <2>1. p \in Models(t) /\ first[c] \in Nat /\ from[c] \in Int /\ to[c] \in Int
    BY <1>1, <1>2
  <2> QED
    BY <1>1, <1>6, <2>1 DEF AreGhosts, InterposedGhost
<1>9. /\ p \in Models(t) /\ p \in Models(t2) /\ p # m /\ c # p
      /\ Repeats(t2.nodes[c]) = 2^x
      /\ Repeats(t2.nodes[m]) = Repeats(t.nodes[c])
      /\ \A i \in Nodes(t) : i # c => Repeats(t2.nodes[i]) = Repeats(t.nodes[i])
  <2>1. p \in Models(t)
    BY <1>1, <1>2
  <2>2. t.nodes[p].level_ < t.nodes[c].level_ /\ t.nodes[c].level_ \in Int
    BY <1>1, <1>2, RunFacts, NodeFacts
  <2>3. c # p
    BY <2>2
  <2>4. p \in Models(t2) /\ p # m
    BY <1>3, <1>5, <1>6, <2>1
  <2>5. /\ t2.nodes[m].duplication_factor_ = t.nodes[c].duplication_factor_
        /\ \A i \in DOMAIN t.nodes :
               i # c => t2.nodes[i].duplication_factor_ = t.nodes[i].duplication_factor_
    BY DEF IsInterposed
  <2> QED
    BY <1>3, <1>4, <2>1, <2>3, <2>4, <2>5 DEF Repeats
<1>10. /\ \A i \in Models(t) :
              /\ t2.nodes[i].start = t.nodes[i].start
              /\ t2.nodes[i].width = t.nodes[i].width
              /\ t2.nodes[i].num_children_ = t.nodes[i].num_children_
              /\ i # p => t2.nodes[i].children_ = t.nodes[i].children_
       /\ \A b \in 0 .. t.nodes[p].num_children_ - 1 :
              t2.nodes[p].children_[b] =
                  IF start <= b /\ b < end THEN m ELSE t.nodes[p].children_[b]
       /\ \A b \in 0 .. 2^x - 1 : t2.nodes[m].children_[b] = c
       /\ \A i \in Leaves(t) :
              /\ t2.nodes[i].keys = t.nodes[i].keys
              /\ t2.nodes[i].next_leaf_ = t.nodes[i].next_leaf_
              /\ t2.nodes[i].prev_leaf_ = t.nodes[i].prev_leaf_
  BY DEF IsInterposed
<1>11. \A i \in Models(t) : \A b : Edge(t2.nodes[i], b) = Edge(t.nodes[i], b)
  BY <1>10 DEF Edge
<1>12. HasRuns(t2, parent2, first2)
  <2>1. /\ \A i \in DOMAIN t.nodes :
               i # c /\ i # Superroot => t2.nodes[i].level_ = t.nodes[i].level_
        /\ p # Superroot => t2.nodes[Superroot].level_ = t.nodes[Superroot].level_
        /\ t2.nodes[p].level_ < t2.nodes[m].level_ /\ t2.nodes[m].level_ < t2.nodes[c].level_
        /\ c \in Models(t) => t2.nodes[c].level_ = t.nodes[c].level_
    BY DEF IsInterposed
  <2>2. \A i \in Models(t2) : \E y \in Nat : t2.nodes[i].num_children_ = 2^y
    <3>1. \A i \in Models(t) : \E y \in Nat : t.nodes[i].num_children_ = 2^y
      BY <1>1 DEF HasRuns
    <3> QED
      BY <1>4, <1>6, <1>10, <3>1
  <2>3. \A i \in Models(t) : i # Superroot \/ p # Superroot =>
                                 t2.nodes[i].level_ = t.nodes[i].level_
    BY <1>3, <2>1
  <2>4. ASSUME NEW d \in Nodes(t), d # c
        PROVE  HasRun(t2.nodes[parent2[d]], d, t2.nodes[d], first2[d])
    <3> DEFINE q == parent[d]
    <3>1. q \in Models(t) /\ parent2[d] = q /\ first2[d] = first[d]
          /\ Repeats(t2.nodes[d]) = Repeats(t.nodes[d])
      BY <1>1, <1>7, <1>9, <2>4
    <3>2. HasRun(t.nodes[q], d, t.nodes[d], first[d])
      BY <1>1 DEF HasRuns
    <3>6. q # Superroot \/ p # Superroot
      <4>1. parent[d] = Superroot => d = Root(t)
        BY <1>1, RootFacts
      <4>2. parent[c] = Superroot => c = Root(t)
        BY <1>1, <1>2, RootFacts
      <4> QED
        BY <1>2, <2>4, <4>1, <4>2
    <3> HIDE DEF q
    <3>3. t2.nodes[d].level_ > t2.nodes[q].level_
      <4>1. d \in DOMAIN t.nodes /\ d # Superroot
        BY <1>3
      <4>2. /\ t2.nodes[d].level_ = t.nodes[d].level_
            /\ t2.nodes[q].level_ = t.nodes[q].level_
        BY <2>1, <2>3, <2>4, <3>1, <3>6, <4>1
      <4>3. t.nodes[d].level_ > t.nodes[q].level_
        BY <3>2 DEF HasRun
      <4>4. t.nodes[d].level_ \in Int /\ t.nodes[q].level_ \in Int
            /\ t2.nodes[q].level_ \in Int
        BY <1>1, <1>3, <1>4, <1>6, <3>1, NodeFacts
      <4> QED
        BY <4>2, <4>3, <4>4
    <3>4. ASSUME NEW b \in 0 .. t.nodes[q].num_children_ - 1
          PROVE  t2.nodes[q].children_[b] = d <=> t.nodes[q].children_[b] = d
      <4>1. CASE q # p
        BY <1>10, <3>1, <4>1
      <4>2. CASE q = p
        <5>1. HasRun(t.nodes[p], c, t.nodes[c], first[c])
          BY <1>1, <1>2 DEF HasRuns
        <5>2. start <= b /\ b < end <=> t.nodes[p].children_[b] = c
          BY <1>2, <4>2, <5>1 DEF HasRun
        <5>3. m # d
          BY <1>7
        <5> QED
          BY <1>10, <2>4, <4>2, <5>2, <5>3
      <4> QED
        BY <4>1, <4>2
    <3>5. t2.nodes[q].num_children_ = t.nodes[q].num_children_
      BY <1>10, <3>1
    <3> QED
      BY <3>1, <3>2, <3>3, <3>4, <3>5 DEF HasRun
  <2>5. HasRun(t2.nodes[parent2[m]], m, t2.nodes[m], first2[m])
    <3>1. HasRun(t.nodes[p], c, t.nodes[c], first[c])
      BY <1>1, <1>2 DEF HasRuns
    <3>2. /\ start % Repeats(t.nodes[c]) = 0
          /\ start + Repeats(t.nodes[c]) <= t.nodes[p].num_children_
          /\ end = start + Repeats(t.nodes[c])
      BY <1>2, <3>1 DEF HasRun
    <3>3. \A b \in 0 .. t.nodes[p].num_children_ - 1 : t.nodes[p].children_[b] # m
      BY <1>1, <1>7, <1>9 DEF HasRuns
    <3>4. t2.nodes[p].num_children_ = t.nodes[p].num_children_
      BY <1>9, <1>10
    <3>5. t2.nodes[m].level_ > t2.nodes[p].level_
      <4>1. t2.nodes[m].level_ \in Int /\ t2.nodes[p].level_ \in Int
        BY <1>4, <1>6, <1>9, NodeFacts
      <4> QED
        BY <2>1, <4>1
    <3>6. parent2[m] = p /\ first2[m] = start /\ Repeats(t2.nodes[m]) = Repeats(t.nodes[c])
      BY <1>2, <1>7, <1>9
    <3> QED
      BY <1>10, <3>2, <3>3, <3>4, <3>5, <3>6 DEF HasRun
  <2>6. HasRun(t2.nodes[parent2[c]], c, t2.nodes[c], first2[c])
    <3>1. 2^x \in Nat /\ 2^x > 0
      BY <1>4, PowerFacts
    <3>2. 0 % 2^x = 0
      BY <3>1
    <3>3. t2.nodes[c].level_ > t2.nodes[m].level_
      <4>1. t2.nodes[m].level_ \in Int /\ t2.nodes[c].level_ \in Int
        BY <1>3, <1>4, <1>6, <1>7, NodeFacts DEF Nodes
      <4> QED
        BY <2>1, <4>1
    <3>4. parent2[c] = m /\ first2[c] = 0 /\ Repeats(t2.nodes[c]) = 2^x
          /\ t2.nodes[m].num_children_ = 2^x
      BY <1>4, <1>7, <1>9
    <3>5. \A b \in 0 .. 2^x - 1 : t2.nodes[m].children_[b] = c /\ 0 <= b /\ b < 0 + 2^x
      BY <1>10, <3>1
    <3> QED
      BY <3>1, <3>2, <3>3, <3>4, <3>5 DEF HasRun
  <2>7. ASSUME NEW i \in Models(t2), NEW b \in 0 .. t2.nodes[i].num_children_ - 1
        PROVE  /\ t2.nodes[i].children_[b] \in Nodes(t2)
               /\ parent2[t2.nodes[i].children_[b]] = i
    <3>1. CASE i = m
      <4>1. t2.nodes[m].children_[b] = c
        BY <1>4, <1>10, <3>1
      <4> QED
        BY <1>7, <3>1, <4>1
    <3>2. CASE i \in Models(t) /\ i # m
      <4> DEFINE d == t.nodes[i].children_[b]
      <4>1. b \in 0 .. t.nodes[i].num_children_ - 1
        BY <1>10, <3>2
      <4>2. d \in Nodes(t) /\ parent[d] = i
        BY <1>1, <3>2, <4>1 DEF HasRuns
      <4>3. CASE i = p
        <5>1. t2.nodes[i].children_[b] = IF start <= b /\ b < end THEN m ELSE d
          BY <1>10, <4>1, <4>3
        <5>2. HasRun(t.nodes[p], c, t.nodes[c], first[c])
          BY <1>1, <1>2 DEF HasRuns
        <5>3. d = c => start <= b /\ b < end
          BY <1>2, <4>1, <4>3, <5>2 DEF HasRun
        <5> QED
          BY <1>7, <4>2, <4>3, <5>1, <5>3
      <4>4. CASE i # p
        <5>1. t2.nodes[i].children_[b] = d /\ d # c
          BY <1>2, <1>10, <3>2, <4>2, <4>4
        <5> HIDE DEF d
        <5> QED
          BY <1>7, <4>2, <5>1
      <4> QED
        BY <4>3, <4>4
    <3> QED
      BY <1>6, <3>1, <3>2
  <2>8. ASSUME NEW d \in Nodes(t2)
        PROVE  HasRun(t2.nodes[parent2[d]], d, t2.nodes[d], first2[d])
    BY <1>6, <2>4, <2>5, <2>6
  <2> QED
    BY <2>2, <2>7, <2>8 DEF HasRuns
<1>13. HasRegions(t2, parent2, first2, from2, to2)
  <2>1. ASSUME NEW d \in Nodes(t2)
        PROVE  IF parent2[d] = Superroot
               THEN from2[d] = t2.key_domain_min_ /\ to2[d] = t2.key_domain_max_
               ELSE /\ from2[d] = Edge(t2.nodes[parent2[d]], first2[d])
                    /\ to2[d] = Edge(t2.nodes[parent2[d]], first2[d] + Repeats(t2.nodes[d]))
    <3>1. CASE d = m
      <4>1. IF p = Superroot
            THEN from[c] = t.key_domain_min_ /\ to[c] = t.key_domain_max_
            ELSE /\ from[c] = Edge(t.nodes[p], first[c])
                 /\ to[c] = Edge(t.nodes[p], first[c] + Repeats(t.nodes[c]))
        BY <1>1, <1>2 DEF HasRegions
      <4> QED
        BY <1>4, <1>7, <1>9, <1>11, <3>1, <4>1
    <3>2. CASE d = c
      <4>1. 0 + 2^x = t2.nodes[m].num_children_
        BY <1>4, PowerFacts
      <4> QED
        BY <1>2, <1>6, <1>7, <1>9, <3>2, <4>1
    <3>3. CASE d \in Nodes(t) /\ d # c
      <4>1. IF parent[d] = Superroot
            THEN from[d] = t.key_domain_min_ /\ to[d] = t.key_domain_max_
            ELSE /\ from[d] = Edge(t.nodes[parent[d]], first[d])
                 /\ to[d] = Edge(t.nodes[parent[d]], first[d] + Repeats(t.nodes[d]))
        BY <1>1, <3>3 DEF HasRegions
      <4> DEFINE q == parent[d]
      <4>2. q \in Models(t)
        BY <1>1, <3>3
      <4>3. /\ parent2[d] = q /\ first2[d] = first[d]
            /\ from2[d] = from[d] /\ to2[d] = to[d]
            /\ Repeats(t2.nodes[d]) = Repeats(t.nodes[d])
        BY <1>7, <1>9, <3>3
      <4>4. /\ Edge(t2.nodes[q], first[d]) = Edge(t.nodes[q], first[d])
            /\ Edge(t2.nodes[q], first[d] + Repeats(t.nodes[d]))
                   = Edge(t.nodes[q], first[d] + Repeats(t.nodes[d]))
        BY <1>11, <4>2
      <4> QED
        BY <1>4, <4>1, <4>3, <4>4
    <3> QED
      BY <1>6, <3>1, <3>2, <3>3
  <2>2. ASSUME NEW i \in Models(t2) \ {Superroot}
        PROVE  /\ from2[i] = Edge(t2.nodes[i], 0)
               /\ to2[i] = Edge(t2.nodes[i], t2.nodes[i].num_children_)
    <3>1. CASE i = m
      BY <1>2, <1>7, <3>1
    <3>2. CASE i \in Models(t) /\ i # m
      <4>1. from[i] = Edge(t.nodes[i], 0) /\ to[i] = Edge(t.nodes[i], t.nodes[i].num_children_)
        BY <1>1, <3>2 DEF HasRegions
      <4>2. i \in Nodes(t)
        BY <1>3, <3>2
      <4> QED
        BY <1>7, <1>10, <1>11, <3>2, <4>1, <4>2
    <3> QED
      BY <1>6, <3>1, <3>2
  <2> QED
    BY <2>1, <2>2 DEF HasRegions
<1>14. /\ IsTree(t2) /\ parent2 \in [Nodes(t2) -> Models(t2)]
       /\ first2 \in [Nodes(t2) -> Nat]
  BY <1>4, <1>8 DEF AreGhosts
<1>15. ~t2.nodes[Root(t2)].is_leaf_
  <2>1. Root(t2) \in Nodes(t2) /\ parent2[Root(t2)] = Superroot
    BY <1>12, <1>14, RootFacts
  <2>2. CASE Root(t2) = m
    BY <1>4, <2>2
  <2>3. CASE Root(t2) # m
    <3>1. Root(t2) # c
      BY <1>6, <1>7, <2>1
    <3>2. Root(t2) \in Nodes(t) /\ parent[Root(t2)] = Superroot
      BY <1>6, <1>7, <2>1, <2>3, <3>1
    <3>3. Root(t2) = Root(t)
      BY <1>1, <3>2, RootFacts
    <3>4. ~t.nodes[Root(t)].is_leaf_
      <4>1. Nodes(t) # {Root(t)}
        BY <1>2, <3>1, <3>3
      <4> QED
        BY <1>1, <4>1, RootLeafIsAlone
    <3> QED
      BY <1>3, <1>4, <3>2, <3>3, <3>4
  <2> QED
    BY <2>2, <2>3
<1>16. \A i \in Nodes(t) : /\ t.key_domain_min_ <= from[i] /\ from[i] < to[i]
                           /\ to[i] <= t.key_domain_max_
  <2>1. CASE ~t.nodes[Root(t)].is_leaf_
    BY <1>1, <2>1 DEF HasDomain
  <2>2. CASE t.nodes[Root(t)].is_leaf_
    <3>1. Nodes(t) = {Root(t)} /\ parent[Root(t)] = Superroot
      BY <1>1, <2>2, RootLeafIsAlone, RootFacts
    <3>2. \A i \in Nodes(t) : from[i] = t.key_domain_min_ /\ to[i] = t.key_domain_max_
      BY <1>1, <3>1 DEF HasRegions
    <3> QED
      BY <1>2, <1>3, <3>2
  <2> QED
    BY <2>1, <2>2
<1>17. HasDomain(t2, from2, to2)
  BY <1>2, <1>4, <1>6, <1>7, <1>16 DEF HasDomain
<1>18. \A i \in Leaves(t) : i \in Nodes(t)
  BY <1>1, NodeFacts
<1>19. AreApart(t2, from2, to2)
  BY <1>1, <1>6, <1>7, <1>18 DEF AreApart
<1>20. IsChained(t2, from2, to2)
  <2>1. ASSUME NEW i \in Leaves(t)
        PROVE  LET n == t2.nodes[i]
               IN  /\ \/ n.next_leaf_ = NoNode /\ to2[i] = t2.key_domain_max_
                      \/ n.next_leaf_ \in Leaves(t) \ {i} /\ from2[n.next_leaf_] = to2[i]
                   /\ \/ n.prev_leaf_ = NoNode /\ from2[i] = t2.key_domain_min_
                      \/ n.prev_leaf_ \in Leaves(t) \ {i} /\ to2[n.prev_leaf_] = from2[i]
    <3>1. /\ \/ t.nodes[i].next_leaf_ = NoNode /\ to[i] = t.key_domain_max_
             \/ t.nodes[i].next_leaf_ \in Leaves(t) \ {i} /\ from[t.nodes[i].next_leaf_] = to[i]
          /\ \/ t.nodes[i].prev_leaf_ = NoNode /\ from[i] = t.key_domain_min_
             \/ t.nodes[i].prev_leaf_ \in Leaves(t) \ {i} /\ to[t.nodes[i].prev_leaf_] = from[i]
      BY <1>1 DEF IsChained
    <3>2. /\ t2.nodes[i].next_leaf_ = t.nodes[i].next_leaf_
          /\ t2.nodes[i].prev_leaf_ = t.nodes[i].prev_leaf_
      BY <1>10
    <3>3. \A j \in Leaves(t) : from2[j] = from[j] /\ to2[j] = to[j]
      BY <1>7, <1>18
    <3> QED
      BY <1>4, <3>1, <3>2, <3>3
  <2> QED
    BY <1>6, <2>1 DEF IsChained
<1>21. \A key \in Int : /\ Clamped(t2, key) = Clamped(t, key)
                        /\ IsIn(t2, from2, to2, m, key) <=> IsIn(t, from, to, c, key)
                        /\ \A i \in Nodes(t) : IsIn(t2, from2, to2, i, key)
                                                   <=> IsIn(t, from, to, i, key)
  <2>1. \A key : Clamped(t2, key) = Clamped(t, key)
    BY <1>4 DEF Clamped
  <2> QED
    BY <1>7, <2>1 DEF IsIn
<1>22. IsRouted(t2, from2, to2)
  <2>1. ASSUME NEW i \in Leaves(t), NEW key \in t.nodes[i].keys
        PROVE  IsIn(t, from, to, i, key)
    <3>1. CASE ~t.nodes[Root(t)].is_leaf_
      BY <1>1, <3>1 DEF IsRouted
    <3>2. CASE t.nodes[Root(t)].is_leaf_
      <4>1. i = Root(t) /\ i \in Nodes(t) /\ parent[i] = Superroot
        BY <1>1, <3>2, RootLeafIsAlone, RootFacts
      <4>2. from[i] = t.key_domain_min_ /\ to[i] = t.key_domain_max_
        BY <1>1, <4>1 DEF HasRegions
      <4>3. key \in Int
        BY <1>1, NodeFacts, KeysAreWithinTheType
      <4> QED
        BY <1>2, <1>3, <4>2, <4>3, ClampedFacts DEF IsIn
    <3> QED
      BY <3>1, <3>2
  <2>2. \A i \in Leaves(t) : \A key \in t.nodes[i].keys : key \in Int
    BY <1>1, NodeFacts, KeysAreWithinTheType
  <2> QED
    BY <1>6, <1>10, <1>18, <1>21, <2>1, <2>2 DEF IsRouted
<1>23. Keys(t2) = Keys(t)
  <2>1. \A k : k \in Keys(t2) <=> k \in Keys(t)
    BY <1>6, <1>10, KeysFacts
  <2> QED
    BY <2>1
<1>24. WellFormed(t2, parent2, first2, from2, to2)
  BY <1>4, <1>8, <1>12, <1>13, <1>17, <1>19, <1>20, <1>22 DEF WellFormed
<1> QED
  BY <1>6, <1>7, <1>9, <1>15, <1>21, <1>23, <1>24 DEF IsRaised

\* So there are a parent, and so on, for each node of the new tree.
LEMMA InterposedIsRaised ==
    ASSUME NEW t, NEW parent, NEW first, NEW from, NEW to,
           WellFormed(t, parent, first, from, to),
           NEW t2, NEW p, NEW c, NEW m, NEW x, NEW start, NEW end,
           IsInterposed(t, t2, p, c, m, x, start, end),
           TakesPlace(t, parent, first, from, to, t2, p, c, m, start, end)
    PROVE  \E parent2, first2, from2, to2 :
               IsRaised(t, from, to, t2, parent2, first2, from2, to2, p, c, m, x)
<1> DEFINE parent2 == InterposedGhost(t2, parent, m, p, c, m)
           first2 == InterposedGhost(t2, first, m, first[c], c, 0)
           from2 == InterposedGhost(t2, from, m, from[c], c, from[c])
           to2 == InterposedGhost(t2, to, m, to[c], c, to[c])
<1>1. /\ parent2 = InterposedGhost(t2, parent, m, p, c, m)
      /\ first2 = InterposedGhost(t2, first, m, first[c], c, 0)
      /\ from2 = InterposedGhost(t2, from, m, from[c], c, from[c])
      /\ to2 = InterposedGhost(t2, to, m, to[c], c, to[c])
  OBVIOUS
<1> HIDE DEF parent2, first2, from2, to2
<1>2. IsRaised(t, from, to, t2, parent2, first2, from2, to2, p, c, m, x)
  BY <1>1, InterposedIsWellFormed
<1> QED
  BY <1>2

-----------------------------------------------------------------------------
(* The fanout trees that a leaf is split by.                               *)

\* The logs of how many of a depth's 2^depth buckets each new leaf takes.
IsFanout(depth, factors) ==
    \/ depth = 1 /\ factors = <<0, 0>>
    \/ depth = 2 /\ factors \in {<<1, 0, 0>>, <<0, 0, 1>>, <<0, 0, 0, 0>>}

\* A multiple of a number leaves no remainder.
LEMMA Multiples ==
    ASSUME NEW q \in Nat, NEW u \in Nat, u > 0
    PROVE  (q * u) % u = 0 /\ q * u \in Nat
BY DivisionIsExact

\* New leaves with all of a run, each with 2^extra times its buckets.
LEMMA FanoutIsRuns ==
    ASSUME NEW depth, NEW factors, IsFanout(depth, factors), NEW extra \in Nat,
           NEW start \in Nat, start % 2^(depth + extra) = 0,
           NEW g, g = [j \in DOMAIN factors |-> factors[j] + extra]
    PROVE  /\ Len(g) \in Nat /\ Len(g) > 0
           /\ AreRuns(Ends(start, g), g, Len(g))
           /\ Ends(start, g)[0] = start
           /\ Ends(start, g)[Len(g)] = start + 2^(depth + extra)
           /\ depth \in 1 .. 2
<1> DEFINE u == 2^extra
           ends == Ends(start, g)
           count == Len(g)
<1>1. /\ u \in Nat /\ u > 0
      /\ 2^(1 + extra) = 2 * u /\ 2^(2 + extra) = 2 * (2 * u)
      /\ 2^(0 + extra) = u
  <2>1. /\ 2^extra \in Nat /\ 2^extra > 0 /\ 2^(extra + 1) = 2 * 2^extra
        /\ 2^((extra + 1) + 1) = 2 * 2^(extra + 1)
    BY PowerFacts
  <2>2. 1 + extra = extra + 1 /\ 2 + extra = (extra + 1) + 1 /\ 0 + extra = extra
    OBVIOUS
  <2> QED
    BY <2>1, <2>2
<1>2. count \in Nat =>
          /\ ends[0] = start
          /\ \A j \in 1 .. count : ends[j] = ends[j - 1] + 2^g[j]
  BY EndsUnfold
<1> HIDE DEF u, ends
<1>3. \A q \in Nat : (q * u) % u = 0 /\ (q * (2 * u)) % (2 * u) = 0
  <2>1. 2 * u \in Nat /\ 2 * u > 0
    BY <1>1
  <2> QED
    BY <1>1, <2>1, Multiples
<1>4. CASE depth = 1 /\ factors = <<0, 0>>
  <2>1. start % (2 * u) = 0
    BY <1>1, <1>4
  <2>2. PICK q \in Nat : start = q * (2 * u)
    <3> DEFINE w == 2 * u
    <3>1. w \in Nat /\ w > 0
      BY <1>1
    <3>2. start % w = 0
      BY <2>1
    <3> HIDE DEF w
    <3>3. start = (start \div w) * w + (start % w) /\ start \div w \in Int
      BY <3>1, Remainders
    <3>4. start = (start \div w) * w
      BY <3>1, <3>2, <3>3
    <3>5. start \div w \in Nat
      BY <3>1
    <3> QED
      BY <3>4, <3>5 DEF w
  <2>3. start = (2 * q) * u /\ start + u = (2 * q + 1) * u
    BY <1>1, <2>2
  <2>4. start % u = 0 /\ (start + u) % u = 0
    <3>1. 2 * q \in Nat /\ 2 * q + 1 \in Nat
      OBVIOUS
    <3> QED
      BY <1>3, <2>3, <3>1
  <2>5. count = 2 /\ g[1] = extra /\ g[2] = extra
    BY <1>4
  <2>6. ends[0] = start /\ ends[1] = ends[0] + 2^g[1] /\ ends[2] = ends[1] + 2^g[2]
    <3>1. ends[1] = ends[1 - 1] + 2^g[1] /\ ends[2] = ends[2 - 1] + 2^g[2]
      BY <1>2, <2>5
    <3> QED
      BY <1>2, <2>5, <3>1
  <2>7. ends[0] = start /\ ends[1] = start + u /\ ends[2] = start + 2 * u
    BY <1>1, <2>5, <2>6 DEF u
  <2>8. AreRuns(ends, g, count)
    <3>1. ASSUME NEW j \in 1 .. 2
          PROVE  /\ g[j] \in Nat /\ ends[j] = ends[j - 1] + 2^g[j]
                 /\ ends[j - 1] % 2^g[j] = 0
      <4>1. j = 1 \/ j = 2
        OBVIOUS
      <4>2. ends[1 - 1] % 2^g[1] = 0 /\ ends[2 - 1] % 2^g[2] = 0
        BY <2>4, <2>5, <2>7 DEF u
      <4>3. ends[j] = ends[j - 1] + 2^g[j]
        BY <1>2, <2>5
      <4>4. g[j] \in Nat
        BY <2>5, <4>1
      <4>5. ends[j - 1] % 2^g[j] = 0
        BY <4>1, <4>2
      <4> QED
        BY <4>3, <4>4, <4>5
    <3> QED
      BY <2>5, <2>7, <3>1 DEF AreRuns
  <2> QED
    BY <1>1, <1>4, <2>5, <2>7, <2>8 DEF ends
<1>5. CASE depth = 2 /\ factors \in {<<1, 0, 0>>, <<0, 0, 1>>, <<0, 0, 0, 0>>}
  <2>1. start % (2 * (2 * u)) = 0
    BY <1>1, <1>5
  <2>2. PICK q \in Nat : start = q * (2 * (2 * u))
    <3> DEFINE w == 2 * (2 * u)
    <3>1. w \in Nat /\ w > 0
      BY <1>1
    <3>2. start % w = 0
      BY <2>1
    <3> HIDE DEF w
    <3>3. start = (start \div w) * w + (start % w) /\ start \div w \in Int
      BY <3>1, Remainders
    <3>4. start = (start \div w) * w
      BY <3>1, <3>2, <3>3
    <3>5. start \div w \in Nat
      BY <3>1
    <3> QED
      BY <3>4, <3>5 DEF w
  <2>3. /\ start = (4 * q) * u /\ start + u = (4 * q + 1) * u
        /\ start + 2 * u = (4 * q + 2) * u /\ start + 3 * u = (4 * q + 3) * u
        /\ start = (2 * q) * (2 * u) /\ start + 2 * u = (2 * q + 1) * (2 * u)
    BY <1>1, <2>2
  <2>4. /\ start % u = 0 /\ (start + u) % u = 0
        /\ (start + 2 * u) % u = 0 /\ (start + 3 * u) % u = 0
        /\ start % (2 * u) = 0 /\ (start + 2 * u) % (2 * u) = 0
    <3>1. /\ 4 * q \in Nat /\ 4 * q + 1 \in Nat /\ 4 * q + 2 \in Nat /\ 4 * q + 3 \in Nat
          /\ 2 * q \in Nat /\ 2 * q + 1 \in Nat
      OBVIOUS
    <3> QED
      BY <1>3, <2>3, <3>1
  <2>10. 2^(1 + extra) = 2 * u /\ 2^(0 + extra) = u
    BY <1>1
  <2>5. CASE factors = <<1, 0, 0>>
    <3>1. count = 3 /\ g[1] = 1 + extra /\ g[2] = 0 + extra /\ g[3] = 0 + extra
      BY <2>5
    <3>2. /\ ends[0] = start /\ ends[1] = ends[0] + 2^g[1] /\ ends[2] = ends[1] + 2^g[2]
          /\ ends[3] = ends[2] + 2^g[3]
      <4>1. /\ ends[1] = ends[1 - 1] + 2^g[1] /\ ends[2] = ends[2 - 1] + 2^g[2]
            /\ ends[3] = ends[3 - 1] + 2^g[3]
        BY <1>2, <3>1
      <4> QED
        BY <1>2, <3>1, <4>1
    <3>3. /\ ends[0] = start /\ ends[1] = start + 2 * u /\ ends[2] = start + 3 * u
          /\ ends[3] = start + 4 * u
      BY <1>1, <2>10, <3>1, <3>2
    <3>4. ASSUME NEW j \in 1 .. 3
          PROVE  /\ g[j] \in Nat /\ ends[j] = ends[j - 1] + 2^g[j]
                 /\ ends[j - 1] % 2^g[j] = 0
      <4>1. j = 1 \/ j = 2 \/ j = 3
        OBVIOUS
      <4>2. ends[1 - 1] % 2^g[1] = 0 /\ ends[2 - 1] % 2^g[2] = 0 /\ ends[3 - 1] % 2^g[3] = 0
        BY <2>4, <2>10, <3>1, <3>3
      <4>3. ends[j] = ends[j - 1] + 2^g[j]
        BY <1>2, <3>1
      <4>4. g[j] \in Nat
        BY <3>1, <4>1
      <4>5. ends[j - 1] % 2^g[j] = 0
        BY <4>1, <4>2
      <4> QED
        BY <4>3, <4>4, <4>5
    <3>5. AreRuns(ends, g, count)
      BY <3>1, <3>3, <3>4 DEF AreRuns
    <3> QED
      BY <1>1, <1>5, <3>1, <3>3, <3>5 DEF ends
  <2>6. CASE factors = <<0, 0, 1>>
    <3>1. count = 3 /\ g[1] = 0 + extra /\ g[2] = 0 + extra /\ g[3] = 1 + extra
      BY <2>6
    <3>2. /\ ends[0] = start /\ ends[1] = ends[0] + 2^g[1] /\ ends[2] = ends[1] + 2^g[2]
          /\ ends[3] = ends[2] + 2^g[3]
      <4>1. /\ ends[1] = ends[1 - 1] + 2^g[1] /\ ends[2] = ends[2 - 1] + 2^g[2]
            /\ ends[3] = ends[3 - 1] + 2^g[3]
        BY <1>2, <3>1
      <4> QED
        BY <1>2, <3>1, <4>1
    <3>3. /\ ends[0] = start /\ ends[1] = start + u /\ ends[2] = start + 2 * u
          /\ ends[3] = start + 4 * u
      BY <1>1, <2>10, <3>1, <3>2
    <3>4. ASSUME NEW j \in 1 .. 3
          PROVE  /\ g[j] \in Nat /\ ends[j] = ends[j - 1] + 2^g[j]
                 /\ ends[j - 1] % 2^g[j] = 0
      <4>1. j = 1 \/ j = 2 \/ j = 3
        OBVIOUS
      <4>2. ends[1 - 1] % 2^g[1] = 0 /\ ends[2 - 1] % 2^g[2] = 0 /\ ends[3 - 1] % 2^g[3] = 0
        BY <2>4, <2>10, <3>1, <3>3
      <4>3. ends[j] = ends[j - 1] + 2^g[j]
        BY <1>2, <3>1
      <4>4. g[j] \in Nat
        BY <3>1, <4>1
      <4>5. ends[j - 1] % 2^g[j] = 0
        BY <4>1, <4>2
      <4> QED
        BY <4>3, <4>4, <4>5
    <3>5. AreRuns(ends, g, count)
      BY <3>1, <3>3, <3>4 DEF AreRuns
    <3> QED
      BY <1>1, <1>5, <3>1, <3>3, <3>5 DEF ends
  <2>7. CASE factors = <<0, 0, 0, 0>>
    <3>1. /\ count = 4 /\ g[1] = 0 + extra /\ g[2] = 0 + extra /\ g[3] = 0 + extra
          /\ g[4] = 0 + extra
      BY <2>7
    <3>2. /\ ends[0] = start /\ ends[1] = ends[0] + 2^g[1] /\ ends[2] = ends[1] + 2^g[2]
          /\ ends[3] = ends[2] + 2^g[3] /\ ends[4] = ends[3] + 2^g[4]
      <4>1. /\ ends[1] = ends[1 - 1] + 2^g[1] /\ ends[2] = ends[2 - 1] + 2^g[2]
            /\ ends[3] = ends[3 - 1] + 2^g[3] /\ ends[4] = ends[4 - 1] + 2^g[4]
        BY <1>2, <3>1
      <4> QED
        BY <1>2, <3>1, <4>1
    <3>3. /\ ends[0] = start /\ ends[1] = start + u /\ ends[2] = start + 2 * u
          /\ ends[3] = start + 3 * u /\ ends[4] = start + 4 * u
      BY <1>1, <2>10, <3>1, <3>2
    <3>4. ASSUME NEW j \in 1 .. 4
          PROVE  /\ g[j] \in Nat /\ ends[j] = ends[j - 1] + 2^g[j]
                 /\ ends[j - 1] % 2^g[j] = 0
      <4>1. j = 1 \/ j = 2 \/ j = 3 \/ j = 4
        OBVIOUS
      <4>2. /\ ends[1 - 1] % 2^g[1] = 0 /\ ends[2 - 1] % 2^g[2] = 0
            /\ ends[3 - 1] % 2^g[3] = 0 /\ ends[4 - 1] % 2^g[4] = 0
        BY <2>4, <2>10, <3>1, <3>3
      <4>3. ends[j] = ends[j - 1] + 2^g[j]
        BY <1>2, <3>1
      <4>4. g[j] \in Nat
        BY <3>1, <4>1
      <4>5. ends[j - 1] % 2^g[j] = 0
        BY <4>1, <4>2
      <4> QED
        BY <4>3, <4>4, <4>5
    <3>5. AreRuns(ends, g, count)
      BY <3>1, <3>3, <3>4 DEF AreRuns
    <3> QED
      BY <1>1, <1>5, <3>1, <3>3, <3>5 DEF ends
  <2> QED
    BY <1>5, <2>5, <2>6, <2>7
<1> QED
  BY <1>4, <1>5 DEF IsFanout

\* The total fanout is all buckets of the depth.
LEMMA TotalFanoutIsPower ==
    ASSUME NEW depth, NEW factors, IsFanout(depth, factors)
    PROVE  /\ TotalFanout(factors) = 2^depth /\ depth \in 1 .. 2
           /\ TotalFanout(factors) \in {2, 4}
           /\ factors = [j \in DOMAIN factors |-> factors[j] + 0]
<1>1. factors = [j \in DOMAIN factors |-> factors[j] + 0] /\ depth \in 1 .. 2
  BY DEF IsFanout
<1>2. depth + 0 = depth /\ 2^depth \in Nat /\ 2^depth > 0
  BY <1>1, PowerFacts
<1>3. 0 % 2^(depth + 0) = 0
  BY <1>2
<1>4. Ends(0, factors)[Len(factors)] = 0 + 2^(depth + 0)
  BY <1>1, <1>3, FanoutIsRuns
<1>5. 2^1 = 2 /\ 2^2 = 4
  <2>1. 2^0 = 1 /\ 2^(0 + 1) = 2 * 2^0 /\ 2^(1 + 1) = 2 * 2^1
    BY PowerFacts
  <2>2. 0 + 1 = 1 /\ 1 + 1 = 2
    OBVIOUS
  <2> QED
    BY <2>1, <2>2
<1>6. depth = 1 \/ depth = 2
  BY <1>1
<1>7. TotalFanout(factors) = 2^depth
  BY <1>2, <1>4 DEF TotalFanout
<1> QED
  BY <1>1, <1>5, <1>6, <1>7

-----------------------------------------------------------------------------
\* A node at the next free address.
Allocated(t, n) ==
    [t EXCEPT !.nodes = [i \in DOMAIN @ \cup {t.fresh} |-> IF i = t.fresh THEN n ELSE @[i]],
              !.fresh = @ + 1]

\* A tree with a new node is a tree, and its other nodes are as before.
LEMMA AllocatedFacts ==
    ASSUME NEW t, IsTree(t), NEW n, IsModel(n) \/ n \in LeafNodes
    PROVE  LET t2 == Allocated(t, n)
           IN  /\ IsTree(t2) /\ DOMAIN t2.nodes = DOMAIN t.nodes \cup {t.fresh}
               /\ t2.fresh = t.fresh + 1
               /\ t2.key_domain_min_ = t.key_domain_min_
               /\ t2.key_domain_max_ = t.key_domain_max_
               /\ t2.nodes[t.fresh] = n /\ t.fresh \notin DOMAIN t.nodes
               /\ \A j \in DOMAIN t.nodes : t2.nodes[j] = t.nodes[j]
<1> DEFINE nodes == [i \in DOMAIN t.nodes \cup {t.fresh} |-> IF i = t.fresh THEN n ELSE t.nodes[i]]
<1>1. Allocated(t, n) = [t EXCEPT !.nodes = nodes, !.fresh = t.fresh + 1]
  BY DEF Allocated
<1>2. AreNodes(t.nodes, t.fresh) /\ t.key_domain_min_ \in Int /\ t.key_domain_max_ \in Int
  BY NodesOfTree
<1>3. t.fresh \in Nat /\ \A i \in DOMAIN t.nodes : i \in Nat /\ i < t.fresh
  BY NodeFacts
<1>4. /\ DOMAIN nodes = DOMAIN t.nodes \cup {t.fresh} /\ nodes[t.fresh] = n
      /\ t.fresh \notin DOMAIN t.nodes
      /\ \A j \in DOMAIN t.nodes : nodes[j] = t.nodes[j]
      /\ nodes = [j \in DOMAIN nodes |-> nodes[j]]
  BY <1>3
<1> HIDE DEF nodes
<1>5. AreNodes(nodes, t.fresh + 1)
  BY <1>2, <1>3, <1>4 DEF AreNodes
<1>6. [t EXCEPT !.nodes = nodes, !.fresh = t.fresh + 1]
          = TreeOf(nodes, t.fresh + 1, t.key_domain_min_, t.key_domain_max_)
  BY TreeSetters
<1> QED
  BY <1>1, <1>2, <1>4, <1>5, <1>6, TreeOfFacts

\* A leaf with another level and duplication factor.
LEMMA LeafWithPlace ==
    ASSUME NEW n \in LeafNodes, NEW d \in Nat, NEW l \in Int
    PROVE  LET m == [n EXCEPT !.duplication_factor_ = d, !.level_ = l]
           IN  /\ m \in LeafNodes /\ m.is_leaf_ /\ m.level_ = l
               /\ m.duplication_factor_ = d /\ m.keys = n.keys
               /\ m.prev_leaf_ = n.prev_leaf_ /\ m.next_leaf_ = n.next_leaf_
BY DEF LeafNodes

\* A model node can come between a node and its parent.
LEMMA InterposedExists ==
    ASSUME NEW t, NEW parent, NEW first, NEW from, NEW to,
           WellFormed(t, parent, first, from, to),
           NEW c \in Nodes(t), NEW p, parent[c] = p,
           NEW n, IsModel(n), NEW x \in Nat, n.num_children_ = 2^x,
           n.duplication_factor_ = t.nodes[c].duplication_factor_,
           p # Superroot => t.nodes[p].level_ < n.level_,
           c \in Models(t) => x = t.nodes[c].duplication_factor_ /\ n.level_ < t.nodes[c].level_
    PROVE  \E t2 : /\ IsInterposed(t, t2, p, c, t.fresh, x,
                                   first[c], first[c] + Repeats(t.nodes[c]))
                   /\ t2.nodes[t.fresh].start = n.start
                   /\ t2.nodes[t.fresh].width = n.width
                   /\ t2.nodes[t.fresh].level_ = n.level_
                   /\ p = Superroot => t2.nodes[Superroot].level_ = n.level_ - 1
<1> DEFINE m == t.fresh
           start == first[c]
           end == first[c] + Repeats(t.nodes[c])
           ch == [b \in 0 .. n.num_children_ - 1 |-> c]
           node == [n EXCEPT !.children_ = ch]
           A == Allocated(t, node)
           B == Redirected(A, p, start, end, m)
           moved == [B.nodes[c] EXCEPT !.duplication_factor_ = x, !.level_ = n.level_ + 1]
           C == IF c \in Leaves(t) THEN WithNode(B, c, moved) ELSE B
           top == [C.nodes[Superroot] EXCEPT !.level_ = n.level_ - 1]
           D == IF p = Superroot THEN WithNode(C, Superroot, top) ELSE C
<1>1. /\ IsTree(t) /\ HasRuns(t, parent, first)
      /\ parent \in [Nodes(t) -> Models(t)] /\ first \in [Nodes(t) -> Nat]
  BY WellFormedParts
<1>2. /\ p \in Models(t) /\ p \in DOMAIN t.nodes /\ c \in DOMAIN t.nodes /\ c # Superroot
      /\ m \in Nat /\ m \notin DOMAIN t.nodes /\ c \in Int
      /\ c \in Leaves(t) <=> ~(c \in Models(t))
      /\ Superroot \in Models(t) /\ Superroot \in DOMAIN t.nodes
      /\ c # p /\ m # c /\ m # p /\ m # Superroot
      /\ \A i \in DOMAIN t.nodes : i # m
  <2>1. p \in Models(t) /\ t.nodes[p].level_ < t.nodes[c].level_
    BY <1>1, RunFacts
  <2>2. /\ m \in Nat /\ \A i \in DOMAIN t.nodes : i \in Nat /\ i < m /\ t.nodes[i].level_ \in Int
        /\ \A i \in Models(t) : i \in DOMAIN t.nodes
        /\ Superroot \in Models(t)
        /\ \A i \in DOMAIN t.nodes : i \in Leaves(t) <=> ~(i \in Models(t))
    BY <1>1, NodeFacts
  <2>3. c \in DOMAIN t.nodes /\ c # Superroot
    BY DEF Nodes
  <2>4. c # p
    BY <2>1, <2>2, <2>3
  <2> QED
    BY <2>1, <2>2, <2>3, <2>4
<1>3. n.num_children_ \in Nat /\ n.num_children_ > 0 /\ n.level_ \in Int
  BY DEF IsModel
<1>4. ch \in [0 .. n.num_children_ - 1 -> Int] /\ \A b \in 0 .. n.num_children_ - 1 : ch[b] = c
  BY <1>2
<1> HIDE DEF ch
<1>5. /\ IsModel(node) /\ ~node.is_leaf_ /\ node.level_ = n.level_
      /\ node.duplication_factor_ = n.duplication_factor_
      /\ node.start = n.start /\ node.width = n.width
      /\ node.num_children_ = n.num_children_ /\ node.children_ = ch
  BY <1>4, ModelWithChildren
<1> HIDE DEF node
<1>6. /\ IsTree(A) /\ DOMAIN A.nodes = DOMAIN t.nodes \cup {m} /\ A.fresh = t.fresh + 1
      /\ A.key_domain_min_ = t.key_domain_min_ /\ A.key_domain_max_ = t.key_domain_max_
      /\ A.nodes[m] = node
      /\ \A j \in DOMAIN t.nodes : A.nodes[j] = t.nodes[j]
  BY <1>1, <1>5, AllocatedFacts
<1>7. p \in Models(A)
  BY <1>2, <1>6 DEF Models, Leaves
<1> HIDE DEF A
<1>8. /\ IsTree(B) /\ DOMAIN B.nodes = DOMAIN A.nodes /\ B.fresh = A.fresh
      /\ B.key_domain_min_ = A.key_domain_min_ /\ B.key_domain_max_ = A.key_domain_max_
      /\ \A j \in DOMAIN A.nodes : j # p => B.nodes[j] = A.nodes[j]
      /\ ~B.nodes[p].is_leaf_
      /\ B.nodes[p].level_ = A.nodes[p].level_
      /\ B.nodes[p].duplication_factor_ = A.nodes[p].duplication_factor_
      /\ B.nodes[p].start = A.nodes[p].start
      /\ B.nodes[p].width = A.nodes[p].width
      /\ B.nodes[p].num_children_ = A.nodes[p].num_children_
      /\ \A b \in 0 .. A.nodes[p].num_children_ - 1 :
             B.nodes[p].children_[b] =
                 IF start <= b /\ b < end THEN m ELSE A.nodes[p].children_[b]
  <2>1. m \in Int
    BY <1>2
  <2> HIDE DEF m, start, end
  <2> QED
    BY <1>6, <1>7, <2>1, RedirectedFacts
<1> HIDE DEF B
<1>9. B.nodes[c] = t.nodes[c] /\ B.nodes[m] = node /\ c \in DOMAIN B.nodes
  BY <1>2, <1>6, <1>8
<1>10. c \in Leaves(t) =>
           /\ moved \in LeafNodes /\ moved.is_leaf_ /\ moved.level_ = n.level_ + 1
           /\ moved.duplication_factor_ = x /\ moved.keys = t.nodes[c].keys
           /\ moved.prev_leaf_ = t.nodes[c].prev_leaf_
           /\ moved.next_leaf_ = t.nodes[c].next_leaf_
  <2>1. SUFFICES ASSUME c \in Leaves(t) PROVE
           /\ moved \in LeafNodes /\ moved.is_leaf_ /\ moved.level_ = n.level_ + 1
           /\ moved.duplication_factor_ = x /\ moved.keys = t.nodes[c].keys
           /\ moved.prev_leaf_ = t.nodes[c].prev_leaf_
           /\ moved.next_leaf_ = t.nodes[c].next_leaf_
    OBVIOUS
  <2> DEFINE old == B.nodes[c]
             l == n.level_ + 1
  <2>2. old \in LeafNodes /\ l \in Int /\ old = t.nodes[c]
    BY <1>1, <1>3, <1>9, <2>1, NodeFacts
  <2>3. moved = [old EXCEPT !.duplication_factor_ = x, !.level_ = l]
    OBVIOUS
  <2> HIDE DEF moved, old, l
  <2>4. LET mm == [old EXCEPT !.duplication_factor_ = x, !.level_ = l]
        IN  /\ mm \in LeafNodes /\ mm.is_leaf_ /\ mm.level_ = l
            /\ mm.duplication_factor_ = x /\ mm.keys = old.keys
            /\ mm.prev_leaf_ = old.prev_leaf_ /\ mm.next_leaf_ = old.next_leaf_
    BY <2>2 DEF LeafNodes
  <2> QED
    BY <2>2, <2>3, <2>4 DEF l
<1> HIDE DEF moved
<1>11. /\ IsTree(C) /\ DOMAIN C.nodes = DOMAIN B.nodes /\ C.fresh = B.fresh
       /\ C.key_domain_min_ = B.key_domain_min_ /\ C.key_domain_max_ = B.key_domain_max_
       /\ \A j \in DOMAIN B.nodes : j # c => C.nodes[j] = B.nodes[j]
       /\ C.nodes[c] = IF c \in Leaves(t) THEN moved ELSE t.nodes[c]
  <2>1. CASE c \in Leaves(t)
    <3>1. C = WithNode(B, c, moved)
      BY <2>1
    <3> QED
      BY <1>2, <1>8, <1>9, <1>10, <2>1, <3>1, WithNodeFacts
  <2>2. CASE c \notin Leaves(t)
    BY <1>8, <1>9, <2>2
  <2> QED
    BY <2>1, <2>2
<1> HIDE DEF C
<1>12. /\ IsModel(C.nodes[Superroot]) /\ C.nodes[Superroot].num_children_ = 1
       /\ Superroot \in DOMAIN C.nodes
  BY <1>11 DEF IsTree
<1>13. /\ IsModel(top) /\ ~top.is_leaf_ /\ top.level_ = n.level_ - 1
       /\ top.duplication_factor_ = C.nodes[Superroot].duplication_factor_
       /\ top.start = C.nodes[Superroot].start /\ top.width = C.nodes[Superroot].width
       /\ top.num_children_ = C.nodes[Superroot].num_children_
       /\ top.children_ = C.nodes[Superroot].children_
  <2> DEFINE old == C.nodes[Superroot]
             l == n.level_ - 1
  <2>1. IsModel(old) /\ l \in Int
    BY <1>3, <1>12
  <2>2. top = [old EXCEPT !.level_ = l]
    OBVIOUS
  <2> HIDE DEF top, old, l
  <2>3. LET mm == [old EXCEPT !.level_ = l]
        IN  /\ IsModel(mm) /\ ~mm.is_leaf_ /\ mm.level_ = l
            /\ mm.duplication_factor_ = old.duplication_factor_
            /\ mm.start = old.start /\ mm.width = old.width
            /\ mm.num_children_ = old.num_children_ /\ mm.children_ = old.children_
    BY <2>1, ModelWithLevel
  <2> QED
    BY <2>2, <2>3 DEF l, old
<1> HIDE DEF top
<1>14. /\ IsTree(D) /\ DOMAIN D.nodes = DOMAIN C.nodes /\ D.fresh = C.fresh
       /\ D.key_domain_min_ = C.key_domain_min_ /\ D.key_domain_max_ = C.key_domain_max_
       /\ \A j \in DOMAIN C.nodes : j # Superroot => D.nodes[j] = C.nodes[j]
       /\ D.nodes[Superroot] = IF p = Superroot THEN top ELSE C.nodes[Superroot]
  <2>1. CASE p = Superroot
    <3>1. D = WithNode(C, Superroot, top)
      BY <2>1
    <3>2. top.num_children_ = 1
      BY <1>12, <1>13
    <3> HIDE DEF D
    <3>3. LET t2 == WithNode(C, Superroot, top)
          IN  /\ IsTree(t2) /\ DOMAIN t2.nodes = DOMAIN C.nodes /\ t2.fresh = C.fresh
              /\ t2.key_domain_min_ = C.key_domain_min_
              /\ t2.key_domain_max_ = C.key_domain_max_
              /\ t2.nodes[Superroot] = top
              /\ \A j \in DOMAIN C.nodes : j # Superroot => t2.nodes[j] = C.nodes[j]
      BY <1>11, <1>12, <1>13, <3>2, WithNodeFacts
    <3> QED
      BY <2>1, <3>1, <3>3
  <2>2. CASE p # Superroot
    BY <1>11, <2>2
  <2> QED
    BY <2>1, <2>2
<1> HIDE DEF D
\* Node by node.
<1>15. /\ \A i \in DOMAIN t.nodes : i # c /\ i # p /\ i # Superroot => D.nodes[i] = t.nodes[i]
       /\ D.nodes[m] = node
       /\ D.nodes[c] = IF c \in Leaves(t) THEN moved ELSE t.nodes[c]
       /\ p # Superroot => D.nodes[p] = B.nodes[p] /\ D.nodes[Superroot] = t.nodes[Superroot]
       /\ p = Superroot => D.nodes[p] = top
       /\ C.nodes[p] = B.nodes[p]
  BY <1>2, <1>6, <1>8, <1>9, <1>11, <1>14
<1>16. /\ D.nodes[p].is_leaf_ = t.nodes[p].is_leaf_
       /\ D.nodes[p].level_ = IF p = Superroot THEN n.level_ - 1 ELSE t.nodes[p].level_
       /\ D.nodes[p].duplication_factor_ = t.nodes[p].duplication_factor_
       /\ D.nodes[p].start = t.nodes[p].start
       /\ D.nodes[p].width = t.nodes[p].width
       /\ D.nodes[p].num_children_ = t.nodes[p].num_children_
       /\ \A b \in 0 .. t.nodes[p].num_children_ - 1 :
              D.nodes[p].children_[b] =
                  IF start <= b /\ b < end THEN m ELSE t.nodes[p].children_[b]
  <2>1. t.nodes[p].is_leaf_ = FALSE /\ D.nodes[p].is_leaf_ = FALSE
    <3>1. IsModel(t.nodes[p])
      BY <1>1, <1>2, NodeFacts
    <3>2. p \in DOMAIN D.nodes /\ ~D.nodes[p].is_leaf_
      BY <1>2, <1>6, <1>8, <1>11, <1>13, <1>14, <1>15
    <3>3. IsModel(D.nodes[p])
      BY <1>14, <3>2, NodeFacts
    <3> QED
      BY <3>1, <3>3 DEF IsModel
  <2>4. A.nodes[p] = t.nodes[p]
    BY <1>2, <1>6
  <2>5. /\ B.nodes[p].level_ = t.nodes[p].level_
        /\ B.nodes[p].duplication_factor_ = t.nodes[p].duplication_factor_
        /\ B.nodes[p].start = t.nodes[p].start
        /\ B.nodes[p].width = t.nodes[p].width
        /\ B.nodes[p].num_children_ = t.nodes[p].num_children_
        /\ \A b \in 0 .. t.nodes[p].num_children_ - 1 :
               B.nodes[p].children_[b] =
                   IF start <= b /\ b < end THEN m ELSE t.nodes[p].children_[b]
    BY <1>8, <2>4
  <2>2. CASE p = Superroot
    <3>1. /\ D.nodes[p] = top /\ top.level_ = n.level_ - 1
          /\ top.duplication_factor_ = B.nodes[p].duplication_factor_
          /\ top.start = B.nodes[p].start /\ top.width = B.nodes[p].width
          /\ top.num_children_ = B.nodes[p].num_children_
          /\ top.children_ = B.nodes[p].children_
      BY <1>13, <1>15, <2>2
    <3> QED
      BY <2>1, <2>2, <2>5, <3>1
  <2>3. CASE p # Superroot
    <3>1. D.nodes[p] = B.nodes[p]
      BY <1>15, <2>3
    <3> QED
      BY <2>1, <2>3, <2>5, <3>1
  <2> QED
    BY <2>2, <2>3
<1>17. /\ D.nodes[c].is_leaf_ = t.nodes[c].is_leaf_
       /\ D.nodes[c].duplication_factor_ = x
       /\ n.level_ < D.nodes[c].level_
       /\ c \in Models(t) => D.nodes[c] = t.nodes[c]
       /\ c \in Leaves(t) => /\ D.nodes[c].keys = t.nodes[c].keys
                             /\ D.nodes[c].prev_leaf_ = t.nodes[c].prev_leaf_
                             /\ D.nodes[c].next_leaf_ = t.nodes[c].next_leaf_
  <2>1. CASE c \in Leaves(t)
    <3>1. t.nodes[c] \in LeafNodes
      BY <1>1, <2>1, NodeFacts
    <3>2. t.nodes[c].is_leaf_ = TRUE /\ moved.is_leaf_ = TRUE
      BY <1>10, <2>1, <3>1 DEF LeafNodes
    <3>3. D.nodes[c] = moved /\ ~(c \in Models(t))
      BY <1>2, <1>15, <2>1
    <3>4. moved.level_ = n.level_ + 1 /\ n.level_ < n.level_ + 1
      BY <1>3, <1>10, <2>1
    <3>5. n.level_ < moved.level_
      BY <3>4
    <3> QED
      BY <1>10, <2>1, <3>2, <3>3, <3>5
  <2>2. CASE c \in Models(t)
    BY <1>2, <1>15, <2>2
  <2> QED
    BY <1>2, <2>1, <2>2
<1>18. /\ IsTree(D) /\ DOMAIN D.nodes = DOMAIN t.nodes \cup {m} /\ D.fresh = t.fresh + 1
       /\ D.key_domain_min_ = t.key_domain_min_ /\ D.key_domain_max_ = t.key_domain_max_
  BY <1>6, <1>8, <1>11, <1>14
<1>19. /\ \A i \in DOMAIN t.nodes :
              /\ D.nodes[i].is_leaf_ = t.nodes[i].is_leaf_
              /\ i # c => D.nodes[i].duplication_factor_ = t.nodes[i].duplication_factor_
              /\ i # c /\ i # Superroot => D.nodes[i].level_ = t.nodes[i].level_
       /\ p # Superroot => D.nodes[Superroot].level_ = t.nodes[Superroot].level_
  <2>1. ASSUME NEW i \in DOMAIN t.nodes
        PROVE  /\ D.nodes[i].is_leaf_ = t.nodes[i].is_leaf_
               /\ i # c => D.nodes[i].duplication_factor_ = t.nodes[i].duplication_factor_
               /\ i # c /\ i # Superroot => D.nodes[i].level_ = t.nodes[i].level_
    <3>1. CASE i = c
      BY <1>17, <3>1
    <3>2. CASE i = p
      BY <1>16, <3>2
    <3>3. CASE i # c /\ i # p
      <4>1. D.nodes[i] = t.nodes[i] \/ (i = Superroot /\ p = Superroot)
        BY <1>15, <3>3
      <4> QED
        BY <3>3, <4>1
    <3> QED
      BY <3>1, <3>2, <3>3
  <2> QED
    BY <1>15, <2>1
<1>20. D.nodes[p].level_ < D.nodes[m].level_ /\ D.nodes[m].level_ < D.nodes[c].level_
  BY <1>3, <1>5, <1>15, <1>16, <1>17
<1>21. ASSUME NEW i \in Models(t)
       PROVE  /\ D.nodes[i].start = t.nodes[i].start
              /\ D.nodes[i].width = t.nodes[i].width
              /\ D.nodes[i].num_children_ = t.nodes[i].num_children_
              /\ i # p => D.nodes[i].children_ = t.nodes[i].children_
  <2>1. i \in DOMAIN t.nodes
    BY <1>1, NodeFacts
  <2>2. CASE i = p
    BY <1>16, <2>2
  <2>3. CASE i # p
    <3>1. D.nodes[i] = t.nodes[i]
      BY <1>15, <1>17, <2>1, <2>3
    <3> QED
      BY <2>3, <3>1
  <2> QED
    BY <2>2, <2>3
<1>22. ASSUME NEW i \in Leaves(t)
       PROVE  /\ D.nodes[i].keys = t.nodes[i].keys
              /\ D.nodes[i].next_leaf_ = t.nodes[i].next_leaf_
              /\ D.nodes[i].prev_leaf_ = t.nodes[i].prev_leaf_
  <2>0. i \in DOMAIN t.nodes /\ i \notin Models(t)
    BY DEF Models, Leaves
  <2>1. i \in DOMAIN t.nodes /\ i # p /\ i # Superroot
    BY <1>2, <2>0
  <2>2. CASE i = c
    BY <1>17, <2>2
  <2>3. CASE i # c
    BY <1>15, <2>1, <2>3
  <2> QED
    BY <2>2, <2>3
<1>23. /\ D.nodes[m].num_children_ = 2^x /\ \A b \in 0 .. 2^x - 1 : D.nodes[m].children_[b] = c
       /\ D.nodes[m].duplication_factor_ = t.nodes[c].duplication_factor_
       /\ ~D.nodes[m].is_leaf_
  BY <1>4, <1>5, <1>15
<1>24. IsInterposed(t, D, p, c, m, x, start, end)
  BY <1>16, <1>17, <1>18, <1>19, <1>20, <1>21, <1>22, <1>23 DEF IsInterposed
<1>25. /\ D.nodes[m].start = n.start /\ D.nodes[m].width = n.width /\ D.nodes[m].level_ = n.level_
       /\ p = Superroot => D.nodes[Superroot].level_ = n.level_ - 1
  BY <1>5, <1>15, <1>16
<1> QED
  BY <1>24, <1>25
=============================================================================
