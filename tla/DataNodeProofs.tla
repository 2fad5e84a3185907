--------------------------- MODULE DataNodeProofs ---------------------------
(***************************************************************************)
(* Theorems about DataNode for all keys, payloads, capacities and both     *)
(* kinds of map.  First lemmas about the operators of GappedArray: every   *)
(* operation keeps a node well formed (WellFormed), and the searches of a  *)
(* well-formed node find what they should.  Then the node stays well       *)
(* formed, and after each call answers and counters are those of its keys. *)
(* At last DataNode implements OrderedMultimap: the keys of a well-formed  *)
(* node, read along its bitmap, are the sorted sequence that it promises.  *)
(***************************************************************************)
EXTENDS DataNode, FiniteSetTheorems, SequenceTheorems, TLAPS

\* Keys and the ends of their type are integers, in order.
LEMMA KeysAreIntegers ==
    /\ kEndSentinel_ \in Int /\ kLowest \in Int /\ kLowest < kEndSentinel_
    /\ \A k \in Key : k \in Int /\ kLowest <= k /\ k <= kEndSentinel_
BY KeysAreInRange

\* A set of slots of an array of n slots.
LEMMA SetOfSlots ==
    ASSUME NEW n \in Nat, NEW S, \A s \in S : s \in 0 .. (n - 1)
    PROVE  /\ IsFiniteSet(S) /\ Cardinality(S) \in 0 .. n
           /\ \A s \in S : s \in Int /\ 0 <= s /\ s < n
<1>1. /\ IsFiniteSet(0 .. (n - 1))
      /\ Cardinality(0 .. (n - 1)) = n
  BY FS_Interval
<1>2. /\ IsFiniteSet(S)
      /\ Cardinality(S) \in Nat
      /\ Cardinality(S) <= n
  BY <1>1, FS_Subset, FS_CardinalityType
<1>3. S \subseteq 0 .. (n - 1)
  OBVIOUS
<1> QED
  BY <1>2, <1>3

-----------------------------------------------------------------------------
(* The searches.                                                           *)

\* Slots that form a prefix of the array are as many as the slot they reach.
LEMMA PrefixCardinality ==
    ASSUME NEW n \in Nat, NEW S, \A s \in S : s \in 0 .. (n - 1),
           \A i \in S : \A j \in 0 .. i : j \in S
    PROVE  /\ Cardinality(S) \in 0 .. n
           /\ \A i \in 0 .. (n - 1) : i \in S <=> i < Cardinality(S)
<1>1. /\ IsFiniteSet(0 .. (n - 1))
      /\ Cardinality(0 .. (n - 1)) = n
  BY FS_Interval
<1>2. /\ IsFiniteSet(S)
      /\ Cardinality(S) \in Nat
      /\ Cardinality(S) <= n
  BY <1>1, FS_Subset, FS_CardinalityType
<1>3. ASSUME NEW i \in 0 .. (n - 1), i \in S
      PROVE  i < Cardinality(S)
  <2>1. \A j \in 0 .. i : j \in S
    BY <1>3
  <2>2. Cardinality(0 .. i) <= Cardinality(S)
    BY <1>2, <2>1, FS_Subset
  <2>3. Cardinality(0 .. i) = i + 1
    BY FS_Interval
  <2> QED
    BY <1>2, <2>2, <2>3
<1>4. ASSUME NEW i \in 0 .. (n - 1), i \notin S
      PROVE  ~(i < Cardinality(S))
  <2>1. \A s \in S : s \in 0 .. (i - 1)
    <3> SUFFICES ASSUME NEW s \in S, i <= s PROVE FALSE
      OBVIOUS
    <3>1. i \in 0 .. s
      OBVIOUS
    <3> QED
      BY <1>4, <3>1
  <2>2. /\ IsFiniteSet(0 .. (i - 1))
        /\ Cardinality(0 .. (i - 1)) = i
    BY FS_Interval
  <2>3. Cardinality(S) <= i
    BY <2>1, <2>2, FS_Subset
  <2> QED
    BY <1>2, <2>3
<1> QED
  BY <1>2, <1>3, <1>4

\* The number of slots up to a key is where the greater keys begin.
LEMMA UpperBoundSplits ==
    ASSUME NEW d, NodeTypeOK(d), Ascending(d), NEW key \in Key
    PROVE  /\ upper_bound(d, key) \in 0 .. d.data_capacity_
           /\ \A i \in Slots(d) :
                  d.key_slots_[i] <= key <=> i < upper_bound(d, key)
<1> DEFINE S == {i \in Slots(d) : d.key_slots_[i] <= key}
<1>1. \A i \in Slots(d) : d.key_slots_[i] \in Int
  BY KeysAreIntegers DEF NodeTypeOK
<1>2. key \in Int
  BY KeysAreIntegers
<1>3. \A i \in S : \A j \in 0 .. i : j \in S
  BY <1>1, <1>2 DEF Ascending, Slots, NodeTypeOK
<1>4. /\ d.data_capacity_ \in Nat
      /\ S \in SUBSET (0 .. (d.data_capacity_ - 1))
  BY DEF Slots, NodeTypeOK
<1>5. /\ Cardinality(S) \in 0 .. d.data_capacity_
      /\ \A i \in 0 .. (d.data_capacity_ - 1) : i \in S <=> i < Cardinality(S)
  BY <1>3, <1>4, PrefixCardinality
<1> QED
  BY <1>5 DEF upper_bound, Slots

\* The lower bound splits the slots at the key.
LEMMA LowerBoundSplits ==
    ASSUME NEW d, NodeTypeOK(d), Ascending(d), NEW key \in Key
    PROVE  /\ lower_bound(d, key) \in 0 .. d.data_capacity_
           /\ \A i \in Slots(d) :
                  d.key_slots_[i] < key <=> i < lower_bound(d, key)
<1> DEFINE S == {i \in Slots(d) : d.key_slots_[i] < key}
<1>1. \A i \in Slots(d) : d.key_slots_[i] \in Int
  BY KeysAreIntegers DEF NodeTypeOK
<1>2. key \in Int
  BY KeysAreIntegers
<1>3. \A i \in S : \A j \in 0 .. i : j \in S
  BY <1>1, <1>2 DEF Ascending, Slots, NodeTypeOK
<1>4. /\ d.data_capacity_ \in Nat
      /\ S \in SUBSET (0 .. (d.data_capacity_ - 1))
  BY DEF Slots, NodeTypeOK
<1>5. /\ Cardinality(S) \in 0 .. d.data_capacity_
      /\ \A i \in 0 .. (d.data_capacity_ - 1) : i \in S <=> i < Cardinality(S)
  BY <1>3, <1>4, PrefixCardinality
<1> QED
  BY <1>5 DEF lower_bound, Slots

\* A set of natural numbers that is not empty has a least element.
LEMMA MinOfNaturals ==
    ASSUME NEW S \in SUBSET Nat, S # {}
    PROVE  Min(S) \in S /\ \A i \in S : Min(S) <= i
<1>1. PICK m \in S : \A i \in S : ~(<<i, m>> \in OpToRel(<, Nat))
  BY NatLessThanWellFounded, WFMin
<1>2. \A i \in S : m <= i
  <2> SUFFICES ASSUME NEW i \in S, i < m PROVE FALSE
    OBVIOUS
  <2>1. i \in Nat /\ m \in Nat
    OBVIOUS
  <2>2. <<i, m>> \in OpToRel(<, Nat)
    BY <2>1 DEF OpToRel
  <2> QED
    BY <1>1, <2>2
<1> QED
  BY <1>2 DEF Min

-----------------------------------------------------------------------------
(* Ranks.                                                                  *)

Below(S, i) == {j \in S : j < i}

\* Ranks grow with the slot, by one past an element.
LEMMA RankFacts ==
    ASSUME NEW n \in Nat, NEW S, \A s \in S : s \in 0 .. (n - 1), NEW i \in 0 .. n
    PROVE  /\ Rank(S, i) \in 0 .. Cardinality(S)
           /\ Rank(S, n) = Cardinality(S)
           /\ \A j \in 0 .. n :
                  i <= j => Rank(S, i) <= Rank(S, j)
           /\ i \in S => Rank(S, i + 1) = Rank(S, i) + 1
           /\ i < n /\ i \notin S => Rank(S, i + 1) = Rank(S, i)
<1>1. /\ IsFiniteSet(S) /\ Cardinality(S) \in Nat
      /\ \A s \in S : s \in Int /\ 0 <= s /\ s < n
  BY SetOfSlots
<1>2. ASSUME NEW j
      PROVE  /\ IsFiniteSet(Below(S, j))
             /\ Cardinality(Below(S, j)) \in 0 .. Cardinality(S)
  <2>1. Below(S, j) \subseteq S
    BY DEF Below
  <2> QED
    BY <1>1, <2>1, FS_Subset, FS_CardinalityType
<1>3. Below(S, n) = S
  BY <1>1 DEF Below
<1>4. ASSUME NEW j \in 0 .. n, i <= j
      PROVE  Cardinality(Below(S, i)) <= Cardinality(Below(S, j))
  <2>1. Below(S, i) \subseteq Below(S, j)
    BY <1>1, <1>4 DEF Below
  <2> QED
    BY <1>2, <2>1, FS_Subset
<1>5. ASSUME i \in S
      PROVE  Cardinality(Below(S, i + 1)) = Cardinality(Below(S, i)) + 1
  <2>1. \A s : s \in Below(S, i + 1) <=> s \in Below(S, i) \/ s = i
    <3>1. \A s \in S : s < i + 1 <=> s < i \/ s = i
      BY <1>1, <1>5
    <3> QED
      BY <1>5, <3>1, Zenon DEF Below
  <2>2. i \notin Below(S, i)
    BY <1>1 DEF Below
  <2>3. Below(S, i + 1) = Below(S, i) \cup {i}
    BY <2>1, Zenon
  <2> QED
    BY <1>2, <2>2, <2>3, FS_AddElement
<1>6. i < n /\ i \notin S => Below(S, i + 1) = Below(S, i)
  BY <1>1 DEF Below
<1> QED
  BY <1>2, <1>3, <1>4, <1>5, <1>6 DEF Rank, Below

\* An element is ranked below every later slot, and below the set's size.
LEMMA RankOfElement ==
    ASSUME NEW n \in Nat, NEW S, \A s \in S : s \in 0 .. (n - 1), NEW i \in S
    PROVE  /\ Rank(S, i) \in 0 .. (Cardinality(S) - 1)
           /\ \A j \in 0 .. n : i < j => Rank(S, i) < Rank(S, j)
<1>1. i \in 0 .. n /\ i + 1 \in 0 .. n /\ n \in 0 .. n
  OBVIOUS
<1>2. /\ Rank(S, i) \in 0 .. Cardinality(S)
      /\ Rank(S, i + 1) = Rank(S, i) + 1
  BY <1>1, RankFacts
<1>3. /\ Rank(S, i + 1) <= Rank(S, n)
      /\ Rank(S, n) = Cardinality(S)
      /\ \A j \in 0 .. n : i < j => Rank(S, i + 1) <= Rank(S, j)
  <2>1. i + 1 <= n /\ \A j \in 0 .. n : i < j => i + 1 <= j
    OBVIOUS
  <2> QED
    BY <1>1, <2>1, RankFacts
<1>4. IsFiniteSet(S) /\ Cardinality(S) \in Nat
  BY SetOfSlots
<1>5. \A j \in 0 .. n : Rank(S, j) \in 0 .. Cardinality(S)
  BY RankFacts
<1> QED
  BY <1>1, <1>2, <1>3, <1>4, <1>5

\* Every rank below the size of the set is that of one element.
LEMMA NthIsRanked ==
    ASSUME NEW n \in Nat, NEW S, \A s \in S : s \in 0 .. (n - 1),
           NEW r \in 0 .. (Cardinality(S) - 1)
    PROVE  Nth(S, r) \in S /\ Rank(S, Nth(S, r)) = r
<1> DEFINE N == Cardinality(S)
           R == [i \in S |-> Rank(S, i)]
<1>1. IsFiniteSet(S) /\ N \in Nat
  BY SetOfSlots
<1>2. /\ IsFiniteSet(0 .. (N - 1))
      /\ Cardinality(0 .. (N - 1)) = N
  BY <1>1, FS_Interval
<1>3. R \in [S -> 0 .. (N - 1)]
  BY RankOfElement
<1>4. ASSUME NEW i \in S, NEW j \in S, R[i] = R[j]
      PROVE  i = j
  <2>1. Rank(S, i) = Rank(S, j)
    BY <1>4
  <2>2. \A s \in S : s \in 0 .. n
    OBVIOUS
  <2>3. /\ i < j => Rank(S, i) < Rank(S, j)
        /\ j < i => Rank(S, j) < Rank(S, i)
    BY <2>2, RankOfElement
  <2>4. Rank(S, i) \in Int /\ i \in Int /\ j \in Int
    BY <1>3
  <2> QED
    BY <2>1, <2>3, <2>4
<1>5. R \in Injection(S, 0 .. (N - 1))
  BY <1>3, <1>4, Zenon DEF Injection, IsInjective
<1>6. R \in Surjection(S, 0 .. (N - 1))
  BY <1>2, <1>5, FS_Injection
<1>7. \E i \in S : R[i] = r
  BY <1>6, Zenon DEF Surjection
<1>8. \E i \in S : Rank(S, i) = r
  BY <1>7
<1> QED
  BY <1>8, Zenon DEF Nth

\* Elements are in the order of their ranks.
LEMMA NthAscends ==
    ASSUME NEW n \in Nat, NEW S, \A s \in S : s \in 0 .. (n - 1),
           NEW q \in 0 .. (Cardinality(S) - 1),
           NEW r \in 0 .. (Cardinality(S) - 1), q <= r
    PROVE  Nth(S, q) <= Nth(S, r)
<1>1. /\ Nth(S, q) \in S /\ Rank(S, Nth(S, q)) = q
      /\ Nth(S, r) \in S /\ Rank(S, Nth(S, r)) = r
  BY NthIsRanked
<1>2. Nth(S, q) \in 0 .. n /\ Nth(S, r) \in 0 .. n
  BY <1>1
<1>3. Nth(S, r) < Nth(S, q) => Rank(S, Nth(S, r)) < Rank(S, Nth(S, q))
  BY <1>1, <1>2, RankOfElement
<1>4. IsFiniteSet(S) /\ Cardinality(S) \in Nat
  BY SetOfSlots
<1> QED
  BY <1>1, <1>2, <1>3, <1>4

-----------------------------------------------------------------------------
(* Laying out keys.                                                        *)

\* The keys L fill the slots dst, in order, with keys that the slots src of
\* key_at hold, and the gaps between them with the keys that follow.
ProperlyLaidOut(L, key_at, src, dst, cap) ==
    /\ L \in [0 .. (cap - 1) -> Key \cup {kEndSentinel_}]
    /\ \A i, j \in 0 .. (cap - 1) : i <= j => L[i] <= L[j]
    /\ \A j \in 0 .. (cap - 1) :
           j \notin dst =>
               L[j] = IF j + 1 = cap THEN kEndSentinel_ ELSE L[j + 1]
    /\ \A j \in dst : \E i \in src : L[j] = key_at[i]

\* The keys of a fresh array are proper.
LEMMA LaidOutKeysFacts ==
    ASSUME NEW n \in Nat, NEW src, \A s \in src : s \in 0 .. (n - 1),
           NEW cap \in Nat, NEW dst, \A s \in dst : s \in 0 .. (cap - 1),
           Cardinality(dst) = Cardinality(src),
           NEW key_at,
           \A i \in src : key_at[i] \in Key,
           \A i, j \in src : i <= j => key_at[i] <= key_at[j]
    PROVE  ProperlyLaidOut(LaidOutKeys(key_at, src, dst, cap),
                           key_at, src, dst, cap)
<1> DEFINE L == LaidOutKeys(key_at, src, dst, cap)
           N == Cardinality(src)
           Source(j) == Nth(src, Rank(dst, j))
<1>1. /\ N \in Nat
      /\ Cardinality(dst) = N
  BY SetOfSlots
<1>2. \A j \in 0 .. (cap - 1) :
          L[j] = IF Rank(dst, j) < N THEN key_at[Source(j)] ELSE kEndSentinel_
  BY DEF LaidOutKeys
<1>3. \A j \in 0 .. cap : Rank(dst, j) \in 0 .. N
  BY <1>1, RankFacts
<1>4. \A j \in 0 .. cap :
          Rank(dst, j) < N => Source(j) \in src /\ key_at[Source(j)] \in Key
  <2> SUFFICES ASSUME NEW j \in 0 .. cap, Rank(dst, j) < N
               PROVE  Source(j) \in src
    OBVIOUS
  <2>1. Rank(dst, j) \in 0 .. (N - 1)
    BY <1>1, <1>3
  <2> QED
    BY <2>1, NthIsRanked
<1>5. L \in [0 .. (cap - 1) -> Key \cup {kEndSentinel_}]
  <2>1. L = [j \in 0 .. (cap - 1) |->
                IF Rank(dst, j) < N THEN key_at[Source(j)] ELSE kEndSentinel_]
    BY Zenon DEF LaidOutKeys
  <2>2. \A j \in 0 .. (cap - 1) : j \in 0 .. cap
    OBVIOUS
  <2> HIDE DEF N, Source
  <2> QED
    BY <1>4, <2>1, <2>2
<1> HIDE DEF L
<1>6. ASSUME NEW i \in 0 .. (cap - 1), NEW j \in 0 .. (cap - 1), i <= j
      PROVE  L[i] <= L[j]
  <2>1. /\ i \in 0 .. cap /\ j \in 0 .. cap
        /\ Rank(dst, i) <= Rank(dst, j)
        /\ Rank(dst, i) \in Nat /\ Rank(dst, j) \in Nat
    <3>1. i \in 0 .. cap /\ j \in 0 .. cap
      OBVIOUS
    <3>2. Rank(dst, i) \in 0 .. N /\ Rank(dst, j) \in 0 .. N
      BY <1>3, <3>1
    <3>3. Rank(dst, i) <= Rank(dst, j)
      BY <1>6, <3>1, RankFacts
    <3> QED
      BY <1>1, <3>1, <3>2, <3>3
  <2>2. CASE Rank(dst, j) < N
    <3>1. Rank(dst, i) \in 0 .. (N - 1) /\ Rank(dst, j) \in 0 .. (N - 1)
      BY <1>1, <2>1, <2>2
    <3>2. Source(i) <= Source(j)
      BY <2>1, <3>1, NthAscends
    <3>3. Rank(dst, i) < N
      BY <1>1, <3>1
    <3>4. Source(i) \in src /\ Source(j) \in src
      BY <1>4, <2>1, <2>2, <3>3
    <3> HIDE DEF N, Source
    <3> QED
      BY <1>2, <2>2, <3>2, <3>3, <3>4
  <2>3. CASE ~(Rank(dst, j) < N)
    <3>1. L[j] = kEndSentinel_
      BY <1>2, <2>3
    <3>2. L[i] \in Key \cup {kEndSentinel_}
      BY <1>5
    <3> QED
      BY <3>1, <3>2, KeysAreIntegers
  <2> QED
    BY <2>2, <2>3
<1>7. ASSUME NEW j \in 0 .. (cap - 1), j \notin dst
      PROVE  L[j] = IF j + 1 = cap THEN kEndSentinel_ ELSE L[j + 1]
  <2>1. j \in 0 .. cap /\ cap \in 0 .. cap /\ j < cap
    OBVIOUS
  <2>2. Rank(dst, j + 1) = Rank(dst, j) /\ Rank(dst, cap) = N
    <3>1. Rank(dst, j + 1) = Rank(dst, j)
      BY <1>7, <2>1, RankFacts
    <3>2. Rank(dst, cap) = Cardinality(dst)
      BY <2>1, RankFacts
    <3> QED
      BY <1>1, <3>1, <3>2
  <2>3. CASE j + 1 = cap
    <3>1. ~(Rank(dst, j) < N)
      BY <1>1, <2>2, <2>3
    <3> QED
      BY <1>2, <2>3, <3>1, Zenon
  <2>4. CASE j + 1 # cap
    <3>1. j + 1 \in 0 .. (cap - 1)
      BY <2>4
    <3>2. L[j] = IF Rank(dst, j) < N THEN key_at[Nth(src, Rank(dst, j))]
                                     ELSE kEndSentinel_
      BY <1>2, Zenon
    <3>3. L[j + 1] = IF Rank(dst, j + 1) < N
                     THEN key_at[Nth(src, Rank(dst, j + 1))]
                     ELSE kEndSentinel_
      BY <1>2, <3>1, Zenon
    <3>4. L[j] = L[j + 1]
      BY <2>2, <3>2, <3>3
    <3> QED
      BY <2>4, <3>4, Zenon
  <2> QED
    BY <2>3, <2>4
<1>8. ASSUME NEW j \in dst
      PROVE  \E i \in src : L[j] = key_at[i]
  <2>1. j \in 0 .. cap /\ j \in 0 .. (cap - 1)
    OBVIOUS
  <2>2. Rank(dst, j) < N
    BY <1>1, RankOfElement
  <2> HIDE DEF N, Source
  <2> QED
    BY <1>2, <1>4, <2>1, <2>2
<1> QED
  BY <1>5, <1>6, <1>7, <1>8 DEF ProperlyLaidOut, L

\* The payloads go along with the keys.
LEMMA LaidOutPayloadsFacts ==
    ASSUME NEW n \in Nat, NEW src, \A s \in src : s \in 0 .. (n - 1),
           NEW cap \in Nat, NEW dst, \A s \in dst : s \in 0 .. (cap - 1),
           Cardinality(dst) = Cardinality(src),
           NEW payload_at, \A i \in src : payload_at[i] \in Payload
    PROVE  LaidOutPayloads(payload_at, src, dst) \in [dst -> Payload]
<1>1. \A j \in dst : Rank(dst, j) \in 0 .. (Cardinality(src) - 1)
  BY RankOfElement
<1>2. \A j \in dst : Nth(src, Rank(dst, j)) \in src
  BY <1>1, NthIsRanked
<1> QED
  BY <1>2 DEF LaidOutPayloads

\* A new array has room for one key more, and a threshold that respects it.
LEMMA NewCapacity ==
    ASSUME NEW n \in Nat, NEW density \in {6, 7, 8}
    PROVE  /\ CapacityFor(n, density) \in Nat \ {0}
           /\ n < CapacityFor(n, density)
           /\ n = 0 => CapacityFor(n, density) = 1
<1>1. (10 * n) \div density \in Int
  <2>1. CASE density = 6
    BY <2>1
  <2>2. CASE density = 7
    BY <2>2
  <2>3. CASE density = 8
    BY <2>3
  <2> QED
    BY <2>1, <2>2, <2>3
<1>2. n = 0 => (10 * n) \div density = 0
  BY <1>1
<1> QED
  BY <1>1, <1>2 DEF CapacityFor, Larger

\* The expansion threshold of a fresh array is within the array.
LEMMA NewThreshold ==
    ASSUME NEW n \in Nat, NEW cap \in Nat \ {0}
    PROVE  /\ ExpansionThreshold(n, cap) \in Nat
           /\ 0 < ExpansionThreshold(n, cap)
           /\ ExpansionThreshold(n, cap) <= 10 * cap
BY DEF ExpansionThreshold, Smaller, Larger, kMaxDensity_

-----------------------------------------------------------------------------
(* Resizing and loading.                                                   *)

\* A layout is a choice of as many slots as there are keys.
LEMMA LayoutFacts ==
    ASSUME NEW cap \in Nat, NEW key_at, NEW src, NEW dst,
           dst \in Layouts(key_at, src, cap)
    PROVE  /\ dst \subseteq 0 .. (cap - 1)
           /\ \A s \in dst : s \in 0 .. (cap - 1)
           /\ Cardinality(dst) = Cardinality(src)
<1>1. dst \in kSubset(Cardinality(src), 0 .. (cap - 1))
  BY Zenon DEF Layouts
<1>2. dst \in SUBSET (0 .. (cap - 1)) /\ Cardinality(dst) = Cardinality(src)
  BY <1>1, Zenon DEF kSubset
<1> QED
  BY <1>2, Zenon

\* The fields of a resized node.
LEMMA ResizedFields ==
    ASSUME NEW d, NodeTypeOK(d), NEW density, d.num_keys_ # 0,
           NEW e \in resize(d, density)
    PROVE  \E dst \in Layouts(d.key_slots_, d.bitmap_,
                              CapacityFor(d.num_keys_, density)) :
            /\ e = [key_slots_ |-> e.key_slots_,
                    payload_slots_ |-> e.payload_slots_,
                    bitmap_ |-> e.bitmap_,
                    data_capacity_ |-> e.data_capacity_,
                    num_keys_ |-> e.num_keys_,
                    expansion_threshold_ |-> e.expansion_threshold_,
                    contraction_threshold_ |-> e.contraction_threshold_,
                    max_key_ |-> e.max_key_,
                    min_key_ |-> e.min_key_]
            /\ e.key_slots_ = LaidOutKeys(d.key_slots_, d.bitmap_, dst,
                                          CapacityFor(d.num_keys_, density))
            /\ e.payload_slots_ =
                   LaidOutPayloads(d.payload_slots_, d.bitmap_, dst)
            /\ e.bitmap_ = dst
            /\ e.data_capacity_ = CapacityFor(d.num_keys_, density)
            /\ e.num_keys_ = d.num_keys_
            /\ e.expansion_threshold_ =
                   ExpansionThreshold(d.num_keys_,
                                      CapacityFor(d.num_keys_, density))
            /\ e.contraction_threshold_ =
                   kMinDensity_ * CapacityFor(d.num_keys_, density)
            /\ e.max_key_ = d.max_key_
            /\ e.min_key_ = d.min_key_
<1> DEFINE cap == CapacityFor(d.num_keys_, density)
<1>1. PICK dst \in Layouts(d.key_slots_, d.bitmap_, cap) :
          e = [d EXCEPT
                 !.key_slots_ = LaidOutKeys(d.key_slots_, d.bitmap_, dst, cap),
                 !.payload_slots_ =
                     LaidOutPayloads(d.payload_slots_, d.bitmap_, dst),
                 !.bitmap_ = dst,
                 !.data_capacity_ = cap,
                 !.expansion_threshold_ = ExpansionThreshold(d.num_keys_, cap),
                 !.contraction_threshold_ = kMinDensity_ * cap]
  BY Zenon DEF resize
<1> HIDE DEF cap
<1>2. /\ e = [key_slots_ |-> e.key_slots_,
              payload_slots_ |-> e.payload_slots_,
              bitmap_ |-> e.bitmap_,
              data_capacity_ |-> e.data_capacity_,
              num_keys_ |-> e.num_keys_,
              expansion_threshold_ |-> e.expansion_threshold_,
              contraction_threshold_ |-> e.contraction_threshold_,
              max_key_ |-> e.max_key_,
              min_key_ |-> e.min_key_]
      /\ e.key_slots_ = LaidOutKeys(d.key_slots_, d.bitmap_, dst, cap)
      /\ e.payload_slots_ =
             LaidOutPayloads(d.payload_slots_, d.bitmap_, dst)
      /\ e.bitmap_ = dst
      /\ e.data_capacity_ = cap
      /\ e.num_keys_ = d.num_keys_
      /\ e.expansion_threshold_ = ExpansionThreshold(d.num_keys_, cap)
      /\ e.contraction_threshold_ = kMinDensity_ * cap
      /\ e.max_key_ = d.max_key_
      /\ e.min_key_ = d.min_key_
  BY <1>1, Zenon DEF NodeTypeOK
<1> QED
  BY <1>2, Zenon DEF cap

\* A resize keeps a node well formed and gives a node with keys a gap.
LEMMA ResizeKeepsWellFormed ==
    ASSUME NEW d, WellFormed(d), NEW density \in {6, 7, 8},
           NEW e \in resize(d, density)
    PROVE  /\ WellFormed(e)
           /\ d.num_keys_ # 0 => e.num_keys_ < e.data_capacity_
           /\ e.num_keys_ = d.num_keys_
<1> DEFINE cap == CapacityFor(d.num_keys_, density)
<1>0. NodeTypeOK(d) /\ d.num_keys_ \in Nat /\ d.data_capacity_ \in Nat
  BY DEF WellFormed, NodeTypeOK
<1>1. CASE d.num_keys_ = 0
  <2>1. e = d
    BY <1>1 DEF resize
  <2> QED
    BY <1>1, <2>1
<1>2. CASE d.num_keys_ # 0
  <2>1. PICK dst \in Layouts(d.key_slots_, d.bitmap_, cap) :
            /\ e = [key_slots_ |-> e.key_slots_,
                    payload_slots_ |-> e.payload_slots_,
                    bitmap_ |-> e.bitmap_,
                    data_capacity_ |-> e.data_capacity_,
                    num_keys_ |-> e.num_keys_,
                    expansion_threshold_ |-> e.expansion_threshold_,
                    contraction_threshold_ |-> e.contraction_threshold_,
                    max_key_ |-> e.max_key_,
                    min_key_ |-> e.min_key_]
            /\ e.key_slots_ = LaidOutKeys(d.key_slots_, d.bitmap_, dst, cap)
            /\ e.payload_slots_ =
                   LaidOutPayloads(d.payload_slots_, d.bitmap_, dst)
            /\ e.bitmap_ = dst
            /\ e.data_capacity_ = cap
            /\ e.num_keys_ = d.num_keys_
            /\ e.expansion_threshold_ = ExpansionThreshold(d.num_keys_, cap)
            /\ e.contraction_threshold_ = kMinDensity_ * cap
            /\ e.max_key_ = d.max_key_
            /\ e.min_key_ = d.min_key_
    BY <1>0, <1>2, ResizedFields
  <2>2. cap \in Nat \ {0} /\ d.num_keys_ < cap
    BY <1>0, NewCapacity
  <2> HIDE DEF cap
  <2>3. /\ dst \subseteq 0 .. (cap - 1)
        /\ \A s \in dst : s \in 0 .. (cap - 1)
        /\ Cardinality(dst) = Cardinality(d.bitmap_)
    BY <2>2, LayoutFacts
  <2>4. /\ \A s \in d.bitmap_ : s \in 0 .. (d.data_capacity_ - 1)
        /\ \A i \in d.bitmap_ : d.key_slots_[i] \in Key
        /\ \A i, j \in d.bitmap_ : i <= j => d.key_slots_[i] <= d.key_slots_[j]
        /\ \A i \in d.bitmap_ : d.payload_slots_[i] \in Payload
    <3>1. \A s \in d.bitmap_ : s \in 0 .. (d.data_capacity_ - 1)
      BY DEF WellFormed, NodeTypeOK, Slots
    <3>2. \A i \in d.bitmap_ : d.key_slots_[i] \in Key
      BY DEF WellFormed, FilledWithKeys
    <3>3. \A i, j \in d.bitmap_ : i < j => d.key_slots_[i] <= d.key_slots_[j]
      BY <3>1 DEF WellFormed, Ascending, Slots
    <3> QED
      BY <3>1, <3>2, <3>3, KeysAreIntegers DEF WellFormed, NodeTypeOK
  <2>5. /\ e.key_slots_ \in [0 .. (cap - 1) -> Key \cup {kEndSentinel_}]
        /\ \A i, j \in 0 .. (cap - 1) :
               i <= j => e.key_slots_[i] <= e.key_slots_[j]
        /\ \A j \in 0 .. (cap - 1) :
               j \notin dst =>
                   e.key_slots_[j] = IF j + 1 = cap THEN kEndSentinel_
                                     ELSE e.key_slots_[j + 1]
        /\ \A j \in dst : \E i \in d.bitmap_ :
               e.key_slots_[j] = d.key_slots_[i]
    <3>1. cap \in Nat
      BY <2>2
    <3>2. ProperlyLaidOut(LaidOutKeys(d.key_slots_, d.bitmap_, dst, cap),
                          d.key_slots_, d.bitmap_, dst, cap)
      BY <1>0, <2>3, <2>4, <3>1, LaidOutKeysFacts
    <3>3. ProperlyLaidOut(e.key_slots_, d.key_slots_, d.bitmap_, dst, cap)
      BY <2>1, <3>2
    <3> QED
      BY <3>3 DEF ProperlyLaidOut
  <2>6. e.payload_slots_ \in [dst -> Payload]
    BY <1>0, <2>1, <2>2, <2>3, <2>4, LaidOutPayloadsFacts
  <2>7. /\ e.expansion_threshold_ \in Nat
        /\ 0 < e.expansion_threshold_
        /\ e.expansion_threshold_ <= 10 * cap
        /\ e.contraction_threshold_ \in Nat
    BY <1>0, <2>1, <2>2, NewThreshold DEF kMinDensity_
  <2>8. NodeTypeOK(e)
    <3>1. e.max_key_ \in Key \cup {kLowest} /\ e.min_key_ \in Key \cup {kEndSentinel_}
      BY <2>1, Zenon DEF WellFormed, NodeTypeOK
    <3>2. Slots(e) = 0 .. (cap - 1)
      BY <2>1 DEF Slots
    <3> QED
      BY <1>0, <2>1, <2>2, <2>3, <2>5, <2>6, <2>7, <3>1, <3>2, Zenon
      DEF NodeTypeOK
  <2>9. Ascending(e) /\ GapsRepeat(e)
    BY <2>1, <2>2, <2>5 DEF Ascending, GapsRepeat, Gaps, Slots, KeyFrom
  <2>10. Counted(e) /\ ThresholdsFit(e)
    <3>1. Counted(e)
      BY <2>1, <2>3 DEF WellFormed, Counted
    <3>2. ThresholdsFit(e)
      BY <1>0, <2>1, <2>2, <2>7 DEF ThresholdsFit
    <3> QED
      BY <3>1, <3>2
  <2>11. FilledWithKeys(e) /\ WithinMinMax(e)
    BY <2>1, <2>4, <2>5
    DEF WellFormed, FilledWithKeys, WithinMinMax
  <2> QED
    BY <1>0, <2>1, <2>2, <2>8, <2>9, <2>10, <2>11 DEF WellFormed
<1> QED
  BY <1>1, <1>2

\* A bulk load of sorted pairs gives a well-formed node.
LEMMA BulkLoadGivesWellFormed ==
    ASSUME NEW n \in Nat, NEW values \in [0 .. (n - 1) -> Key \X Payload],
           \A i, j \in 0 .. (n - 1) : i < j => values[i][1] <= values[j][1],
           NEW density \in {6, 7, 8}, NEW e \in BulkLoaded(values, density)
    PROVE  WellFormed(e)
<1> DEFINE src == DOMAIN values
           cap == CapacityFor(n, density)
           key_at == [i \in src |-> values[i][1]]
           payload_at == [i \in src |-> values[i][2]]
<1>1. src = 0 .. (n - 1) /\ Cardinality(src) = n
  BY FS_Interval
<1>2. /\ \A s \in src : s \in 0 .. (n - 1)
      /\ \A i \in src : key_at[i] \in Key /\ payload_at[i] \in Payload
  BY <1>1
<1>3. \A i, j \in src : i <= j => key_at[i] <= key_at[j]
  <2> SUFFICES ASSUME NEW i \in src, NEW j \in src, i <= j
               PROVE  key_at[i] <= key_at[j]
    BY Zenon
  <2>1. CASE i = j
    BY <1>2, <2>1, KeysAreIntegers
  <2>2. CASE i # j
    BY <1>1, <2>2
  <2> QED
    BY <2>1, <2>2
<1>4. PICK dst \in Layouts(key_at, src, cap) :
          e = [key_slots_ |-> LaidOutKeys(key_at, src, dst, cap),
               payload_slots_ |-> LaidOutPayloads(payload_at, src, dst),
               bitmap_ |-> dst,
               data_capacity_ |-> cap,
               num_keys_ |-> n,
               expansion_threshold_ |->
                   IF n = 0 THEN 10 * cap ELSE ExpansionThreshold(n, cap),
               contraction_threshold_ |->
                   IF n = 0 THEN 0 ELSE kMinDensity_ * cap,
               max_key_ |-> IF n = 0 THEN kLowest ELSE key_at[n - 1],
               min_key_ |-> IF n = 0 THEN kEndSentinel_ ELSE key_at[0]]
  <2> DEFINE N == Cardinality(src)
             C == CapacityFor(N, density)
  <2>1. \E dst \in Layouts(key_at, src, C) :
            e = [key_slots_ |-> LaidOutKeys(key_at, src, dst, C),
                 payload_slots_ |-> LaidOutPayloads(payload_at, src, dst),
                 bitmap_ |-> dst,
                 data_capacity_ |-> C,
                 num_keys_ |-> N,
                 expansion_threshold_ |->
                     IF N = 0 THEN 10 * C ELSE ExpansionThreshold(N, C),
                 contraction_threshold_ |->
                     IF N = 0 THEN 0 ELSE kMinDensity_ * C,
                 max_key_ |-> IF N = 0 THEN kLowest ELSE key_at[N - 1],
                 min_key_ |-> IF N = 0 THEN kEndSentinel_ ELSE key_at[0]]
    BY Zenon DEF BulkLoaded
  <2>2. N = n
    BY <1>1
  <2> HIDE DEF N, key_at, payload_at
  <2> QED
    BY <2>1, <2>2
<1>5. cap \in Nat \ {0} /\ n < cap /\ cap \in Nat /\ (n = 0 => cap = 1)
  BY NewCapacity
<1>6. /\ dst \subseteq 0 .. (cap - 1)
      /\ \A s \in dst : s \in 0 .. (cap - 1)
      /\ Cardinality(dst) = n
  BY <1>1, <1>5, LayoutFacts
<1>7. /\ ExpansionThreshold(n, cap) \in Nat
      /\ 0 < ExpansionThreshold(n, cap)
      /\ ExpansionThreshold(n, cap) <= 10 * cap
  BY <1>5, NewThreshold
<1> HIDE DEF src, cap, key_at, payload_at
<1>8. ProperlyLaidOut(e.key_slots_, key_at, src, dst, cap)
  BY <1>1, <1>2, <1>3, <1>4, <1>5, <1>6, LaidOutKeysFacts
<1>9. e.payload_slots_ \in [dst -> Payload]
  BY <1>1, <1>2, <1>4, <1>5, <1>6, LaidOutPayloadsFacts
<1>10. n # 0 => /\ 0 \in src /\ n - 1 \in src
                /\ \A i \in src : i \in Int /\ 0 <= i /\ i <= n - 1
  BY <1>1
<1>11. NodeTypeOK(e)
  <2>1. /\ e.max_key_ \in Key \cup {kLowest}
        /\ e.min_key_ \in Key \cup {kEndSentinel_}
    BY <1>2, <1>4, <1>10
  <2>2. /\ e.expansion_threshold_ \in Nat
        /\ e.contraction_threshold_ \in Nat
    BY <1>4, <1>5, <1>7 DEF kMinDensity_
  <2>3. e = [key_slots_ |-> e.key_slots_,
             payload_slots_ |-> e.payload_slots_,
             bitmap_ |-> e.bitmap_,
             data_capacity_ |-> e.data_capacity_,
             num_keys_ |-> e.num_keys_,
             expansion_threshold_ |-> e.expansion_threshold_,
             contraction_threshold_ |-> e.contraction_threshold_,
             max_key_ |-> e.max_key_,
             min_key_ |-> e.min_key_]
    BY <1>4, Zenon
  <2>4. e.bitmap_ = dst /\ e.data_capacity_ = cap /\ e.num_keys_ = n
    BY <1>4
  <2>5. e.key_slots_ \in [0 .. (cap - 1) -> Key \cup {kEndSentinel_}]
    BY <1>8, Zenon DEF ProperlyLaidOut
  <2> QED
    BY <1>5, <1>6, <1>9, <2>1, <2>2, <2>3, <2>4, <2>5, Zenon
    DEF NodeTypeOK, Slots
<1>12. Ascending(e) /\ GapsRepeat(e)
  <2>1. e.bitmap_ = dst /\ e.data_capacity_ = cap /\ Slots(e) = 0 .. (cap - 1)
    BY <1>4 DEF Slots
  <2>2. /\ \A i, j \in 0 .. (cap - 1) :
               i <= j => e.key_slots_[i] <= e.key_slots_[j]
        /\ \A j \in 0 .. (cap - 1) :
               j \notin dst =>
                   e.key_slots_[j] = IF j + 1 = cap THEN kEndSentinel_
                                     ELSE e.key_slots_[j + 1]
    BY <1>8, Zenon DEF ProperlyLaidOut
  <2>3. Ascending(e)
    BY <2>1, <2>2 DEF Ascending
  <2>4. GapsRepeat(e)
    BY <2>1, <2>2, Zenon DEF GapsRepeat, Gaps, KeyFrom
  <2> QED
    BY <2>3, <2>4
<1>13. Counted(e) /\ ThresholdsFit(e)
  <2>1. /\ e.num_keys_ = n /\ e.bitmap_ = dst /\ e.data_capacity_ = cap
        /\ e.expansion_threshold_ =
               IF n = 0 THEN 10 * cap ELSE ExpansionThreshold(n, cap)
        /\ e.contraction_threshold_ = IF n = 0 THEN 0 ELSE kMinDensity_ * cap
    BY <1>4
  <2> QED
    BY <1>5, <1>6, <1>7, <2>1 DEF Counted, ThresholdsFit
<1>14. FilledWithKeys(e)
  BY <1>2, <1>4, <1>8 DEF ProperlyLaidOut, FilledWithKeys
<1>15. WithinMinMax(e)
  <2> SUFFICES ASSUME NEW j \in dst
               PROVE  /\ e.min_key_ <= e.key_slots_[j]
                      /\ e.key_slots_[j] <= e.max_key_
    BY <1>4 DEF WithinMinMax
  <2>1. PICK i \in src : e.key_slots_[j] = key_at[i]
    BY <1>8 DEF ProperlyLaidOut
  <2>2. n # 0
    BY <1>1, <2>1
  <2>3. key_at[0] <= key_at[i] /\ key_at[i] <= key_at[n - 1]
    BY <1>3, <1>10, <2>2
  <2> QED
    BY <1>4, <2>1, <2>2, <2>3
<1> QED
  BY <1>11, <1>12, <1>13, <1>14, <1>15 DEF WellFormed

-----------------------------------------------------------------------------
(* Where a key is inserted.                                                *)

\* get_next_filled_position skips gaps only.
LEMMA NextFilledFacts ==
    ASSUME NEW d, NodeTypeOK(d), NEW pos \in 0 .. d.data_capacity_,
           NEW next, next = get_next_filled_position(d, pos)
    PROVE  /\ next \in pos .. d.data_capacity_
           /\ next \in d.bitmap_ \/ next = d.data_capacity_
           /\ \A i \in d.bitmap_ : i < pos \/ next <= i
<1> DEFINE filled == {i \in d.bitmap_ : i >= pos}
<1>1. /\ d.data_capacity_ \in Nat
      /\ \A i \in d.bitmap_ : i \in Int /\ 0 <= i /\ i < d.data_capacity_
  BY DEF NodeTypeOK, Slots
<1>2. CASE filled = {}
  BY <1>1, <1>2 DEF get_next_filled_position, FirstOf
<1>3. CASE filled # {}
  <2>1. next = Min(filled)
    BY <1>3 DEF get_next_filled_position, FirstOf
  <2>2. filled \in SUBSET Nat
    BY <1>1
  <2>3. next \in filled /\ \A i \in filled : next <= i
    BY <1>3, <2>1, <2>2, MinOfNaturals
  <2> QED
    BY <1>1, <2>3
<1> QED
  BY <1>2, <1>3

\* From the upper bound of the key to its insert position there are gaps, and
\* an insert position past the upper bound is a gap itself.
LEMMA InsertPositionFacts ==
    ASSUME NEW d, NodeTypeOK(d), Ascending(d), NEW key \in Key,
           NEW predicted \in Slots(d),
           NEW pos, pos = find_insert_position(d, key, predicted)
    PROVE  /\ pos \in upper_bound(d, key) .. d.data_capacity_
           /\ \A i \in upper_bound(d, key) .. (pos - 1) : i \notin d.bitmap_
           /\ pos = upper_bound(d, key) \/ pos \in Gaps(d)
<1> DEFINE ub == upper_bound(d, key)
           next == get_next_filled_position(d, ub + 1)
<1>1. ub \in 0 .. d.data_capacity_
  BY UpperBoundSplits
<1>2. d.data_capacity_ \in Nat /\ predicted \in 0 .. (d.data_capacity_ - 1)
  BY DEF NodeTypeOK, Slots
<1> HIDE DEF ub
<1>3. CASE predicted <= ub \/ check_exists(d, ub)
  BY <1>1, <1>2, <1>3 DEF find_insert_position, ub
<1>4. CASE ~(predicted <= ub \/ check_exists(d, ub))
  <2>1. pos = Smaller(predicted, next - 1)
    BY <1>4 DEF find_insert_position, ub
  <2>2. ub < predicted /\ ub \notin d.bitmap_
    BY <1>1, <1>2, <1>4 DEF check_exists
  <2>3. ub + 1 \in 0 .. d.data_capacity_
    BY <1>1, <1>2, <2>2
  <2>4. /\ next \in (ub + 1) .. d.data_capacity_
        /\ \A i \in d.bitmap_ : i < ub + 1 \/ next <= i
    BY <2>3, NextFilledFacts
  <2> HIDE DEF next
  <2>5. pos \in ub .. (d.data_capacity_ - 1) /\ pos < next
    BY <1>1, <1>2, <2>1, <2>2, <2>4 DEF Smaller
  <2>6. \A i \in ub .. pos : i \notin d.bitmap_
    BY <1>1, <1>2, <2>2, <2>4, <2>5
  <2>7. pos \in Gaps(d)
    BY <1>1, <1>2, <2>5, <2>6 DEF Gaps, Slots
  <2> QED
    BY <1>1, <1>2, <2>5, <2>6, <2>7 DEF ub
<1> QED
  BY <1>3, <1>4

\* Between a position and its closest gap every slot is filled.
LEMMA ClosestGapFacts ==
    ASSUME NEW d, NodeTypeOK(d), NEW pos \in 0 .. d.data_capacity_,
           NEW gap, IsClosestGap(d, pos, gap)
    PROVE  /\ gap \in 0 .. (d.data_capacity_ - 1)
           /\ gap \notin d.bitmap_
           /\ pos \in Gaps(d) => gap = pos
           /\ \A i \in (gap + 1) .. pos :
                  i < d.data_capacity_ => i \in d.bitmap_
           /\ \A i \in pos .. (gap - 1) : i \in d.bitmap_
<1> DEFINE p == Smaller(pos, d.data_capacity_ - 1)
           Distance(g) == IF g < p THEN p - g ELSE g - p
<1>1. d.data_capacity_ \in Nat /\ d.data_capacity_ > 0
  BY DEF NodeTypeOK
<1>2. gap \in 0 .. (d.data_capacity_ - 1) /\ gap \notin d.bitmap_
  BY DEF IsClosestGap, Gaps, Slots
<1>3. p \in 0 .. (d.data_capacity_ - 1)
  BY <1>1 DEF Smaller
<1>4. \A i \in 0 .. (d.data_capacity_ - 1) :
          i \in d.bitmap_ \/ Distance(gap) <= Distance(i)
  <2> SUFFICES ASSUME NEW i \in 0 .. (d.data_capacity_ - 1), i \notin d.bitmap_
               PROVE  Distance(gap) <= Distance(i)
    OBVIOUS
  <2>1. i \in Gaps(d)
    BY DEF Gaps, Slots
  <2>2. \/ Distance(gap) < Distance(i)
        \/ Distance(gap) = Distance(i) /\ gap <= i
    BY <2>1, Zenon DEF IsClosestGap
  <2>3. Distance(gap) \in Int /\ Distance(i) \in Int
    BY <1>2, <1>3
  <2> QED
    BY <2>2, <2>3
<1>5. /\ \A i \in (gap + 1) .. p : i \in d.bitmap_
      /\ \A i \in p .. (gap - 1) : i \in d.bitmap_
      /\ p \notin d.bitmap_ => gap = p
  <2> HIDE DEF p
  <2>1. \A i \in (gap + 1) .. p : Distance(i) < Distance(gap)
    BY <1>2, <1>3
  <2>2. \A i \in p .. (gap - 1) : Distance(i) < Distance(gap)
    BY <1>2, <1>3
  <2>3. /\ Distance(p) = 0 /\ Distance(gap) \in Nat
        /\ Distance(gap) = 0 => gap = p
        /\ \A i \in 0 .. (d.data_capacity_ - 1) : Distance(i) \in Nat
    BY <1>2, <1>3
  <2>4. /\ \A i \in (gap + 1) .. p : i \in 0 .. (d.data_capacity_ - 1)
        /\ \A i \in p .. (gap - 1) : i \in 0 .. (d.data_capacity_ - 1)
    BY <1>1, <1>2, <1>3
  <2> HIDE DEF Distance
  <2> QED
    BY <1>3, <1>4, <2>1, <2>2, <2>3, <2>4
<1>6. /\ pos < d.data_capacity_ => p = pos
      /\ pos >= d.data_capacity_ => p = d.data_capacity_ - 1 /\ gap < pos
      /\ pos \in Gaps(d) => pos < d.data_capacity_ /\ pos \notin d.bitmap_
  BY <1>1, <1>2 DEF Smaller, Gaps, Slots
<1> HIDE DEF p
<1> QED
  BY <1>1, <1>2, <1>3, <1>5, <1>6

-----------------------------------------------------------------------------
(* Writing a key.                                                          *)

\* The part of WellFormed that is about the keys K of an array of cap slots
\* with the slots of bits filled.
ProperKeys(K, bits, cap) ==
    /\ K \in [0 .. (cap - 1) -> Key \cup {kEndSentinel_}]
    /\ \A i, j \in 0 .. (cap - 1) : i < j => K[i] <= K[j]
    /\ \A i \in 0 .. (cap - 1) :
           i \notin bits =>
               K[i] = IF i + 1 = cap THEN kEndSentinel_ ELSE K[i + 1]
    /\ \A i \in bits : K[i] \in Key

\* key fits at the slot `at` of K: the other slots are in order around it,
\* save that the gaps just before `at` may hold greater keys.
FitsAt(K, bits, at, key, cap) ==
    /\ K \in [0 .. (cap - 1) -> Key \cup {kEndSentinel_}]
    /\ at \in 0 .. (cap - 1) /\ \A i \in bits : i \in 0 .. (cap - 1)
    /\ key \in Key \cup {kEndSentinel_}
    /\ \A i, j \in 0 .. (cap - 1) : i < j /\ i # at /\ j # at => K[i] <= K[j]
    /\ \A i \in 0 .. (at - 1) :
           K[i] <= key \/ \A k \in i .. (at - 1) : k \notin bits
    /\ \A i \in (at + 1) .. (cap - 1) : key <= K[i]
    /\ \A i \in 0 .. (cap - 1) :
           i \notin bits /\ i # at /\ i + 1 # at =>
               K[i] = IF i + 1 = cap THEN kEndSentinel_ ELSE K[i + 1]
    /\ at \notin bits =>
           key = IF at + 1 = cap THEN kEndSentinel_ ELSE K[at + 1]
    /\ at \in bits => key \in Key
    /\ \A i \in bits : i = at \/ K[i] \in Key

\* Writing a key where it fits gives proper keys.
LEMMA KeysWrittenFacts ==
    ASSUME NEW cap \in Nat, NEW K, NEW bits, NEW at, NEW key,
           FitsAt(K, bits, at, key, cap)
    PROVE  /\ ProperKeys(KeysWritten(K, bits, at, key), bits, cap)
           /\ KeysWritten(K, bits, at, key)[at] = key
           /\ \A i \in bits :
                  i = at \/ KeysWritten(K, bits, at, key)[i] = K[i]
<1> DEFINE Run(j) == j < at /\ \A i \in j .. (at - 1) : i \notin bits
           W == KeysWritten(K, bits, at, key)
<1>0. /\ K \in [0 .. (cap - 1) -> Key \cup {kEndSentinel_}]
      /\ at \in 0 .. (cap - 1) /\ \A i \in bits : i \in 0 .. (cap - 1)
      /\ key \in Key \cup {kEndSentinel_}
      /\ \A i, j \in 0 .. (cap - 1) : i < j /\ i # at /\ j # at => K[i] <= K[j]
      /\ \A i \in 0 .. (at - 1) :
             K[i] <= key \/ \A k \in i .. (at - 1) : k \notin bits
      /\ \A i \in (at + 1) .. (cap - 1) : key <= K[i]
      /\ \A i \in 0 .. (cap - 1) :
             i \notin bits /\ i # at /\ i + 1 # at =>
                 K[i] = IF i + 1 = cap THEN kEndSentinel_ ELSE K[i + 1]
      /\ at \notin bits =>
             key = IF at + 1 = cap THEN kEndSentinel_ ELSE K[at + 1]
      /\ at \in bits => key \in Key
      /\ \A i \in bits : i = at \/ K[i] \in Key
  BY Zenon DEF FitsAt
<1> USE <1>0
<1>1. /\ DOMAIN W = 0 .. (cap - 1)
      /\ \A j \in 0 .. (cap - 1) :
             W[j] = IF j = at \/ Run(j) THEN key ELSE K[j]
  BY DEF KeysWritten
<1>2. W \in [0 .. (cap - 1) -> Key \cup {kEndSentinel_}]
  BY DEF KeysWritten
<1>3. \A j \in 0 .. (cap - 1) : W[j] \in Int /\ K[j] \in Int
  BY <1>2, KeysAreIntegers
<1>4. key \in Int
  BY KeysAreIntegers
<1> HIDE DEF W
<1>5. ASSUME NEW i \in 0 .. (cap - 1), NEW j \in 0 .. (cap - 1), i < j
      PROVE  W[i] <= W[j]
  <2>1. /\ i < at => W[i] = key \/ (W[i] = K[i] /\ K[i] <= key)
        /\ j < at => W[j] = key \/ (W[j] = K[j] /\ K[j] <= key)
    BY <1>1
  <2>2. /\ i > at => W[i] = K[i] /\ key <= K[i]
        /\ j > at => W[j] = K[j] /\ key <= K[j]
        /\ i = at => W[i] = key
        /\ j = at => W[j] = key
    BY <1>1
  <2>3. j < at /\ Run(i) => Run(j)
    BY <1>5
  <2>4. i # at /\ j # at => K[i] <= K[j]
    BY <1>5
  <2>5. CASE j < at
    <3>1. CASE Run(i)
      <4>1. Run(j)
        BY <2>3, <2>5, <3>1
      <4> HIDE DEF Run
      <4>2. W[i] = key /\ W[j] = key
        BY <1>1, <3>1, <4>1
      <4> QED
        BY <1>4, <4>2
    <3>2. CASE ~Run(i)
      <4>1. i # at /\ i < at /\ j # at
        BY <1>5, <2>5
      <4>2. W[i] = K[i] /\ K[i] <= K[j] /\ K[i] <= key
        <5> HIDE DEF Run
        <5>1. W[i] = K[i]
          BY <1>1, <3>2, <4>1
        <5>2. K[i] <= key
          BY <1>0, <1>5, <3>2, <4>1 DEF Run
        <5> QED
          BY <2>4, <4>1, <5>1, <5>2
      <4>3. W[j] = key \/ W[j] = K[j]
        <5> HIDE DEF Run
        <5> QED
          BY <1>1
      <4> QED
        BY <4>2, <4>3
    <3> QED
      BY <3>1, <3>2
  <2>6. CASE j >= at
    <3> HIDE DEF Run
    <3> QED
      BY <1>3, <1>4, <1>5, <2>1, <2>2, <2>4, <2>6
  <2> QED
    BY <2>5, <2>6
<1>6. ASSUME NEW i \in 0 .. (cap - 1), i \notin bits
      PROVE  W[i] = IF i + 1 = cap THEN kEndSentinel_ ELSE W[i + 1]
  <2>1. CASE i = at
    BY <1>1, <1>6, <2>1
  <2>2. CASE i + 1 = at
    <3>1. Run(i)
      BY <1>6, <2>2
    <3> QED
      BY <1>1, <2>2, <3>1
  <2>3. CASE i > at
    BY <1>1, <1>6, <2>3
  <2>4. CASE i + 1 < at
    <3>1. i + 1 \in 0 .. (cap - 1) /\ i + 1 # cap
      BY <2>4
    <3>2. Run(i) <=> Run(i + 1)
      BY <1>6, <2>4
    <3>3. K[i] = K[i + 1]
      BY <1>6, <2>4, <3>1
    <3> HIDE DEF Run
    <3> QED
      BY <1>1, <2>4, <3>1, <3>2, <3>3
  <2> QED
    BY <2>1, <2>2, <2>3, <2>4
<1>7. /\ W[at] = key
      /\ \A i \in bits : i = at \/ W[i] = K[i]
  BY <1>1
<1> QED
  BY <1>2, <1>5, <1>6, <1>7 DEF ProperKeys, W

\* A node with proper keys, and with the rest in order, is well formed.
LEMMA ProperKeysSuffice ==
    ASSUME NEW e, NodeTypeOK(e), Counted(e), ThresholdsFit(e), WithinMinMax(e),
           ProperKeys(e.key_slots_, e.bitmap_, e.data_capacity_)
    PROVE  WellFormed(e)
<1>1. e.data_capacity_ \in Nat
  BY DEF NodeTypeOK
<1>2. Ascending(e)
  BY Zenon DEF Ascending, Slots, ProperKeys
<1>3. GapsRepeat(e)
  BY <1>1 DEF GapsRepeat, Gaps, Slots, KeyFrom, ProperKeys
<1>4. FilledWithKeys(e)
  BY DEF FilledWithKeys, ProperKeys
<1> QED
  BY <1>2, <1>3, <1>4 DEF WellFormed

\* A well-formed node has proper keys.
LEMMA WellFormedIsProper ==
    ASSUME NEW d, WellFormed(d)
    PROVE  /\ ProperKeys(d.key_slots_, d.bitmap_, d.data_capacity_)
           /\ d.data_capacity_ \in Nat \ {0}
           /\ d.bitmap_ \subseteq 0 .. (d.data_capacity_ - 1)
           /\ \A i \in d.bitmap_ : i \in 0 .. (d.data_capacity_ - 1)
           /\ \A i \in 0 .. (d.data_capacity_ - 1) : d.key_slots_[i] \in Int
           /\ d.num_keys_ = Cardinality(d.bitmap_)
           /\ d.num_keys_ \in Nat
           /\ IsFiniteSet(d.bitmap_)
<1>1. /\ d.data_capacity_ \in Nat \ {0}
      /\ d.bitmap_ \subseteq 0 .. (d.data_capacity_ - 1)
      /\ d.key_slots_ \in
             [0 .. (d.data_capacity_ - 1) -> Key \cup {kEndSentinel_}]
      /\ d.num_keys_ \in Nat
  BY Zenon DEF WellFormed, NodeTypeOK, Slots
<1>2. \A i \in d.bitmap_ : i \in 0 .. (d.data_capacity_ - 1)
  BY <1>1, Zenon
<1>3. \A i \in 0 .. (d.data_capacity_ - 1) : d.key_slots_[i] \in Int
  BY <1>1, KeysAreIntegers
<1>4. \A i, j \in 0 .. (d.data_capacity_ - 1) :
          i < j => d.key_slots_[i] <= d.key_slots_[j]
  BY Zenon DEF WellFormed, Ascending, Slots
<1>5. \A i \in 0 .. (d.data_capacity_ - 1) :
          i \notin d.bitmap_ =>
              d.key_slots_[i] = IF i + 1 = d.data_capacity_ THEN kEndSentinel_
                                ELSE d.key_slots_[i + 1]
  BY DEF WellFormed, GapsRepeat, Gaps, Slots, KeyFrom
<1>6. /\ \A i \in d.bitmap_ : d.key_slots_[i] \in Key
      /\ d.num_keys_ = Cardinality(d.bitmap_)
  BY DEF WellFormed, FilledWithKeys, Counted
<1>7. IsFiniteSet(d.bitmap_)
  BY <1>1, <1>2, SetOfSlots
<1> QED
  BY <1>1, <1>2, <1>3, <1>4, <1>5, <1>6, <1>7, Zenon DEF ProperKeys

\* Where the keys of a node are after the shift, and that the new key fits.
LEMMA ShiftFacts ==
    ASSUME NEW d, WellFormed(d), NEW key \in Key, NEW predicted \in Slots(d),
           NEW pos, pos = find_insert_position(d, key, predicted),
           NEW gap, IsClosestGap(d, pos, gap)
    PROVE  /\ FitsAt(KeysShifted(d, pos, gap), d.bitmap_ \cup {gap},
                     SlotAfterShift(gap, pos), key, d.data_capacity_)
           /\ SlotAfterShift(gap, pos) \in d.bitmap_ \cup {gap}
           /\ gap \notin d.bitmap_ /\ gap \in Slots(d)
           /\ \A i \in d.bitmap_ \cup {gap} :
                  \/ i = SlotAfterShift(gap, pos)
                  \/ ShiftedFrom(gap, pos, i) \in d.bitmap_
<1> DEFINE cap == d.data_capacity_
           D == d.key_slots_
           ub == upper_bound(d, key)
           bits == d.bitmap_ \cup {gap}
           at == SlotAfterShift(gap, pos)
           From(i) == ShiftedFrom(gap, pos, i)
           K == KeysShifted(d, pos, gap)
<1>1. /\ cap \in Nat \ {0}
      /\ \A i \in d.bitmap_ : i \in 0 .. (cap - 1) /\ D[i] \in Key
      /\ D \in [0 .. (cap - 1) -> Key \cup {kEndSentinel_}]
      /\ \A i, j \in 0 .. (cap - 1) : i < j => D[i] <= D[j]
      /\ \A i \in 0 .. (cap - 1) :
             i \notin d.bitmap_ =>
                 D[i] = IF i + 1 = cap THEN kEndSentinel_ ELSE D[i + 1]
      /\ \A i \in 0 .. (cap - 1) : D[i] \in Int
  BY WellFormedIsProper, Zenon DEF ProperKeys
<1>2. /\ ub \in 0 .. cap
      /\ \A i \in 0 .. (cap - 1) : D[i] <= key <=> i < ub
  BY UpperBoundSplits DEF WellFormed, Slots
<1>3. /\ pos \in ub .. cap
      /\ \A i \in ub .. (pos - 1) : i \notin d.bitmap_
      /\ pos = ub \/ pos \in Gaps(d)
  BY InsertPositionFacts DEF WellFormed
<1>4. /\ gap \in 0 .. (cap - 1)
      /\ gap \notin d.bitmap_
      /\ pos \in Gaps(d) => gap = pos
      /\ \A i \in (gap + 1) .. pos : i < cap => i \in d.bitmap_
      /\ \A i \in pos .. (gap - 1) : i \in d.bitmap_
  <2>1. pos \in 0 .. cap
    BY <1>1, <1>2, <1>3
  <2> QED
    BY <2>1, ClosestGapFacts DEF WellFormed
<1>5. /\ DOMAIN K = 0 .. (cap - 1)
      /\ \A i \in 0 .. (cap - 1) : K[i] = D[From(i)]
  BY DEF KeysShifted, Slots
<1>6. gap \in Slots(d)
  BY <1>4 DEF Slots
<1>7. key \in Int
  BY KeysAreIntegers
<1>8. K = [i \in 0 .. (cap - 1) |-> K[i]]
  BY <1>5, Zenon DEF KeysShifted, Slots
<1> HIDE DEF cap, D, ub, bits, at, From, K
<1>9. /\ FitsAt(K, bits, at, key, cap)
      /\ at \in bits
      /\ \A i \in bits : i = at \/ From(i) \in d.bitmap_
  <2>1. /\ cap \in Int /\ ub \in Int /\ pos \in Int /\ gap \in Int
        /\ 0 <= ub /\ ub <= pos /\ pos <= cap
        /\ 0 <= gap /\ gap < cap
    BY <1>1, <1>2, <1>3, <1>4
  <2>2. \A i \in d.bitmap_ : i \in Int /\ 0 <= i /\ i < cap
    BY <1>1
  <2>3. \A i \in 0 .. (cap - 1) :
            IF i < ub THEN D[i] <= key ELSE key <= D[i]
    BY <1>1, <1>2, <1>7, <2>1
  <2>4. \A i \in Int : ub <= i /\ i < pos => i \notin d.bitmap_
    BY <1>3, <2>1
  <2>5. gap # pos => pos = ub
    BY <1>3, <1>4
  <2>6. /\ gap \notin d.bitmap_
        /\ \A i \in Int : gap < i /\ i <= pos /\ i < cap => i \in d.bitmap_
        /\ \A i \in Int : pos <= i /\ i < gap => i \in d.bitmap_
    BY <1>4, <2>1
  <2>7. CASE gap = pos
    <3>1. at = pos
      BY <2>1, <2>5, <2>7 DEF at, SlotAfterShift
    <3>2. \A i \in 0 .. (cap - 1) : From(i) = i /\ K[i] = D[i]
      BY <1>5, <2>1, <2>7 DEF From, ShiftedFrom
    <3>3. K \in [0 .. (cap - 1) -> Key \cup {kEndSentinel_}]
      <4>1. \A i \in 0 .. (cap - 1) : From(i) \in 0 .. (cap - 1)
        BY <2>1, <2>7, <3>2
      <4>2. \A i \in 0 .. (cap - 1) : K[i] \in Key \cup {kEndSentinel_}
        BY <1>1, <1>5, <4>1
      <4> QED
        BY <1>8, <4>2
    <3>4. /\ at \in 0 .. (cap - 1) /\ \A i \in bits : i \in 0 .. (cap - 1)
          /\ at \in bits
      BY <2>1, <2>2, <2>6, <2>7, <3>1 DEF bits
    <3>5. ASSUME NEW i \in 0 .. (cap - 1), NEW j \in 0 .. (cap - 1),
                 i < j, i # at, j # at
          PROVE  K[i] <= K[j]
      <4>1. K[i] = D[From(i)] /\ K[j] = D[From(j)]
        BY <1>5
      <4>2. /\ From(i) = i
            /\ From(j) = j
        BY <3>2
      <4>3. /\ From(i) \in 0 .. (cap - 1) /\ From(j) \in 0 .. (cap - 1)
            /\ From(i) < From(j)
        BY <2>1, <2>7, <3>1, <3>5, <4>2
      <4> QED
        BY <1>1, <4>1, <4>3
    <3>6. ASSUME NEW i \in 0 .. (at - 1)
          PROVE  K[i] <= key \/ \A k \in i .. (at - 1) : k \notin bits
      <4>1. i \in 0 .. (cap - 1) /\ From(i) \in 0 .. (cap - 1)
        BY <2>1, <2>7, <3>1, <3>2
      <4>2. CASE From(i) < ub
        BY <1>5, <2>3, <4>1, <4>2
      <4>3. CASE ~(From(i) < ub)
        BY <2>1, <2>4, <2>7, <3>1, <3>2, <4>1, <4>3 DEF bits
      <4> QED
        BY <4>2, <4>3
    <3>7. ASSUME NEW i \in (at + 1) .. (cap - 1)
          PROVE  key <= K[i]
      <4>1. /\ i \in 0 .. (cap - 1) /\ From(i) \in 0 .. (cap - 1)
            /\ ub <= From(i)
        BY <2>1, <2>7, <3>1, <3>2
      <4>2. key <= D[From(i)]
        BY <2>1, <2>3, <4>1
      <4> QED
        BY <1>5, <4>1, <4>2
    <3>8. ASSUME NEW i \in 0 .. (cap - 1), i \notin bits, i # at, i + 1 # at
          PROVE  K[i] = IF i + 1 = cap THEN kEndSentinel_ ELSE K[i + 1]
      <4>1. i \notin d.bitmap_ /\ K[i] = D[i]
        BY <3>2, <3>8 DEF bits
      <4>2. CASE i + 1 = cap
        BY <1>1, <4>1, <4>2
      <4>3. CASE i + 1 # cap
        <5>1. i + 1 \in 0 .. (cap - 1)
          BY <2>1, <4>3
        <5>2. K[i + 1] = D[i + 1]
          BY <3>2, <5>1
        <5> QED
          BY <1>1, <4>1, <4>3, <5>2
      <4> QED
        BY <4>2, <4>3
    <3>9. \A i \in bits : i = at \/ From(i) \in d.bitmap_
      BY <2>1, <2>2, <2>5, <2>6, <2>7, <3>1, <3>2 DEF bits
    <3>10. \A i \in bits : i = at \/ K[i] \in Key
      BY <1>1, <1>5, <3>4, <3>9
    <3> QED
      BY <3>3, <3>4, <3>5, <3>6, <3>7, <3>8, <3>9, <3>10, Zenon DEF FitsAt
  <2>8. CASE gap > pos
    <3>1. at = pos /\ pos = ub
      BY <2>1, <2>5, <2>8 DEF at, SlotAfterShift
    <3>2. \A i \in 0 .. (cap - 1) :
              IF pos < i /\ i <= gap THEN From(i) = i - 1 /\ K[i] = D[i - 1]
              ELSE From(i) = i /\ K[i] = D[i]
      BY <1>5, <2>1, <2>8 DEF From, ShiftedFrom
    <3>3. K \in [0 .. (cap - 1) -> Key \cup {kEndSentinel_}]
      <4>1. \A i \in 0 .. (cap - 1) : From(i) \in 0 .. (cap - 1)
        BY <2>1, <2>8, <3>2
      <4>2. \A i \in 0 .. (cap - 1) : K[i] \in Key \cup {kEndSentinel_}
        BY <1>1, <1>5, <4>1
      <4> QED
        BY <1>8, <4>2
    <3>4. /\ at \in 0 .. (cap - 1) /\ \A i \in bits : i \in 0 .. (cap - 1)
          /\ at \in bits
      BY <2>1, <2>2, <2>6, <2>8, <3>1 DEF bits
    <3>5. ASSUME NEW i \in 0 .. (cap - 1), NEW j \in 0 .. (cap - 1),
                 i < j, i # at, j # at
          PROVE  K[i] <= K[j]
      <4>1. K[i] = D[From(i)] /\ K[j] = D[From(j)]
        BY <1>5
      <4>2. /\ From(i) = IF pos < i /\ i <= gap THEN i - 1 ELSE i
            /\ From(j) = IF pos < j /\ j <= gap THEN j - 1 ELSE j
        BY <3>2
      <4>3. /\ From(i) \in 0 .. (cap - 1) /\ From(j) \in 0 .. (cap - 1)
            /\ From(i) < From(j)
        BY <2>1, <2>8, <3>1, <3>5, <4>2
      <4> QED
        BY <1>1, <4>1, <4>3
    <3>6. ASSUME NEW i \in 0 .. (at - 1)
          PROVE  K[i] <= key \/ \A k \in i .. (at - 1) : k \notin bits
      <4>1. i \in 0 .. (cap - 1) /\ From(i) \in 0 .. (cap - 1)
        BY <2>1, <2>8, <3>1, <3>2
      <4>2. CASE From(i) < ub
        BY <1>5, <2>3, <4>1, <4>2
      <4>3. CASE ~(From(i) < ub)
        BY <2>1, <2>4, <2>8, <3>1, <3>2, <4>1, <4>3 DEF bits
      <4> QED
        BY <4>2, <4>3
    <3>7. ASSUME NEW i \in (at + 1) .. (cap - 1)
          PROVE  key <= K[i]
      <4>1. /\ i \in 0 .. (cap - 1) /\ From(i) \in 0 .. (cap - 1)
            /\ ub <= From(i)
        BY <2>1, <2>8, <3>1, <3>2
      <4>2. key <= D[From(i)]
        BY <2>1, <2>3, <4>1
      <4> QED
        BY <1>5, <4>1, <4>2
    <3>8. ASSUME NEW i \in 0 .. (cap - 1), i \notin bits, i # at, i + 1 # at
          PROVE  K[i] = IF i + 1 = cap THEN kEndSentinel_ ELSE K[i + 1]
      <4>1. i \notin d.bitmap_ /\ i # gap
        BY <3>8 DEF bits
      <4>2. i < pos \/ gap < i
        BY <2>1, <2>6, <3>1, <3>8, <4>1
      <4>3. K[i] = D[i]
        BY <2>1, <2>8, <3>2, <4>2
      <4>4. CASE i + 1 = cap
        BY <1>1, <4>1, <4>3, <4>4
      <4>5. CASE i + 1 # cap
        <5>1. i + 1 \in 0 .. (cap - 1) /\ (i + 1 <= pos \/ gap < i + 1)
          BY <2>1, <4>2, <4>5
        <5>2. K[i + 1] = D[i + 1]
          <6>1. ~(pos < i + 1 /\ i + 1 <= gap)
            BY <2>1, <2>8, <5>1
          <6> QED
            BY <3>2, <5>1, <6>1
        <5> QED
          BY <1>1, <4>1, <4>3, <4>5, <5>2
      <4> QED
        BY <4>4, <4>5
    <3>9. \A i \in bits : i = at \/ From(i) \in d.bitmap_
      <4> SUFFICES ASSUME NEW i \in bits, i # at
                   PROVE  From(i) \in d.bitmap_
        OBVIOUS
      <4>1. i \in 0 .. (cap - 1)
        BY <3>4
      <4>2. CASE pos < i /\ i <= gap
        <5>1. From(i) = i - 1
          BY <3>2, <4>1, <4>2
        <5>2. i - 1 \in Int /\ pos <= i - 1 /\ i - 1 < gap
          BY <2>1, <4>1, <4>2
        <5> QED
          BY <2>6, <5>1, <5>2
      <4>3. CASE ~(pos < i /\ i <= gap)
        <5>1. From(i) = i
          BY <3>2, <4>1, <4>3
        <5>2. i # gap
          BY <2>1, <2>8, <4>3
        <5> QED
          BY <5>1, <5>2 DEF bits
      <4> QED
        BY <4>2, <4>3
    <3>10. \A i \in bits : i = at \/ K[i] \in Key
      BY <1>1, <1>5, <3>4, <3>9
    <3> QED
      BY <3>3, <3>4, <3>5, <3>6, <3>7, <3>8, <3>9, <3>10, Zenon DEF FitsAt
  <2>9. CASE gap < pos
    <3>1. at = pos - 1 /\ pos = ub
      BY <2>1, <2>5, <2>9 DEF at, SlotAfterShift
    <3>2. \A i \in 0 .. (cap - 1) :
              IF gap <= i /\ i <= pos - 2 THEN From(i) = i + 1 /\ K[i] = D[i + 1]
              ELSE From(i) = i /\ K[i] = D[i]
      BY <1>5, <2>1, <2>9 DEF From, ShiftedFrom
    <3>3. K \in [0 .. (cap - 1) -> Key \cup {kEndSentinel_}]
      <4>1. \A i \in 0 .. (cap - 1) : From(i) \in 0 .. (cap - 1)
        BY <2>1, <2>9, <3>2
      <4>2. \A i \in 0 .. (cap - 1) : K[i] \in Key \cup {kEndSentinel_}
        BY <1>1, <1>5, <4>1
      <4> QED
        BY <1>8, <4>2
    <3>4. /\ at \in 0 .. (cap - 1) /\ \A i \in bits : i \in 0 .. (cap - 1)
          /\ at \in bits
      BY <2>1, <2>2, <2>6, <2>9, <3>1 DEF bits
    <3>5. ASSUME NEW i \in 0 .. (cap - 1), NEW j \in 0 .. (cap - 1),
                 i < j, i # at, j # at
          PROVE  K[i] <= K[j]
      <4>1. K[i] = D[From(i)] /\ K[j] = D[From(j)]
        BY <1>5
      <4>2. /\ From(i) = IF gap <= i /\ i <= pos - 2 THEN i + 1 ELSE i
            /\ From(j) = IF gap <= j /\ j <= pos - 2 THEN j + 1 ELSE j
        BY <3>2
      <4>3. /\ From(i) \in 0 .. (cap - 1) /\ From(j) \in 0 .. (cap - 1)
            /\ From(i) < From(j)
        BY <2>1, <2>9, <3>1, <3>5, <4>2
      <4> QED
        BY <1>1, <4>1, <4>3
    <3>6. ASSUME NEW i \in 0 .. (at - 1)
          PROVE  K[i] <= key \/ \A k \in i .. (at - 1) : k \notin bits
      <4>1. i \in 0 .. (cap - 1) /\ From(i) \in 0 .. (cap - 1)
        BY <2>1, <2>9, <3>1, <3>2
      <4>2. CASE From(i) < ub
        BY <1>5, <2>3, <4>1, <4>2
      <4>3. CASE ~(From(i) < ub)
        BY <2>1, <2>4, <2>9, <3>1, <3>2, <4>1, <4>3 DEF bits
      <4> QED
        BY <4>2, <4>3
    <3>7. ASSUME NEW i \in (at + 1) .. (cap - 1)
          PROVE  key <= K[i]
      <4>1. /\ i \in 0 .. (cap - 1) /\ From(i) \in 0 .. (cap - 1)
            /\ ub <= From(i)
        BY <2>1, <2>9, <3>1, <3>2
      <4>2. key <= D[From(i)]
        BY <2>1, <2>3, <4>1
      <4> QED
        BY <1>5, <4>1, <4>2
    <3>8. ASSUME NEW i \in 0 .. (cap - 1), i \notin bits, i # at, i + 1 # at
          PROVE  K[i] = IF i + 1 = cap THEN kEndSentinel_ ELSE K[i + 1]
      <4>1. i \notin d.bitmap_ /\ i # gap
        BY <3>8 DEF bits
      <4>2. i < gap \/ pos <= i
        BY <2>1, <2>6, <3>1, <3>8, <4>1
      <4>3. K[i] = D[i]
        <5>1. ~(gap <= i /\ i <= pos - 2)
          BY <2>1, <2>9, <4>2
        <5> QED
          BY <3>2, <5>1
      <4>4. CASE i + 1 = cap
        BY <1>1, <4>1, <4>3, <4>4
      <4>5. CASE i + 1 = gap
        <5>1. /\ gap <= pos - 2 /\ i + 1 # cap
              /\ gap \in 0 .. (cap - 1) /\ gap + 1 # cap
          BY <2>1, <2>9, <3>1, <3>8, <4>5
        <5>2. K[gap] = D[gap + 1]
          BY <2>1, <3>2, <5>1
        <5>3. D[i] = D[gap] /\ D[gap] = D[gap + 1]
          BY <1>1, <2>6, <4>1, <4>5, <5>1
        <5> QED
          BY <4>3, <4>5, <5>1, <5>2, <5>3
      <4>6. CASE i + 1 # cap /\ i + 1 # gap
        <5>1. i + 1 \in 0 .. (cap - 1) /\ (i + 1 < gap \/ pos <= i + 1)
          BY <2>1, <4>2, <4>6
        <5>2. K[i + 1] = D[i + 1]
          BY <2>1, <2>9, <3>2, <5>1
        <5> QED
          BY <1>1, <4>1, <4>3, <4>6, <5>2
      <4> QED
        BY <4>4, <4>5, <4>6
    <3>9. \A i \in bits : i = at \/ From(i) \in d.bitmap_
      BY <2>1, <2>2, <2>5, <2>6, <2>9, <3>1, <3>2 DEF bits
    <3>10. \A i \in bits : i = at \/ K[i] \in Key
      BY <1>1, <1>5, <3>4, <3>9
    <3> QED
      BY <3>3, <3>4, <3>5, <3>6, <3>7, <3>8, <3>9, <3>10, Zenon DEF FitsAt
  <2> QED
    BY <2>1, <2>7, <2>8, <2>9
<1> QED
  BY <1>4, <1>6, <1>9 DEF cap, bits, at, From, K

\* Inserting a key, wherever the model predicts it, keeps a node well formed.
LEMMA WithElementKeepsWellFormed ==
    ASSUME NEW d, WellFormed(d), NEW key \in Key, NEW payload \in Payload,
           NEW predicted \in Slots(d),
           NEW pos, pos = find_insert_position(d, key, predicted),
           NEW gap, IsClosestGap(d, pos, gap),
           NEW e, e = WithElement(d, key, payload, pos, gap)
    PROVE  WellFormed(e) /\ SlotAfterShift(gap, pos) \in Int
<1> DEFINE cap == d.data_capacity_
           K == KeysShifted(d, pos, gap)
           bits == d.bitmap_ \cup {gap}
           at == SlotAfterShift(gap, pos)
           From(i) == ShiftedFrom(gap, pos, i)
<1>1. NodeTypeOK(d)
  BY DEF WellFormed
<1>2. /\ e = [key_slots_ |-> e.key_slots_,
                   payload_slots_ |-> e.payload_slots_,
                   bitmap_ |-> e.bitmap_,
                   data_capacity_ |-> e.data_capacity_,
                   num_keys_ |-> e.num_keys_,
                   expansion_threshold_ |-> e.expansion_threshold_,
                   contraction_threshold_ |-> e.contraction_threshold_,
                   max_key_ |-> e.max_key_,
                   min_key_ |-> e.min_key_]
      /\ e.key_slots_ = KeysWritten(K, bits, at, key)
      /\ e.payload_slots_ = PayloadsShifted(d, payload, pos, gap)
      /\ e.bitmap_ = bits
      /\ e.data_capacity_ = cap
      /\ e.num_keys_ = d.num_keys_ + 1
      /\ e.expansion_threshold_ = d.expansion_threshold_
      /\ e.contraction_threshold_ = d.contraction_threshold_
      /\ e.max_key_ = Larger(d.max_key_, key)
      /\ e.min_key_ = Smaller(d.min_key_, key)
  BY <1>1, Zenon DEF WithElement, NodeTypeOK
<1>3. /\ FitsAt(K, bits, at, key, cap)
      /\ at \in bits
      /\ gap \notin d.bitmap_ /\ gap \in Slots(d)
      /\ \A i \in bits : i = at \/ From(i) \in d.bitmap_
  BY ShiftFacts
<1>4. /\ ProperKeys(d.key_slots_, d.bitmap_, cap)
      /\ cap \in Nat \ {0} /\ cap \in Nat
      /\ d.bitmap_ \subseteq 0 .. (cap - 1)
      /\ d.num_keys_ = Cardinality(d.bitmap_)
      /\ d.num_keys_ \in Nat
      /\ IsFiniteSet(d.bitmap_)
  BY WellFormedIsProper
<1>5. \A i \in bits : i = at \/ K[i] = d.key_slots_[From(i)]
  <2>1. \A i \in bits : i \in Slots(d)
    BY <1>3, <1>4 DEF Slots
  <2> QED
    BY <2>1 DEF KeysShifted
<1>6. \A i \in bits : i \in 0 .. (cap - 1)
  BY <1>3, <1>4 DEF Slots
<1> HIDE DEF cap, K, at, From, bits
<1>7. /\ ProperKeys(e.key_slots_, bits, cap)
      /\ e.key_slots_[at] = key
      /\ \A i \in bits : i = at \/ e.key_slots_[i] = K[i]
  BY <1>2, <1>3, <1>4, KeysWrittenFacts
<1>8. Cardinality(bits) = d.num_keys_ + 1
  <2>1. Cardinality(d.bitmap_ \cup {gap}) = d.num_keys_ + 1
    <3>1. /\ gap \notin d.bitmap_ /\ IsFiniteSet(d.bitmap_)
          /\ d.num_keys_ = Cardinality(d.bitmap_)
      BY <1>3, <1>4
    <3> QED
      BY <3>1, FS_AddElement
  <2> QED
    BY <2>1 DEF bits
<1>9. Cardinality(bits) <= cap
  BY <1>4, <1>6, SetOfSlots
<1>10. NodeTypeOK(e)
  <2>1. bits \subseteq Slots(e) /\ Slots(e) = 0 .. (cap - 1)
    BY <1>2, <1>6 DEF Slots
  <2>2. e.key_slots_ \in [0 .. (cap - 1) -> Key \cup {kEndSentinel_}]
    BY <1>7, Zenon DEF ProperKeys
  <2>3. e.payload_slots_ \in [bits -> Payload]
    <3>1. d.payload_slots_ \in [d.bitmap_ -> Payload]
      BY <1>1, Zenon DEF NodeTypeOK
    <3> QED
      BY <1>2, <1>3, <3>1 DEF PayloadsShifted, bits, at, From
  <2>4. /\ e.max_key_ \in Key \cup {kLowest}
        /\ e.min_key_ \in Key \cup {kEndSentinel_}
    <3>1. /\ d.max_key_ \in Key \cup {kLowest}
          /\ d.min_key_ \in Key \cup {kEndSentinel_}
      BY <1>1, Zenon DEF NodeTypeOK
    <3> QED
      BY <1>2, <3>1 DEF Larger, Smaller
  <2>5. /\ d.expansion_threshold_ \in Nat /\ d.contraction_threshold_ \in Nat
        /\ d.num_keys_ + 1 \in Nat
    BY <1>1, <1>4 DEF NodeTypeOK
  <2> QED
    BY <1>2, <1>4, <2>1, <2>2, <2>3, <2>4, <2>5, Zenon DEF NodeTypeOK
<1>11. Counted(e) /\ ThresholdsFit(e)
  BY <1>2, <1>4, <1>8, <1>9 DEF cap, Counted, WellFormed, ThresholdsFit
<1>12. WithinMinMax(e)
  <2> SUFFICES ASSUME NEW i \in bits
               PROVE  /\ e.min_key_ <= e.key_slots_[i]
                      /\ e.key_slots_[i] <= e.max_key_
    BY <1>2 DEF WithinMinMax
  <2>1. /\ d.max_key_ \in Int /\ d.min_key_ \in Int /\ key \in Int
        /\ \A j \in d.bitmap_ : d.key_slots_[j] \in Int
    BY <1>1, <1>4, KeysAreIntegers DEF NodeTypeOK, ProperKeys
  <2>2. CASE i = at
    BY <1>2, <1>7, <2>1, <2>2 DEF Larger, Smaller
  <2>3. CASE i # at
    <3>1. /\ e.key_slots_[i] = d.key_slots_[From(i)]
          /\ From(i) \in d.bitmap_
      BY <1>3, <1>5, <1>7, <2>3
    <3>2. /\ d.min_key_ <= d.key_slots_[From(i)]
          /\ d.key_slots_[From(i)] <= d.max_key_
      BY <3>1 DEF WellFormed, WithinMinMax
    <3> QED
      BY <1>2, <2>1, <3>1, <3>2 DEF Larger, Smaller
  <2> QED
    BY <2>2, <2>3
<1>13. WellFormed(e)
  BY <1>2, <1>7, <1>10, <1>11, <1>12, ProperKeysSuffice
<1>14. at \in Int
  BY <1>3, <1>6
<1> QED
  BY <1>13, <1>14 DEF at

\* Erasing one key keeps a node well formed.
LEMMA WithoutSlotKeepsWellFormed ==
    ASSUME NEW d, WellFormed(d), NEW pos \in d.bitmap_,
           NEW e, e = WithoutSlot(d, pos)
    PROVE  WellFormed(e)
<1> DEFINE cap == d.data_capacity_
           D == d.key_slots_
           bits == d.bitmap_ \ {pos}
           key == KeyFrom(d, pos + 1)
<1>1. NodeTypeOK(d)
  BY DEF WellFormed
<1>2. /\ e = [key_slots_ |-> e.key_slots_,
                   payload_slots_ |-> e.payload_slots_,
                   bitmap_ |-> e.bitmap_,
                   data_capacity_ |-> e.data_capacity_,
                   num_keys_ |-> e.num_keys_,
                   expansion_threshold_ |-> e.expansion_threshold_,
                   contraction_threshold_ |-> e.contraction_threshold_,
                   max_key_ |-> e.max_key_,
                   min_key_ |-> e.min_key_]
      /\ e.key_slots_ = KeysWritten(D, bits, pos, key)
      /\ e.payload_slots_ = [i \in bits |-> d.payload_slots_[i]]
      /\ e.bitmap_ = bits
      /\ e.data_capacity_ = cap
      /\ e.num_keys_ = d.num_keys_ - 1
      /\ e.expansion_threshold_ = d.expansion_threshold_
      /\ e.contraction_threshold_ = d.contraction_threshold_
      /\ e.max_key_ = d.max_key_
      /\ e.min_key_ = d.min_key_
  BY <1>1, Zenon DEF WithoutSlot, NodeTypeOK
<1>3. /\ ProperKeys(D, d.bitmap_, cap)
      /\ cap \in Nat \ {0} /\ cap \in Nat
      /\ \A i \in d.bitmap_ : i \in 0 .. (cap - 1)
      /\ \A i \in 0 .. (cap - 1) : D[i] \in Int
      /\ d.num_keys_ = Cardinality(d.bitmap_)
      /\ d.num_keys_ \in Nat
      /\ IsFiniteSet(d.bitmap_)
  BY WellFormedIsProper
<1>4. FitsAt(D, bits, pos, key, cap)
  <2>1. /\ D \in [0 .. (cap - 1) -> Key \cup {kEndSentinel_}]
        /\ \A i, j \in 0 .. (cap - 1) : i < j => D[i] <= D[j]
        /\ \A i \in 0 .. (cap - 1) :
               i \notin d.bitmap_ =>
                   D[i] = IF i + 1 = cap THEN kEndSentinel_ ELSE D[i + 1]
        /\ \A i \in d.bitmap_ : D[i] \in Key
    BY <1>3, Zenon DEF ProperKeys
  <2>2. /\ pos \in 0 .. (cap - 1)
        /\ key = IF pos + 1 = cap THEN kEndSentinel_ ELSE D[pos + 1]
    BY <1>3 DEF KeyFrom
  <2>3. key \in Key \cup {kEndSentinel_}
    BY <1>3, <2>1, <2>2
  <2> HIDE DEF key, D, cap
  <2>4. \A i \in 0 .. (cap - 1) :
            IF i <= pos THEN D[i] <= key ELSE key <= D[i]
    <3> SUFFICES ASSUME NEW i \in 0 .. (cap - 1)
                 PROVE  IF i <= pos THEN D[i] <= key ELSE key <= D[i]
      OBVIOUS
    <3>1. CASE pos + 1 = cap
      <4>1. key = kEndSentinel_ /\ i <= pos
        BY <2>2, <3>1
      <4>2. D[i] \in Key \cup {kEndSentinel_}
        BY <2>1
      <4> QED
        BY <4>1, <4>2, KeysAreIntegers
    <3>2. CASE pos + 1 # cap
      <4>1. pos + 1 \in 0 .. (cap - 1) /\ key = D[pos + 1]
        BY <1>3, <2>2, <3>2
      <4>2. /\ i < pos + 1 => D[i] <= D[pos + 1]
            /\ i > pos + 1 => D[pos + 1] <= D[i]
            /\ D[i] \in Int
        BY <1>3, <2>1, <4>1
      <4> QED
        BY <2>2, <4>1, <4>2
    <3> QED
      BY <3>1, <3>2
  <2>5. \A i \in 0 .. (pos - 1) : i \in 0 .. (cap - 1) /\ D[i] <= key
    <3>1. \A i \in 0 .. (pos - 1) : i \in 0 .. (cap - 1) /\ i <= pos
      BY <1>3, <2>2 DEF cap
    <3> QED
      BY <2>4, <3>1
  <2>6. \A i \in (pos + 1) .. (cap - 1) : key <= D[i]
    <3>1. \A i \in (pos + 1) .. (cap - 1) : i \in 0 .. (cap - 1) /\ ~(i <= pos)
      BY <2>2
    <3> QED
      BY <2>4, <3>1
  <2> QED
    BY <1>3, <2>1, <2>2, <2>3, <2>5, <2>6 DEF FitsAt
<1> HIDE DEF cap, D, key, bits
<1>5. /\ ProperKeys(e.key_slots_, bits, cap)
      /\ \A i \in bits : e.key_slots_[i] = D[i]
  <2> DEFINE W == KeysWritten(D, bits, pos, key)
  <2>1. \A i \in bits : i # pos
    BY DEF bits
  <2>2. ProperKeys(W, bits, cap) /\ \A i \in bits : i = pos \/ W[i] = D[i]
    BY <1>3, <1>4, KeysWrittenFacts
  <2>3. e.key_slots_ = W
    BY <1>2, Zenon
  <2> HIDE DEF W
  <2> QED
    BY <2>1, <2>2, <2>3, Zenon
<1>6. Cardinality(bits) = d.num_keys_ - 1
  <2>1. Cardinality(d.bitmap_ \ {pos}) = Cardinality(d.bitmap_) - 1
    BY <1>3, FS_RemoveElement
  <2> QED
    BY <1>3, <2>1 DEF bits
<1>7. /\ \A i \in bits : i \in 0 .. (cap - 1)
      /\ IsFiniteSet(bits) /\ Cardinality(bits) \in 0 .. cap
  <2>1. \A i \in bits : i \in 0 .. (cap - 1)
    BY <1>3 DEF bits
  <2> QED
    BY <1>3, <2>1, SetOfSlots
<1>8. NodeTypeOK(e)
  <2>1. bits \subseteq Slots(e) /\ Slots(e) = 0 .. (cap - 1)
    BY <1>2, <1>7 DEF Slots
  <2>2. e.key_slots_ \in [0 .. (cap - 1) -> Key \cup {kEndSentinel_}]
    BY <1>5, Zenon DEF ProperKeys
  <2>3. e.payload_slots_ \in [bits -> Payload]
    BY <1>1, <1>2 DEF NodeTypeOK, bits
  <2>4. /\ e.max_key_ \in Key \cup {kLowest}
        /\ e.min_key_ \in Key \cup {kEndSentinel_}
        /\ e.expansion_threshold_ \in Nat /\ e.contraction_threshold_ \in Nat
    BY <1>1, <1>2 DEF NodeTypeOK
  <2>5. e.num_keys_ \in Nat
    BY <1>2, <1>6, <1>7
  <2> QED
    BY <1>2, <1>3, <2>1, <2>2, <2>3, <2>4, <2>5, Zenon DEF NodeTypeOK
<1>9. Counted(e) /\ ThresholdsFit(e)
  BY <1>2, <1>3, <1>6, <1>7 DEF cap, Counted, WellFormed, ThresholdsFit
<1>10. WithinMinMax(e)
  BY <1>2, <1>5 DEF D, bits, WellFormed, WithinMinMax
<1> QED
  BY <1>2, <1>5, <1>8, <1>9, <1>10, ProperKeysSuffice

\* Erasing the slots from first to before pos keeps a node well formed, when
\* the slot before first does not belong to the first key erased.
LEMMA WithoutSlotsKeepsWellFormed ==
    ASSUME NEW d, WellFormed(d), NEW first \in 0 .. d.data_capacity_,
           NEW pos \in 0 .. d.data_capacity_,
           0 < first /\ first < pos =>
               d.key_slots_[first - 1] # d.key_slots_[first],
           NEW e, e = WithoutSlots(d, first, pos)
    PROVE  /\ WellFormed(e)
           /\ e.num_keys_ <= d.num_keys_
<1> DEFINE cap == d.data_capacity_
           D == d.key_slots_
           bits == d.bitmap_ \ (first .. (pos - 1))
           E == [i \in Slots(d) |-> IF i \in first .. (pos - 1)
                                    THEN KeyFrom(d, pos) ELSE D[i]]
<1>1. NodeTypeOK(d)
  BY DEF WellFormed
<1>2. /\ e = [key_slots_ |-> e.key_slots_,
              payload_slots_ |-> e.payload_slots_,
              bitmap_ |-> e.bitmap_,
              data_capacity_ |-> e.data_capacity_,
              num_keys_ |-> e.num_keys_,
              expansion_threshold_ |-> e.expansion_threshold_,
              contraction_threshold_ |-> e.contraction_threshold_,
              max_key_ |-> e.max_key_,
              min_key_ |-> e.min_key_]
      /\ e.key_slots_ = E
      /\ e.payload_slots_ = [i \in bits |-> d.payload_slots_[i]]
      /\ e.bitmap_ = bits
      /\ e.data_capacity_ = cap
      /\ e.num_keys_ =
             d.num_keys_ - Cardinality(d.bitmap_ \cap (first .. (pos - 1)))
      /\ e.expansion_threshold_ = d.expansion_threshold_
      /\ e.contraction_threshold_ = d.contraction_threshold_
      /\ e.max_key_ = d.max_key_
      /\ e.min_key_ = d.min_key_
  BY <1>1, Zenon DEF WithoutSlots, NodeTypeOK
<1>3. /\ cap \in Nat \ {0} /\ cap \in Nat
      /\ \A i \in d.bitmap_ : i \in 0 .. (cap - 1)
      /\ \A i \in 0 .. (cap - 1) : D[i] \in Int
      /\ d.num_keys_ = Cardinality(d.bitmap_)
      /\ d.num_keys_ \in Nat
      /\ IsFiniteSet(d.bitmap_)
  BY WellFormedIsProper
<1>4. /\ D \in [0 .. (cap - 1) -> Key \cup {kEndSentinel_}]
      /\ \A i, j \in 0 .. (cap - 1) : i < j => D[i] <= D[j]
      /\ \A i \in 0 .. (cap - 1) :
             i \notin d.bitmap_ =>
                 D[i] = IF i + 1 = cap THEN kEndSentinel_ ELSE D[i + 1]
      /\ \A i \in d.bitmap_ : D[i] \in Key
  BY WellFormedIsProper, Zenon DEF ProperKeys
<1>5. /\ first \in Int /\ pos \in Int /\ cap \in Int
      /\ 0 <= first /\ 0 <= pos /\ pos <= cap
  BY <1>3
<1>6. \A i \in 0 .. (cap - 1) :
          E[i] = IF first <= i /\ i < pos
                 THEN IF pos = cap THEN kEndSentinel_ ELSE D[pos]
                 ELSE D[i]
  BY <1>5 DEF Slots, KeyFrom
<1>7. \A i \in bits : i \in d.bitmap_ /\ i \in 0 .. (cap - 1)
                      /\ ~(first <= i /\ i < pos)
  BY <1>3, <1>5
<1>8. /\ IsFiniteSet(bits)
      /\ Cardinality(bits) = e.num_keys_
      /\ e.num_keys_ \in Nat /\ e.num_keys_ <= d.num_keys_
  <2>1. /\ IsFiniteSet(bits)
        /\ Cardinality(bits) =
               d.num_keys_ - Cardinality(d.bitmap_ \cap (first .. (pos - 1)))
    BY <1>3, FS_Difference
  <2>2. /\ IsFiniteSet(d.bitmap_ \cap (first .. (pos - 1)))
        /\ Cardinality(d.bitmap_ \cap (first .. (pos - 1))) \in Nat
    BY <1>3, FS_Intersection, FS_CardinalityType
  <2>3. Cardinality(bits) \in Nat
    BY <2>1, FS_CardinalityType
  <2> HIDE DEF bits
  <2> QED
    BY <1>2, <1>3, <2>1, <2>2, <2>3
<1>9. E \in [0 .. (cap - 1) -> Key \cup {kEndSentinel_}]
  <2>1. E = [i \in 0 .. (cap - 1) |-> E[i]]
    BY DEF Slots
  <2> HIDE DEF E
  <2>2. \A i \in 0 .. (cap - 1) : E[i] \in Key \cup {kEndSentinel_}
    <3>1. pos = cap \/ pos \in 0 .. (cap - 1)
      BY <1>5
    <3> HIDE DEF cap, D
    <3>2. pos = cap \/ D[pos] \in Key \cup {kEndSentinel_}
      BY <1>4, <3>1
    <3> QED
      BY <1>4, <1>6, <3>2
  <2> QED
    BY <2>1, <2>2
<1> HIDE DEF cap, D, E
<1>10. ASSUME NEW i \in 0 .. (cap - 1), NEW j \in 0 .. (cap - 1), i < j
       PROVE  E[i] <= E[j]
  <2>1. /\ E[i] = D[i] \/ (first <= i /\ i < pos)
        /\ E[j] = D[j] \/ (first <= j /\ j < pos)
    BY <1>6
  <2>2. CASE pos = cap
    <3>1. /\ E[i] \in Key \cup {kEndSentinel_}
          /\ E[j] \in Key \cup {kEndSentinel_}
      BY <1>9
    <3>2. CASE first <= j
      <4>1. E[j] = kEndSentinel_
        BY <1>5, <1>6, <2>2, <3>2
      <4> QED
        BY <3>1, <4>1, KeysAreIntegers
    <3>3. CASE ~(first <= j)
      <4>1. E[i] = D[i] /\ E[j] = D[j]
        BY <1>5, <1>6, <1>10, <3>3
      <4> QED
        BY <1>4, <1>10, <4>1
    <3> QED
      BY <3>2, <3>3
  <2>3. CASE pos # cap
    <3>1. pos \in 0 .. (cap - 1) /\ D[pos] \in Int /\ D[i] \in Int /\ D[j] \in Int
      BY <1>3, <1>5, <2>3 DEF cap, D
    <3>2. /\ i < pos => D[i] <= D[pos]
          /\ pos < j => D[pos] <= D[j]
          /\ D[i] <= D[j]
      BY <1>4, <1>10, <3>1
    <3>3. /\ E[i] = IF first <= i /\ i < pos THEN D[pos] ELSE D[i]
          /\ E[j] = IF first <= j /\ j < pos THEN D[pos] ELSE D[j]
      BY <1>6, <2>3
    <3> QED
      BY <1>5, <1>10, <3>1, <3>2, <3>3
  <2> QED
    BY <2>2, <2>3
<1>11. ASSUME NEW i \in 0 .. (cap - 1), i \notin bits
       PROVE  E[i] = IF i + 1 = cap THEN kEndSentinel_ ELSE E[i + 1]
  <2>1. CASE first <= i /\ i < pos
    <3>1. CASE i + 1 = cap
      BY <1>5, <1>6, <2>1, <3>1
    <3>2. CASE i + 1 # cap
      <4>1. i + 1 \in 0 .. (cap - 1)
        BY <1>5, <3>2
      <4>2. i + 1 < pos \/ i + 1 = pos
        BY <1>5, <2>1
      <4> QED
        BY <1>5, <1>6, <2>1, <3>2, <4>1, <4>2
    <3> QED
      BY <3>1, <3>2
  <2>2. CASE ~(first <= i /\ i < pos)
    <3>1. i \notin d.bitmap_ /\ E[i] = D[i]
      BY <1>5, <1>6, <1>11, <2>2
    <3>2. CASE i + 1 = cap
      BY <1>4, <3>1, <3>2
    <3>3. CASE i + 1 # cap
      <4>1. i + 1 \in 0 .. (cap - 1)
        BY <1>5, <3>3
      <4>2. D[i] = D[i + 1]
        BY <1>4, <3>1, <3>3
      <4>3. ~(first <= i + 1 /\ i + 1 < pos)
        <5> SUFFICES ASSUME first = i + 1, i + 1 < pos
                     PROVE  FALSE
          BY <1>5, <2>2
        <5>1. D[first - 1] # D[first]
          BY <1>5 DEF D
        <5>2. first - 1 = i
          BY <1>5
        <5> QED
          BY <4>2, <5>1, <5>2
      <4> QED
        BY <1>6, <3>1, <3>3, <4>1, <4>2, <4>3
    <3> QED
      BY <3>2, <3>3
  <2> QED
    BY <2>1, <2>2
<1>12. \A i \in bits : E[i] = D[i] /\ E[i] \in Key
  BY <1>4, <1>6, <1>7
<1> HIDE DEF bits
<1>13. ProperKeys(e.key_slots_, bits, cap)
  BY <1>2, <1>9, <1>10, <1>11, <1>12 DEF ProperKeys
<1>14. NodeTypeOK(e)
  <2>1. bits \subseteq Slots(e) /\ Slots(e) = 0 .. (cap - 1)
    BY <1>2, <1>7 DEF Slots
  <2>2. e.payload_slots_ \in [bits -> Payload]
    BY <1>1, <1>2, <1>7 DEF NodeTypeOK
  <2>3. /\ e.max_key_ \in Key \cup {kLowest}
        /\ e.min_key_ \in Key \cup {kEndSentinel_}
        /\ e.expansion_threshold_ \in Nat /\ e.contraction_threshold_ \in Nat
    BY <1>1, <1>2 DEF NodeTypeOK
  <2> QED
    BY <1>2, <1>3, <1>8, <1>9, <2>1, <2>2, <2>3, Zenon DEF NodeTypeOK
<1>15. Counted(e) /\ ThresholdsFit(e)
  <2>1. /\ d.num_keys_ <= cap /\ d.num_keys_ \in Int /\ cap \in Int
        /\ 0 < d.expansion_threshold_
        /\ d.expansion_threshold_ <= 10 * cap
        /\ \/ d.contraction_threshold_ = kMinDensity_ * cap
           \/ d.contraction_threshold_ = 0 /\ cap = 1
    BY <1>3 DEF cap, WellFormed, ThresholdsFit
  <2> QED
    BY <1>2, <1>8, <2>1 DEF Counted, ThresholdsFit
<1>16. WithinMinMax(e)
  <2>1. \A i \in d.bitmap_ : d.min_key_ <= D[i] /\ D[i] <= d.max_key_
    BY DEF D, WellFormed, WithinMinMax
  <2> QED
    BY <1>2, <1>7, <1>12, <2>1 DEF WithinMinMax
<1>17. WellFormed(e)
  BY <1>2, <1>13, <1>14, <1>15, <1>16, ProperKeysSuffice
<1> QED
  BY <1>8, <1>17

\* What a deletion ends with keeps a node well formed.
LEMMA ContractedKeepsWellFormed ==
    ASSUME NEW d, WellFormed(d), NEW e \in Contracted(d)
    PROVE  WellFormed(e) /\ e.num_keys_ = d.num_keys_
<1>1. CASE 10 * d.num_keys_ < d.contraction_threshold_
  <2>1. e \in resize(d, 8)
    BY <1>1, Zenon DEF Contracted, kMaxDensity_
  <2> QED
    BY <2>1, ResizeKeepsWellFormed
<1>2. CASE ~(10 * d.num_keys_ < d.contraction_threshold_)
  BY <1>2 DEF Contracted
<1> QED
  BY <1>1, <1>2

-----------------------------------------------------------------------------
\* Every call of find_lower on a well-formed node returns a slot.
LEMMA FindLowerFacts ==
    ASSUME NEW d, NodeTypeOK(d), Ascending(d), NEW key \in Key
    PROVE  find_lower(d, key) \in d.bitmap_ \/
           find_lower(d, key) = d.data_capacity_
<1>1. lower_bound(d, key) \in 0 .. d.data_capacity_
  BY LowerBoundSplits
<1> QED
  BY <1>1, NextFilledFacts DEF find_lower

\* A bulk load gives a node that satisfies the invariant.
LEMMA InitEstablishesIInv == Init => IInv
<1> SUFFICES ASSUME Init PROVE IInv
  OBVIOUS
<1>1. PICK values \in Loads, density \in {kInitDensity_, kMinDensity_} :
          node \in BulkLoaded(values, density)
  BY DEF Init
<1>2. PICK n \in 0 .. MaxLoad :
          /\ values \in [0 .. (n - 1) -> Key \X Payload]
          /\ \A i, j \in 0 .. (n - 1) :
                 i < j => \/ values[i][1] < values[j][1]
                          \/ /\ allow_duplicates
                             /\ values[i][1] = values[j][1]
  BY <1>1 DEF Loads
<1>3. \A i, j \in 0 .. (n - 1) : i < j => values[i][1] <= values[j][1]
  <2> SUFFICES ASSUME NEW i \in 0 .. (n - 1), NEW j \in 0 .. (n - 1), i < j
               PROVE  values[i][1] <= values[j][1]
    OBVIOUS
  <2>1. values[i][1] \in Key /\ values[j][1] \in Key
    BY <1>2
  <2>2. values[i][1] < values[j][1] \/ values[i][1] = values[j][1]
    BY <1>2
  <2> QED
    BY <2>1, <2>2, KeysAreIntegers
<1>4. n \in Nat /\ density \in {6, 7, 8}
  BY BoundsAreNatural DEF kInitDensity_, kMinDensity_
<1>5. WellFormed(node)
  BY <1>1, <1>2, <1>3, <1>4, BulkLoadGivesWellFormed
<1>6. ret \in [op : {"bulk_load", "insert", "erase"}, code : Int, pos : Int]
  BY DEF Init, Returned
<1> QED
  BY <1>5, <1>6 DEF IInv, TypeOK, WellFormed

\* A node that has expanded, or did not need to, is well formed.
LEMMA ExpandedKeepsWellFormed ==
    ASSUME NEW d, WellFormed(d), NEW e \in Expanded(d)
    PROVE  WellFormed(e) /\ e.num_keys_ = d.num_keys_
<1>1. CASE IsFull(d)
  <2>1. e \in resize(d, 6)
    BY <1>1, Zenon DEF Expanded, kMinDensity_
  <2> QED
    BY <2>1, ResizeKeepsWellFormed
<1>2. CASE ~IsFull(d)
  BY <1>2 DEF Expanded
<1> QED
  BY <1>1, <1>2

\* The deletion of a range of slots that starts at the lower bound of a key.
LEMMA EraseSlotsGivesWellFormed ==
    ASSUME NEW d, WellFormed(d), NEW key \in Key,
           NEW pos \in 0 .. d.data_capacity_
    PROVE  /\ WellFormed(WithoutSlots(d, lower_bound(d, key), pos))
           /\ WithoutSlots(d, lower_bound(d, key), pos).num_keys_ <= d.num_keys_
<1> DEFINE first == lower_bound(d, key)
<1>1. /\ first \in 0 .. d.data_capacity_
      /\ \A i \in Slots(d) : d.key_slots_[i] < key <=> i < first
  BY LowerBoundSplits DEF WellFormed
<1>2. /\ d.data_capacity_ \in Nat
      /\ \A i \in 0 .. (d.data_capacity_ - 1) : d.key_slots_[i] \in Int
  BY WellFormedIsProper
<1> HIDE DEF first
<1>3. 0 < first /\ first < pos =>
          d.key_slots_[first - 1] # d.key_slots_[first]
  <2> SUFFICES ASSUME 0 < first, first < pos
               PROVE  d.key_slots_[first - 1] # d.key_slots_[first]
    OBVIOUS
  <2>1. first - 1 \in Slots(d) /\ first \in Slots(d)
    BY <1>1, <1>2 DEF Slots
  <2>2. d.key_slots_[first - 1] < key /\ ~(d.key_slots_[first] < key)
    BY <1>1, <2>1
  <2> QED
    BY <2>2
<1> QED
  BY <1>1, <1>3, WithoutSlotsKeepsWellFormed DEF first

\* The deletion that erase and erase_range end with.
LEMMA EraseSlotsKeepsIInv ==
    ASSUME IInv, NEW key \in Key, NEW pos \in 0 .. node.data_capacity_,
           EraseSlots(lower_bound(node, key), pos)
    PROVE  IInv'
<1> DEFINE d == WithoutSlots(node, lower_bound(node, key), pos)
<1>1. WellFormed(node) /\ node.num_keys_ \in Int
  BY DEF IInv, WellFormed, NodeTypeOK
<1>2. WellFormed(d)
  BY <1>1, EraseSlotsGivesWellFormed
<1>3. /\ node' \in Contracted(d)
      /\ ret' = Returned("erase", node.num_keys_ - d.num_keys_, -1)
  BY DEF EraseSlots
<1> HIDE DEF d
<1>4. WellFormed(node')
  BY <1>2, <1>3, ContractedKeepsWellFormed
<1>5. d.num_keys_ \in Int
  BY <1>2, WellFormedIsProper
<1>6. ret' \in [op : {"bulk_load", "insert", "retrain", "erase"},
                 code : Int, pos : Int]
  BY <1>1, <1>3, <1>5 DEF Returned
<1> QED
  BY <1>4, <1>6 DEF IInv, TypeOK, WellFormed

\* Every call keeps the invariant.
LEMMA NextKeepsIInv == IInv /\ [Next]_vars => IInv'
<1> SUFFICES ASSUME IInv, [Next]_vars PROVE IInv'
  OBVIOUS
<1> DEFINE Returns == [op : {"bulk_load", "insert", "retrain", "erase"},
                       code : Int, pos : Int]
<1>1. WellFormed(node) /\ NodeTypeOK(node) /\ Ascending(node) /\ ret \in Returns
  BY DEF IInv, TypeOK, WellFormed
<1>2. ASSUME WellFormed(node'), ret' \in Returns PROVE IInv'
  BY <1>2 DEF IInv, TypeOK, WellFormed
<1>3. ASSUME NEW key \in Key, NEW payload \in Payload, Insert(key, payload)
      PROVE  IInv'
  <2>1. PICK d \in Expanded(node) :
            IF ~allow_duplicates /\ upper_bound(d, key) > 0
               /\ d.key_slots_[upper_bound(d, key) - 1] = key
            THEN /\ node' = d
                 /\ ret' = Returned("insert", -1, upper_bound(d, key) - 1)
            ELSE \E pos \in InsertPositions(d, key), gap \in Gaps(d) :
                    /\ IsClosestGap(d, pos, gap)
                    /\ node' = WithElement(d, key, payload, pos, gap)
                    /\ ret' = Returned("insert", 0, SlotAfterShift(gap, pos))
    BY <1>3 DEF Insert
  <2>2. WellFormed(d)
    BY <1>1, ExpandedKeepsWellFormed
  <2>3. upper_bound(d, key) \in Int
    BY <2>2, UpperBoundSplits DEF WellFormed
  <2>4. CASE node' = d /\ ret' = Returned("insert", -1, upper_bound(d, key) - 1)
    BY <1>2, <2>2, <2>3, <2>4 DEF Returned
  <2>5. CASE \E pos \in InsertPositions(d, key), gap \in Gaps(d) :
                /\ IsClosestGap(d, pos, gap)
                /\ node' = WithElement(d, key, payload, pos, gap)
                /\ ret' = Returned("insert", 0, SlotAfterShift(gap, pos))
    <3>1. PICK pos \in InsertPositions(d, key), gap \in Gaps(d) :
              /\ IsClosestGap(d, pos, gap)
              /\ node' = WithElement(d, key, payload, pos, gap)
              /\ ret' = Returned("insert", 0, SlotAfterShift(gap, pos))
      BY <2>5
    <3>2. PICK predicted \in Slots(d) :
              pos = find_insert_position(d, key, predicted)
      BY DEF InsertPositions
    <3>3. WellFormed(node') /\ SlotAfterShift(gap, pos) \in Int
      BY <2>2, <3>1, <3>2, WithElementKeepsWellFormed
    <3>4. ret' \in Returns
      BY <3>1, <3>3 DEF Returned
    <3> QED
      BY <1>2, <3>3, <3>4
  <2> QED
    BY <2>1, <2>4, <2>5
<1>4. CASE DeclineInsert
  BY <1>1, <1>2, <1>4 DEF DeclineInsert, Returned
<1>5. ASSUME UNCHANGED node, ret' = Returned("erase", 0, -1)
      PROVE  IInv'
  BY <1>1, <1>2, <1>5 DEF Returned
<1>6. CASE ExpandAndRetrain
  <2>1. /\ node' \in resize(node, 6)
        /\ ret' = Returned("retrain", 0, -1)
    BY <1>6, Zenon DEF ExpandAndRetrain, kMinDensity_
  <2>2. WellFormed(node')
    BY <1>1, <2>1, ResizeKeepsWellFormed
  <2> QED
    BY <1>2, <2>1, <2>2 DEF Returned
<1>7. ASSUME NEW pos \in node.bitmap_, EraseOneAt(pos)
       PROVE  IInv'
  <2>1. /\ node' \in Contracted(WithoutSlot(node, pos))
        /\ ret' = Returned("erase", 1, -1)
    BY <1>7 DEF EraseOneAt
  <2>2. WellFormed(WithoutSlot(node, pos))
    BY <1>1, WithoutSlotKeepsWellFormed
  <2>3. WellFormed(node')
    BY <2>1, <2>2, ContractedKeepsWellFormed
  <2> QED
    BY <1>2, <2>1, <2>3 DEF Returned
<1>8. ASSUME NEW key \in Key, EraseOne(key)
       PROVE  IInv'
  <2> DEFINE pos == find_lower(node, key)
  <2>1. CASE pos = node.data_capacity_ \/ node.key_slots_[pos] # key
    BY <1>5, <1>8, <2>1 DEF EraseOne
  <2>2. CASE ~(pos = node.data_capacity_ \/ node.key_slots_[pos] # key)
    <3>1. pos \in node.bitmap_
      BY <1>1, <2>2, FindLowerFacts
    <3>2. EraseOneAt(pos)
      BY <1>8, <2>2 DEF EraseOne
    <3> QED
      BY <1>7, <3>1, <3>2
  <2> QED
    BY <2>1, <2>2
<1>9. ASSUME NEW key \in Key, Erase(key)
      PROVE  IInv'
  <2> DEFINE pos == upper_bound(node, key)
  <2>1. CASE pos = 0 \/ node.key_slots_[pos - 1] # key
    BY <1>5, <1>9, <2>1 DEF Erase
  <2>2. CASE ~(pos = 0 \/ node.key_slots_[pos - 1] # key)
    <3>1. EraseSlots(lower_bound(node, key), pos)
      BY <1>9, <2>2 DEF Erase
    <3>2. pos \in 0 .. node.data_capacity_
      BY <1>1, UpperBoundSplits
    <3> QED
      BY <3>1, <3>2, EraseSlotsKeepsIInv
  <2> QED
    BY <2>1, <2>2
<1>10. ASSUME NEW start_key \in Key, NEW end_key \in Key,
             NEW end_key_inclusive \in BOOLEAN,
             EraseRange(start_key, end_key, end_key_inclusive)
      PROVE  IInv'
  <2> DEFINE pos == IF end_key_inclusive THEN upper_bound(node, end_key)
                    ELSE lower_bound(node, end_key)
  <2>1. CASE pos = 0
    BY <1>5, <1>10, <2>1 DEF EraseRange
  <2>2. CASE pos # 0
    <3>1. EraseSlots(lower_bound(node, start_key), pos)
      BY <1>10, <2>2 DEF EraseRange
    <3>2. pos \in 0 .. node.data_capacity_
      BY <1>1, UpperBoundSplits, LowerBoundSplits
    <3> QED
      BY <3>1, <3>2, EraseSlotsKeepsIInv
  <2> QED
    BY <2>1, <2>2
<1>11. CASE UNCHANGED vars
  BY <1>1, <1>2, <1>11 DEF vars
<1> QED
  BY <1>3, <1>4, <1>6, <1>9, <1>10, <1>11, <1>7, <1>8 DEF Next

-----------------------------------------------------------------------------
\* A data node stays well formed whatever is inserted and erased: the
\* inductive invariant of the class.
THEOREM NodeStaysWellFormed == Spec => []IInv
<1>1. Init => IInv
  BY InitEstablishesIInv
<1>2. IInv /\ [Next]_vars => IInv'
  BY NextKeepsIInv
<1> QED
  BY <1>1, <1>2, PTL DEF Spec

\* The fields of the node always have their types and fit its capacity.
THEOREM TypeCorrect == Spec => []TypeOK
<1>1. IInv => TypeOK
  BY DEF IInv
<1> QED
  BY <1>1, NodeStaysWellFormed, PTL

\* The slots are always in key order, gaps included.
THEOREM SlotsStaySorted == Spec => []SlotsSorted
<1>1. IInv => SlotsSorted
  BY DEF IInv, WellFormed, SlotsSorted
<1> QED
  BY <1>1, NodeStaysWellFormed, PTL

\* Every gap always repeats the next key, so that the last slot with a value
\* holds a real key.
THEOREM GapsStayFilled == Spec => []GapsRepeatNextKey
<1>1. IInv => GapsRepeatNextKey
  BY DEF IInv, WellFormed, GapsRepeatNextKey
<1> QED
  BY <1>1, NodeStaysWellFormed, PTL

\* num_keys_ is always the number of filled slots.
THEOREM CountStaysExact == Spec => []CountMatchesBitmap
<1>1. IInv => CountMatchesBitmap
  BY DEF IInv, WellFormed, CountMatchesBitmap
<1> QED
  BY <1>1, NodeStaysWellFormed, PTL

\* No key is ever outside min_key_ and max_key_.
THEOREM MinMaxStayBounds == Spec => []KeysWithinMinMax
<1>1. IInv => KeysWithinMinMax
  BY DEF IInv, WellFormed, KeysWithinMinMax
<1> QED
  BY <1>1, NodeStaysWellFormed, PTL

\* An insert that goes on always finds a gap: the expansion threshold and the
\* capacity of an expanded node never let the array fill up.
THEOREM RoomIsAlwaysLeft == Spec => []RoomToInsert
<1>1. ASSUME IInv PROVE RoomToInsert
  <2> SUFFICES ASSUME NEW d \in Expanded(node) PROVE Gaps(d) # {}
    BY DEF RoomToInsert
  <2>1. WellFormed(node) /\ WellFormed(d)
    BY <1>1, ExpandedKeepsWellFormed DEF IInv
  <2>2. /\ d.data_capacity_ \in Nat \ {0} /\ d.num_keys_ \in Nat
        /\ d.num_keys_ = Cardinality(d.bitmap_)
        /\ node.data_capacity_ \in Nat \ {0} /\ node.num_keys_ \in Nat
    BY <2>1, WellFormedIsProper
  <2>3. d.num_keys_ < d.data_capacity_
    <3>1. CASE IsFull(node)
      <4>1. node.num_keys_ # 0
        <5>1. 10 * node.num_keys_ >= node.expansion_threshold_
          BY <3>1 DEF IsFull
        <5>2. 0 < node.expansion_threshold_
          BY <2>1 DEF WellFormed, ThresholdsFit
        <5>3. node.expansion_threshold_ \in Nat
          BY <2>1 DEF WellFormed, NodeTypeOK
        <5> QED
          BY <5>1, <5>2, <5>3
      <4>2. d \in resize(node, 6)
        BY <3>1, Zenon DEF Expanded, kMinDensity_
      <4> QED
        BY <2>1, <4>1, <4>2, ResizeKeepsWellFormed
    <3>2. CASE ~IsFull(node)
      <4>1. d = node /\ 10 * node.num_keys_ < node.expansion_threshold_
        BY <2>1, <2>2, <3>2 DEF Expanded, IsFull, WellFormed, NodeTypeOK
      <4>2. /\ node.expansion_threshold_ <= 10 * node.data_capacity_
            /\ node.expansion_threshold_ \in Nat
        BY <2>1 DEF WellFormed, NodeTypeOK, ThresholdsFit
      <4> QED
        BY <2>2, <4>1, <4>2
    <3> QED
      BY <3>1, <3>2
  <2>4. Cardinality(0 .. (d.data_capacity_ - 1)) = d.data_capacity_
    <3>1. d.data_capacity_ \in Nat /\ d.data_capacity_ # 0
      BY <2>2
    <3>2. 0 \in Int /\ d.data_capacity_ - 1 \in Int
      BY <3>1
    <3> QED
      BY <3>1, <3>2, FS_Interval
  <2>5. d.bitmap_ # Slots(d)
    BY <2>2, <2>3, <2>4 DEF Slots
  <2>6. d.bitmap_ \subseteq Slots(d)
    BY <2>1 DEF WellFormed, NodeTypeOK
  <2> QED
    BY <2>5, <2>6, Zenon DEF Gaps
<1> QED
  BY <1>1, NodeStaysWellFormed, PTL

-----------------------------------------------------------------------------
(* Capacities.                                                             *)

\* A node allowed to expand does not pass max_slots_.
LEMMA ExpandedCapacity ==
    ASSUME NEW n \in Nat, 10 * n <= 6 * max_slots_
    PROVE  CapacityFor(n, 6) <= max_slots_
<1>1. max_slots_ \in Nat /\ max_slots_ >= 1
  BY MaxSlotsIsPositive
<1>2. (10 * n) \div 6 <= max_slots_ /\ (10 * n) \div 6 \in Int
  BY <1>1
<1>3. n + 1 <= max_slots_
  BY <1>1
<1> QED
  BY <1>2, <1>3 DEF CapacityFor, Larger

\* A node due to contract does not grow, and ends dense enough.
LEMMA ContractedCapacity ==
    ASSUME NEW n \in Nat, NEW cap \in Nat, 10 * n < 6 * cap
    PROVE  /\ CapacityFor(n, 8) <= cap
           /\ n >= 2 => 6 * CapacityFor(n, 8) <= 10 * n
<1>1. /\ (10 * n) \div 8 <= cap /\ (10 * n) \div 8 \in Int
      /\ 8 * ((10 * n) \div 8) <= 10 * n
  OBVIOUS
<1>2. n + 1 <= cap /\ (n >= 2 => 6 * (n + 1) <= 10 * n)
  OBVIOUS
<1> QED
  BY <1>1, <1>2 DEF CapacityFor, Larger

\* The capacity of a resized node.
LEMMA ResizedCapacity ==
    ASSUME NEW d, NodeTypeOK(d), NEW density, NEW e \in resize(d, density)
    PROVE  e.data_capacity_ = IF d.num_keys_ = 0 THEN d.data_capacity_
                              ELSE CapacityFor(d.num_keys_, density)
<1>1. CASE d.num_keys_ = 0
  BY <1>1 DEF resize
<1>2. CASE d.num_keys_ # 0
  BY <1>2, ResizedFields
<1> QED
  BY <1>1, <1>2

\* What an insert does to the capacity.
LEMMA InsertCapacity ==
    ASSUME IInv, NEW key \in Key, NEW payload \in Payload, Insert(key, payload)
    PROVE  /\ node'.data_capacity_ <= node.data_capacity_
              \/ node'.data_capacity_ <= max_slots_
           /\ node'.num_keys_ >= node.num_keys_
<1>1. PICK d \in Expanded(node) :
          \/ node' = d
          \/ \E pos \in InsertPositions(d, key), gap \in Gaps(d) :
                node' = WithElement(d, key, payload, pos, gap)
  BY DEF Insert
<1>2. /\ WellFormed(node) /\ WellFormed(d) /\ NodeTypeOK(d) /\ NodeTypeOK(node)
      /\ d.num_keys_ = node.num_keys_
  BY ExpandedKeepsWellFormed DEF IInv, WellFormed
<1>3. /\ d.data_capacity_ \in Nat /\ node.data_capacity_ \in Nat
      /\ d.num_keys_ \in Nat
  BY <1>2 DEF NodeTypeOK
<1>4. /\ node'.data_capacity_ = d.data_capacity_
      /\ node'.num_keys_ \in {d.num_keys_, d.num_keys_ + 1}
  <2>1. ASSUME NEW pos, NEW gap
        PROVE  /\ WithElement(d, key, payload, pos, gap).data_capacity_ =
                      d.data_capacity_
               /\ WithElement(d, key, payload, pos, gap).num_keys_ =
                      d.num_keys_ + 1
    BY <1>2, Zenon DEF WithElement, NodeTypeOK
  <2> QED
    BY <1>1, <2>1
<1>5. CASE IsFull(node)
  <2>1. d \in resize(node, 6)
    BY <1>5, Zenon DEF Expanded, kMinDensity_
  <2>2. 10 * node.num_keys_ <= 6 * max_slots_
    BY <1>2, <1>3, <1>5, MaxSlotsIsPositive
    DEF Insert, AtMaxCapacity, kMinDensity_
  <2>3. CapacityFor(node.num_keys_, 6) <= max_slots_
    BY <1>2, <1>3, <2>2, ExpandedCapacity
  <2>4. d.data_capacity_ = node.data_capacity_ \/ d.data_capacity_ <= max_slots_
    BY <1>2, <2>1, <2>3, ResizedCapacity
  <2> QED
    BY <1>2, <1>3, <1>4, <2>4
<1>6. CASE ~IsFull(node)
  <2>1. d = node
    BY <1>6 DEF Expanded
  <2> QED
    BY <1>3, <1>4, <2>1
<1> QED
  BY <1>5, <1>6

\* What the contraction after a deletion does to the capacity.
LEMMA ContractionCapacity ==
    ASSUME NEW d, WellFormed(d), NEW e \in Contracted(d)
    PROVE  /\ e.data_capacity_ <= d.data_capacity_
           /\ e.num_keys_ = d.num_keys_
           /\ e.num_keys_ >= 2 =>
                  10 * e.num_keys_ >= kMinDensity_ * e.data_capacity_
<1>1. /\ NodeTypeOK(d) /\ d.num_keys_ \in Nat /\ d.data_capacity_ \in Nat
      /\ d.num_keys_ <= d.data_capacity_
      /\ \/ d.contraction_threshold_ = 6 * d.data_capacity_
         \/ d.contraction_threshold_ = 0 /\ d.data_capacity_ = 1
  BY DEF WellFormed, NodeTypeOK, ThresholdsFit, kMinDensity_
<1>2. e.num_keys_ = d.num_keys_
  BY ContractedKeepsWellFormed
<1>3. CASE 10 * d.num_keys_ < d.contraction_threshold_
  <2>1. e \in resize(d, 8)
    BY <1>3, Zenon DEF Contracted, kMaxDensity_
  <2>2. 10 * d.num_keys_ < 6 * d.data_capacity_
    BY <1>1, <1>3
  <2>3. /\ CapacityFor(d.num_keys_, 8) <= d.data_capacity_
        /\ d.num_keys_ >= 2 =>
               6 * CapacityFor(d.num_keys_, 8) <= 10 * d.num_keys_
    BY <1>1, <2>2, ContractedCapacity
  <2>4. e.data_capacity_ = IF d.num_keys_ = 0 THEN d.data_capacity_
                           ELSE CapacityFor(d.num_keys_, 8)
    BY <1>1, <2>1, ResizedCapacity
  <2>5. CapacityFor(d.num_keys_, 8) \in Nat
    BY <1>1, NewCapacity
  <2> QED
    BY <1>1, <1>2, <2>3, <2>4, <2>5 DEF kMinDensity_
<1>4. CASE ~(10 * d.num_keys_ < d.contraction_threshold_)
  <2>1. e = d
    BY <1>4 DEF Contracted
  <2> QED
    BY <1>1, <1>4, <2>1 DEF kMinDensity_
<1> QED
  BY <1>3, <1>4

\* What a deletion does to the capacity, and that it leaves a dense node.
LEMMA EraseCapacity ==
    ASSUME IInv,
           \/ \E pos \in node.bitmap_ : EraseOneAt(pos)
           \/ \E key \in Key : EraseOne(key) \/ Erase(key)
           \/ \E start_key, end_key \in Key, end_key_inclusive \in BOOLEAN :
                  EraseRange(start_key, end_key, end_key_inclusive)
    PROVE  \/ UNCHANGED node
           \/ /\ node'.data_capacity_ <= node.data_capacity_
              /\ node'.num_keys_ >= 2 =>
                     10 * node'.num_keys_ >= kMinDensity_ * node'.data_capacity_
<1>1. WellFormed(node) /\ NodeTypeOK(node) /\ Ascending(node)
  BY DEF IInv, WellFormed
<1>2. ASSUME NEW d, WellFormed(d), d.data_capacity_ = node.data_capacity_,
             node' \in Contracted(d)
      PROVE  /\ node'.data_capacity_ <= node.data_capacity_
             /\ node'.num_keys_ >= 2 =>
                    10 * node'.num_keys_ >= kMinDensity_ * node'.data_capacity_
  BY <1>2, ContractionCapacity
<1>3. ASSUME NEW key \in Key, NEW pos \in 0 .. node.data_capacity_,
             EraseSlots(lower_bound(node, key), pos)
      PROVE  /\ node'.data_capacity_ <= node.data_capacity_
             /\ node'.num_keys_ >= 2 =>
                    10 * node'.num_keys_ >= kMinDensity_ * node'.data_capacity_
  <2> DEFINE d == WithoutSlots(node, lower_bound(node, key), pos)
  <2>1. WellFormed(d)
    BY <1>1, <1>3, EraseSlotsGivesWellFormed
  <2>2. d.data_capacity_ = node.data_capacity_
    BY <1>1, Zenon DEF WithoutSlots, NodeTypeOK
  <2>3. node' \in Contracted(d)
    BY <1>3 DEF EraseSlots
  <2> QED
    BY <1>2, <2>1, <2>2, <2>3
<1>4. ASSUME NEW pos \in node.bitmap_, EraseOneAt(pos)
      PROVE  /\ node'.data_capacity_ <= node.data_capacity_
             /\ node'.num_keys_ >= 2 =>
                    10 * node'.num_keys_ >= kMinDensity_ * node'.data_capacity_
  <2> DEFINE d == WithoutSlot(node, pos)
  <2>1. node' \in Contracted(d)
    BY <1>4 DEF EraseOneAt
  <2>2. WellFormed(d)
    BY <1>1, WithoutSlotKeepsWellFormed
  <2>3. d.data_capacity_ = node.data_capacity_
    BY <1>1, Zenon DEF WithoutSlot, NodeTypeOK
  <2> QED
    BY <1>2, <2>1, <2>2, <2>3
<1>5. ASSUME NEW key \in Key, EraseOne(key), ~UNCHANGED node
      PROVE  \E pos \in node.bitmap_ : EraseOneAt(pos)
  <2>1. /\ find_lower(node, key) # node.data_capacity_
        /\ EraseOneAt(find_lower(node, key))
    BY <1>5 DEF EraseOne
  <2> QED
    BY <1>1, <2>1, FindLowerFacts
<1>6. ASSUME NEW key \in Key, Erase(key), ~UNCHANGED node
      PROVE  /\ upper_bound(node, key) \in 0 .. node.data_capacity_
             /\ EraseSlots(lower_bound(node, key), upper_bound(node, key))
  BY <1>1, <1>6, UpperBoundSplits DEF Erase
<1>7. ASSUME NEW start_key \in Key, NEW end_key \in Key,
             NEW end_key_inclusive \in BOOLEAN,
             EraseRange(start_key, end_key, end_key_inclusive),
             ~UNCHANGED node
      PROVE  \E pos \in 0 .. node.data_capacity_ :
                 EraseSlots(lower_bound(node, start_key), pos)
  BY <1>1, <1>7, UpperBoundSplits, LowerBoundSplits DEF EraseRange
<1> QED
  BY <1>3, <1>4, <1>6, <1>7, <1>5

\* An insert never expands a node beyond max_slots_.
THEOREM ExpansionIsBounded == Spec => InsertExpandsWithinMaxSlots
<1>1. ASSUME IInv, [Next]_vars
      PROVE  [ret'.op = "insert" /\ node'.data_capacity_ > node.data_capacity_
                  => node'.data_capacity_ <= max_slots_]_vars
  <2>1. node.data_capacity_ \in Int
    BY <1>1 DEF IInv, WellFormed, NodeTypeOK
  <2>2. IInv'
    BY <1>1, NextKeepsIInv
  <2>3. node'.data_capacity_ \in Int
    BY <2>2 DEF IInv, WellFormed, NodeTypeOK
  <2>4. ASSUME NEW key \in Key, NEW payload \in Payload, Insert(key, payload)
        PROVE  \/ node'.data_capacity_ <= node.data_capacity_
               \/ node'.data_capacity_ <= max_slots_
    BY <1>1, <2>4, InsertCapacity
  <2>5. CASE \/ \E pos \in node.bitmap_ : EraseOneAt(pos)
             \/ \E key \in Key : EraseOne(key) \/ Erase(key)
             \/ \E start_key, end_key \in Key, end_key_inclusive \in BOOLEAN :
                    EraseRange(start_key, end_key, end_key_inclusive)
    BY <1>1, <2>1, <2>3, <2>5, EraseCapacity
  <2>6. CASE DeclineInsert \/ UNCHANGED vars
    BY <2>1, <2>6 DEF DeclineInsert, vars
  <2>7. CASE ExpandAndRetrain
    BY <2>7 DEF ExpandAndRetrain, Returned
  <2> QED
    BY <1>1, <2>1, <2>3, <2>4, <2>5, <2>6, <2>7 DEF Next
<1> QED
  BY <1>1, NodeStaysWellFormed, PTL DEF Spec, InsertExpandsWithinMaxSlots

\* A deletion that leaves two keys or more leaves a dense node.
THEOREM ErasureLeavesDenseNodes == Spec => ErasureKeepsDensity
<1>1. ASSUME IInv, [Next]_vars
      PROVE  [node'.num_keys_ \in 2 .. (node.num_keys_ - 1)
                  => 10 * node'.num_keys_ >=
                         kMinDensity_ * node'.data_capacity_]_vars
  <2>1. node.num_keys_ \in Int
    BY <1>1 DEF IInv, WellFormed, NodeTypeOK
  <2>2. ASSUME NEW key \in Key, NEW payload \in Payload, Insert(key, payload)
        PROVE  node'.num_keys_ \notin 2 .. (node.num_keys_ - 1)
    BY <1>1, <2>1, <2>2, InsertCapacity
  <2>3. CASE \/ \E pos \in node.bitmap_ : EraseOneAt(pos)
             \/ \E key \in Key : EraseOne(key) \/ Erase(key)
             \/ \E start_key, end_key \in Key, end_key_inclusive \in BOOLEAN :
                    EraseRange(start_key, end_key, end_key_inclusive)
    BY <1>1, <2>1, <2>3, EraseCapacity
  <2>4. CASE DeclineInsert \/ UNCHANGED vars
    BY <2>1, <2>4 DEF DeclineInsert, vars
  <2>5. CASE ExpandAndRetrain
    <3>1. node' \in resize(node, 6)
      BY <2>5, Zenon DEF ExpandAndRetrain, kMinDensity_
    <3>2. node'.num_keys_ = node.num_keys_
      BY <1>1, <3>1, ResizeKeepsWellFormed DEF IInv
    <3> QED
      BY <2>1, <3>2
  <2> QED
    BY <1>1, <2>2, <2>3, <2>4, <2>5 DEF Next
<1> QED
  BY <1>1, NodeStaysWellFormed, PTL DEF Spec, ErasureKeepsDensity

-----------------------------------------------------------------------------
(* Lookups.                                                                *)

\* A set of integers with an upper bound in it has that as its maximum.
LEMMA MaxIsGreatest ==
    ASSUME NEW S \in SUBSET Int, NEW m \in S, \A i \in S : i <= m
    PROVE  Max(S) = m
<1>1. Max(S) \in S /\ \A i \in S : Max(S) >= i
  <2>1. \E x \in S : \A y \in S : x >= y
    <3>1. \A y \in S : m >= y
      OBVIOUS
    <3> QED
      BY <3>1
  <2> QED
    BY <2>1, Zenon DEF Max
<1>2. Max(S) <= m /\ Max(S) >= m /\ Max(S) \in Int /\ m \in Int
  BY <1>1
<1> QED
  BY <1>2

\* Before the upper bound of a key that is not the sentinel is a filled slot.
LEMMA SlotBeforeUpperBoundIsFilled ==
    ASSUME kEndSentinel_ \notin Key,
           NEW d, WellFormed(d), NEW key \in Key, upper_bound(d, key) > 0
    PROVE  upper_bound(d, key) - 1 \in d.bitmap_
<1> DEFINE ub == upper_bound(d, key)
           cap == d.data_capacity_
<1>1. /\ ub \in 0 .. cap
      /\ \A i \in 0 .. (cap - 1) : d.key_slots_[i] <= key <=> i < ub
  BY UpperBoundSplits DEF WellFormed, Slots
<1>2. /\ cap \in Nat
      /\ \A i \in 0 .. (cap - 1) : d.key_slots_[i] \in Int
      /\ \A i \in 0 .. (cap - 1) :
             i \notin d.bitmap_ =>
                 d.key_slots_[i] = IF i + 1 = cap THEN kEndSentinel_
                                   ELSE d.key_slots_[i + 1]
  BY WellFormedIsProper DEF ProperKeys
<1>3. ub > 0
  OBVIOUS
<1> HIDE DEF ub, cap
<1>4. ub - 1 \in 0 .. (cap - 1) /\ d.key_slots_[ub - 1] <= key
  BY <1>1, <1>2, <1>3
<1>5. key < kEndSentinel_
  BY KeysAreIntegers
<1>6. ASSUME ub - 1 \notin d.bitmap_ PROVE FALSE
  <2>1. CASE ub = cap
    <3>1. d.key_slots_[ub - 1] = kEndSentinel_
      BY <1>1, <1>2, <1>4, <1>6, <2>1
    <3> QED
      BY <1>4, <1>5, <3>1, KeysAreIntegers
  <2>2. CASE ub # cap
    <3>1. ub \in 0 .. (cap - 1) /\ (ub - 1) + 1 = ub
      BY <1>1, <1>2, <2>2
    <3>2. d.key_slots_[ub - 1] = d.key_slots_[ub]
      BY <1>2, <1>4, <1>6, <2>2, <3>1
    <3>3. ~(d.key_slots_[ub] <= key)
      BY <1>1, <3>1
    <3> QED
      BY <1>4, <3>2, <3>3
  <2> QED
    BY <2>1, <2>2
<1> QED
  BY <1>6 DEF ub

\* find_key finds the last key of a value, if there is one.
LEMMA FindKeyFindsLast ==
    ASSUME kEndSentinel_ \notin Key,
           NEW d, WellFormed(d), NEW key \in Key,
           NEW holding, holding = {i \in d.bitmap_ : d.key_slots_[i] = key}
    PROVE  find_key(d, key) = IF holding = {} THEN -1 ELSE Max(holding)
<1> DEFINE ub == upper_bound(d, key)
           cap == d.data_capacity_
<1>1. /\ ub \in 0 .. cap
      /\ \A i \in 0 .. (cap - 1) : d.key_slots_[i] <= key <=> i < ub
  BY UpperBoundSplits DEF WellFormed, Slots
<1>2. /\ cap \in Nat /\ key \in Int
      /\ \A i \in d.bitmap_ : i \in 0 .. (cap - 1)
      /\ \A i \in 0 .. (cap - 1) : d.key_slots_[i] \in Int
      /\ \A i, j \in 0 .. (cap - 1) :
             i < j => d.key_slots_[i] <= d.key_slots_[j]
  BY WellFormedIsProper, KeysAreIntegers DEF ProperKeys
<1>3. ub > 0 => ub - 1 \in d.bitmap_
  BY SlotBeforeUpperBoundIsFilled
<1>4. find_key(d, key) =
          IF ub - 1 < 0 \/ d.key_slots_[ub - 1] # key THEN -1 ELSE ub - 1
  BY DEF find_key
<1> HIDE DEF ub, cap
<1>5. \A i \in holding : /\ i \in Int /\ i \in 0 .. (cap - 1) /\ i <= ub - 1
                         /\ d.key_slots_[i] = key
  BY <1>1, <1>2
<1>6. CASE ub - 1 < 0
  BY <1>1, <1>4, <1>5, <1>6
<1>7. CASE ub > 0 /\ d.key_slots_[ub - 1] = key
  <2>1. ub - 1 \in holding
    BY <1>3, <1>7
  <2>2. Max(holding) = ub - 1
    <3>1. holding \in SUBSET Int
      BY <1>5
    <3> QED
      BY <1>5, <2>1, <3>1, MaxIsGreatest
  <2> QED
    BY <1>1, <1>4, <1>7, <2>1, <2>2
<1>8. CASE ub > 0 /\ d.key_slots_[ub - 1] # key
  <2>1. /\ ub - 1 \in 0 .. (cap - 1)
        /\ d.key_slots_[ub - 1] <= key /\ d.key_slots_[ub - 1] \in Int
    BY <1>1, <1>2, <1>8
  <2>2. ASSUME NEW i \in holding PROVE FALSE
    <3>1. i < ub - 1 \/ i = ub - 1
      BY <1>1, <1>5
    <3>2. d.key_slots_[i] <= d.key_slots_[ub - 1]
      BY <1>2, <1>5, <2>1, <3>1
    <3> QED
      BY <1>2, <1>5, <1>8, <2>1, <3>2
  <2> QED
    BY <1>4, <1>8, <2>2
<1> QED
  BY <1>1, <1>6, <1>7, <1>8

\* The lookups find exactly what they should, for keys below the sentinel.
THEOREM LookupsStayExact ==
    ASSUME kEndSentinel_ \notin Key
    PROVE  Spec => []LookupsExact
<1>1. ASSUME IInv PROVE LookupsExact
  <2> SUFFICES
        ASSUME NEW key \in Key
        PROVE  /\ find_key(node, key) =
                      IF {i \in node.bitmap_ : node.key_slots_[i] = key} = {}
                      THEN -1
                      ELSE Max({i \in node.bitmap_ : node.key_slots_[i] = key})
               /\ find_lower(node, key) =
                      FirstOf(node,
                              {i \in node.bitmap_ : node.key_slots_[i] >= key})
               /\ find_upper(node, key) =
                      FirstOf(node,
                              {i \in node.bitmap_ : node.key_slots_[i] > key})
               /\ upper_bound(node, key) > 0
                      => upper_bound(node, key) - 1 \in node.bitmap_
    BY Zenon DEF LookupsExact
  <2>1. WellFormed(node) /\ NodeTypeOK(node) /\ Ascending(node)
    BY <1>1 DEF IInv, WellFormed
  <2>2. /\ \A i \in node.bitmap_ : i \in Slots(node) /\ i \in Int
        /\ \A i \in node.bitmap_ : node.key_slots_[i] \in Int
        /\ key \in Int
    BY <2>1, WellFormedIsProper, KeysAreIntegers DEF Slots
  <2>3. {i \in node.bitmap_ : node.key_slots_[i] >= key} =
            {i \in node.bitmap_ : i >= lower_bound(node, key)}
    <3>1. /\ lower_bound(node, key) \in Int
          /\ \A i \in Slots(node) :
                 node.key_slots_[i] < key <=> i < lower_bound(node, key)
      BY <2>1, LowerBoundSplits
    <3>2. \A i \in node.bitmap_ :
              node.key_slots_[i] >= key <=> i >= lower_bound(node, key)
      BY <2>2, <3>1
    <3> QED
      BY <3>2, Zenon
  <2>4. {i \in node.bitmap_ : node.key_slots_[i] > key} =
            {i \in node.bitmap_ : i >= upper_bound(node, key)}
    <3>1. /\ upper_bound(node, key) \in Int
          /\ \A i \in Slots(node) :
                 node.key_slots_[i] <= key <=> i < upper_bound(node, key)
      BY <2>1, UpperBoundSplits
    <3>2. \A i \in node.bitmap_ :
              node.key_slots_[i] > key <=> i >= upper_bound(node, key)
      BY <2>2, <3>1
    <3> QED
      BY <3>2, Zenon
  <2>5. /\ find_lower(node, key) =
               FirstOf(node, {i \in node.bitmap_ : node.key_slots_[i] >= key})
        /\ find_upper(node, key) =
               FirstOf(node, {i \in node.bitmap_ : node.key_slots_[i] > key})
    BY <2>3, <2>4, Zenon
    DEF find_lower, find_upper, get_next_filled_position
  <2> QED
    BY <2>1, <2>5, FindKeyFindsLast, SlotBeforeUpperBoundIsFilled
<1> QED
  BY <1>1, NodeStaysWellFormed, PTL

-----------------------------------------------------------------------------
(* Sets of slots in their order.                                           *)

\* B is a set of slots of an array of n slots.
SlotsOf(n, B) == n \in Nat /\ \A s \in B : s \in 0 .. (n - 1)

\* What is known of ranks, with one hypothesis on the slots.
LEMMA Ranking ==
    ASSUME NEW n, NEW B, SlotsOf(n, B)
    PROVE  /\ IsFiniteSet(B) /\ Cardinality(B) \in Nat
           /\ \A i \in B : /\ i \in Nat /\ i < n
                           /\ Rank(B, i) \in 0 .. (Cardinality(B) - 1)
           /\ \A r \in 0 .. (Cardinality(B) - 1) :
                  Nth(B, r) \in B /\ Rank(B, Nth(B, r)) = r
           /\ \A i \in B : Nth(B, Rank(B, i)) = i
           /\ \A i, j \in B : Rank(B, j) < Rank(B, i) <=> j < i
<1>0. n \in Nat /\ \A s \in B : s \in 0 .. (n - 1)
  BY DEF SlotsOf
<1>1. IsFiniteSet(B) /\ Cardinality(B) \in Nat
  BY <1>0, SetOfSlots
<1>2. \A i \in B : Rank(B, i) \in 0 .. (Cardinality(B) - 1)
  BY <1>0, RankOfElement
<1>3. \A r \in 0 .. (Cardinality(B) - 1) :
          Nth(B, r) \in B /\ Rank(B, Nth(B, r)) = r
  BY <1>0, NthIsRanked
<1>4. ASSUME NEW i \in B, NEW j \in B
      PROVE  /\ i < j => Rank(B, i) < Rank(B, j)
             /\ j < i => Rank(B, j) < Rank(B, i)
             /\ i \in Int /\ j \in Int /\ Rank(B, i) \in Int /\ Rank(B, j) \in Int
  <2>1. i \in 0 .. n /\ j \in 0 .. n
    BY <1>0
  <2>2. /\ i < j => Rank(B, i) < Rank(B, j)
        /\ j < i => Rank(B, j) < Rank(B, i)
    BY <1>0, <2>1, RankOfElement
  <2>3. Rank(B, i) \in Int /\ Rank(B, j) \in Int
    BY <1>1, <1>2
  <2> QED
    BY <1>0, <2>2, <2>3
<1>5. \A i, j \in B : Rank(B, j) < Rank(B, i) <=> j < i
  <2> SUFFICES ASSUME NEW i \in B, NEW j \in B
               PROVE  Rank(B, j) < Rank(B, i) <=> j < i
    OBVIOUS
  <2>1. i < j \/ j < i \/ i = j
    BY <1>4
  <2> QED
    BY <1>4, <2>1
<1>6. ASSUME NEW i \in B PROVE Nth(B, Rank(B, i)) = i
  <2> DEFINE j == Nth(B, Rank(B, i))
  <2>1. j \in B /\ Rank(B, j) = Rank(B, i)
    BY <1>2, <1>3
  <2> HIDE DEF j
  <2>2. ~(i < j) /\ ~(j < i) /\ i \in Int /\ j \in Int
    BY <1>4, <2>1
  <2>3. i = j
    BY <2>2
  <2> QED
    BY <2>3 DEF j
<1> QED
  BY <1>0, <1>1, <1>2, <1>3, <1>5, <1>6

\* A subset of the slots is a set of slots.
LEMMA SomeSlots ==
    ASSUME NEW n, NEW B, SlotsOf(n, B), NEW T, T \subseteq B
    PROVE  SlotsOf(n, T)
BY DEF SlotsOf

\* The positions, from 1, that the slots T have among those of B.
PositionsIn(B, T) == {Rank(B, i) + 1 : i \in T}

\* There are as many positions as slots.
LEMMA AsManyPositions ==
    ASSUME NEW n, NEW B, SlotsOf(n, B), NEW T, T \subseteq B
    PROVE  /\ IsFiniteSet(PositionsIn(B, T))
           /\ Cardinality(PositionsIn(B, T)) = Cardinality(T)
<1> DEFINE f == [i \in T |-> Rank(B, i) + 1]
           S == PositionsIn(B, T)
<1>1. SlotsOf(n, T)
  BY SomeSlots
<1>2. IsFiniteSet(T)
  BY <1>1, Ranking
<1>3. \A i \in B : Rank(B, i) \in Int /\ Nth(B, Rank(B, i)) = i
  BY Ranking
<1>5. ASSUME NEW i \in T, NEW j \in T, f[i] = f[j]
      PROVE  i = j
  <2>1. Rank(B, i) + 1 = Rank(B, j) + 1 /\ i \in B /\ j \in B
    BY <1>5
  <2>2. Rank(B, i) = Rank(B, j)
    BY <1>3, <2>1
  <2> QED
    BY <1>3, <2>1, <2>2, Zenon
<1>6. f \in [T -> S]
  BY DEF PositionsIn
<1>7. \A t \in S : \E i \in T : f[i] = t
  BY DEF PositionsIn
<1>8. f \in Bijection(T, S)
  BY <1>5, <1>6, <1>7, Zenon DEF Bijection, Injection, Surjection, IsInjective
<1>9. ExistsBijection(T, S)
  BY <1>8, Zenon DEF ExistsBijection
<1> QED
  BY <1>2, <1>9, FS_Bijection

\* A slot of T has among the positions of T in B the rank it has in T.
LEMMA RankOfPosition ==
    ASSUME NEW n, NEW B, SlotsOf(n, B), NEW T, T \subseteq B, NEW i \in T
    PROVE  Nth(PositionsIn(B, T), Rank(T, i)) = Rank(B, i) + 1
<1> DEFINE S == PositionsIn(B, T)
           T2 == {j \in T : j < i}
           S2 == {p \in S : p < Rank(B, i) + 1}
<1>1. /\ Cardinality(B) \in Nat /\ Cardinality(B) + 1 \in Nat
      /\ \A j \in B : Rank(B, j) \in 0 .. (Cardinality(B) - 1)
      /\ \A j \in B : Rank(B, j) < Rank(B, i) <=> j < i
  BY Ranking
<1>2. \A s \in S : s \in 0 .. ((Cardinality(B) + 1) - 1)
  <2>1. \A j \in T : Rank(B, j) + 1 \in 0 .. ((Cardinality(B) + 1) - 1)
    BY <1>1
  <2> QED
    BY <2>1, Zenon DEF PositionsIn
<1>3. SlotsOf(Cardinality(B) + 1, S)
  BY <1>1, <1>2 DEF SlotsOf
<1>4. S2 = PositionsIn(B, T2)
  <2>1. \A j \in T : Rank(B, j) + 1 < Rank(B, i) + 1 <=> j < i
    BY <1>1
  <2> QED
    BY <2>1 DEF PositionsIn
<1>5. T2 \subseteq B
  OBVIOUS
<1>6. Cardinality(S2) = Cardinality(T2)
  <2> HIDE DEF S2, T2, S
  <2> QED
    BY <1>4, <1>5, AsManyPositions, Zenon
<1>7. Rank(S, Rank(B, i) + 1) = Rank(T, i)
  BY <1>6, Zenon DEF Rank
<1>8. Rank(B, i) + 1 \in S
  BY DEF PositionsIn
<1> HIDE DEF S
<1>9. Nth(S, Rank(S, Rank(B, i) + 1)) = Rank(B, i) + 1
  BY <1>3, <1>8, Ranking
<1> QED
  BY <1>7, <1>9 DEF S

\* As many slots of A are below x as slots of B below y, when a bijection
\* takes the ones to the others.
LEMMA RankOfImage ==
    ASSUME NEW n, NEW A, SlotsOf(n, A), NEW B, NEW F \in [A -> B],
           \A i, j \in A : F[i] = F[j] => i = j,
           \A b \in B : \E i \in A : F[i] = b,
           NEW x, NEW y, \A i \in A : i < x <=> F[i] < y
    PROVE  Rank(A, x) = Rank(B, y)
<1> DEFINE A2 == {i \in A : i < x}
           B2 == {b \in B : b < y}
           f == [i \in A2 |-> F[i]]
<1>1. IsFiniteSet(A2)
  <2>1. SlotsOf(n, A2)
    BY SomeSlots
  <2> QED
    BY <2>1, Ranking
<1>2. f \in [A2 -> B2]
  OBVIOUS
<1>3. \A i, j \in A2 : f[i] = f[j] => i = j
  OBVIOUS
<1>4. \A b \in B2 : \E i \in A2 : f[i] = b
  OBVIOUS
<1>5. f \in Bijection(A2, B2)
  BY <1>2, <1>3, <1>4, Zenon DEF Bijection, Injection, Surjection, IsInjective
<1>6. ExistsBijection(A2, B2)
  BY <1>5, Zenon DEF ExistsBijection
<1>7. Cardinality(A2) = Cardinality(B2)
  BY <1>1, <1>6, FS_Bijection
<1> QED
  BY <1>7, Zenon DEF Rank

\* A slot more raises the ranks of the slots after it, and no other.
LEMMA RankWithSlot ==
    ASSUME NEW n, NEW C, SlotsOf(n, C), NEW at \in C
    PROVE  /\ Cardinality(C) = Cardinality(C \ {at}) + 1
           /\ Rank(C, at) = Rank(C \ {at}, at)
           /\ \A i \in C \ {at} :
                  /\ i < at => Rank(C, i) = Rank(C \ {at}, i)
                  /\ ~(i < at) => Rank(C, i) = Rank(C \ {at}, i) + 1
<1> DEFINE A == C \ {at}
<1>1. IsFiniteSet(C) /\ \A i \in C : i \in Nat
  BY Ranking
<1>2. IsFiniteSet(A)
  BY <1>1, FS_Subset
<1>3. Cardinality(C) = Cardinality(A) + 1
  <2>1. C = A \cup {at} /\ at \notin A
    OBVIOUS
  <2> QED
    BY <1>2, <2>1, FS_AddElement
<1>4. Rank(C, at) = Rank(A, at)
  <2>1. {j \in C : j < at} = {j \in A : j < at}
    BY <1>1
  <2> QED
    BY <2>1, Zenon DEF Rank
<1>5. ASSUME NEW i \in A
      PROVE  Rank(C, i) = IF i < at THEN Rank(A, i) ELSE Rank(A, i) + 1
  <2> DEFINE C2 == {j \in C : j < i}
             A2 == {j \in A : j < i}
  <2>1. CASE i < at
    <3>1. C2 = A2
      BY <1>1, <2>1
    <3> QED
      BY <2>1, <3>1, Zenon DEF Rank
  <2>2. CASE ~(i < at)
    <3>1. at < i
      BY <1>1, <2>2
    <3>2. C2 = A2 \cup {at} /\ at \notin A2
      BY <3>1
    <3>3. IsFiniteSet(A2)
      BY <1>2, FS_Subset
    <3> HIDE DEF A2, C2
    <3>4. Cardinality(C2) = Cardinality(A2) + 1
      BY <3>2, <3>3, FS_AddElement
    <3> QED
      BY <2>2, <3>4 DEF Rank, A2, C2
  <2> QED
    BY <2>1, <2>2
<1> QED
  BY <1>3, <1>4, <1>5

-----------------------------------------------------------------------------
(* The pairs of an array.                                                  *)

Pairs(B, K, P) ==
    [r \in 1 .. Cardinality(B) |-> <<K[Nth(B, r - 1)], P[Nth(B, r - 1)]>>]

\* The pairs of a node are those of its arrays.
LEMMA ItemsArePairs ==
    ASSUME NEW d
    PROVE  ItemsOf(d) = Pairs(d.bitmap_, d.key_slots_, d.payload_slots_)
BY Zenon DEF ItemsOf, Pairs

\* Slots and positions.
LEMMA PositionFacts ==
    ASSUME NEW n, NEW B, SlotsOf(n, B)
    PROVE  /\ Cardinality(B) \in Nat
           /\ \A i \in B : /\ Rank(B, i) \in Nat
                           /\ Rank(B, i) + 1 \in 1 .. Cardinality(B)
                           /\ Nth(B, (Rank(B, i) + 1) - 1) = i
                           /\ (Rank(B, i) + 1) - 1 = Rank(B, i)
           /\ \A r \in 1 .. Cardinality(B) :
                  Nth(B, r - 1) \in B /\ Rank(B, Nth(B, r - 1)) + 1 = r
<1>1. /\ Cardinality(B) \in Nat
      /\ \A i \in B : /\ Rank(B, i) \in 0 .. (Cardinality(B) - 1)
                      /\ Nth(B, Rank(B, i)) = i
      /\ \A r \in 0 .. (Cardinality(B) - 1) :
             Nth(B, r) \in B /\ Rank(B, Nth(B, r)) = r
  BY Ranking
<1>2. ASSUME NEW i \in B
      PROVE  /\ Rank(B, i) \in Nat
             /\ Rank(B, i) + 1 \in 1 .. Cardinality(B)
             /\ Nth(B, (Rank(B, i) + 1) - 1) = i
             /\ (Rank(B, i) + 1) - 1 = Rank(B, i)
  <2>1. (Rank(B, i) + 1) - 1 = Rank(B, i)
    BY <1>1
  <2>2. Nth(B, (Rank(B, i) + 1) - 1) = i
    BY <1>1, <2>1
  <2> QED
    BY <1>1, <2>1, <2>2
<1>3. ASSUME NEW r \in 1 .. Cardinality(B)
      PROVE  Nth(B, r - 1) \in B /\ Rank(B, Nth(B, r - 1)) + 1 = r
  <2>1. r - 1 \in 0 .. (Cardinality(B) - 1) /\ (r - 1) + 1 = r
    BY <1>1
  <2>2. Nth(B, r - 1) \in B /\ Rank(B, Nth(B, r - 1)) = r - 1
    BY <1>1, <2>1
  <2> QED
    BY <2>1, <2>2
<1> QED
  BY <1>1, <1>2, <1>3

\* The positions S are those of the slots T of B.
Chosen(S, B, T) ==
    /\ T \subseteq B /\ S \subseteq 1 .. Cardinality(B)
    /\ \A i \in B : Rank(B, i) + 1 \in S <=> i \in T

\* The positions of some slots are determined by them, and as many.
LEMMA ChosenPositions ==
    ASSUME NEW n, NEW B, SlotsOf(n, B), NEW T, NEW S, Chosen(S, B, T)
    PROVE  S = PositionsIn(B, T) /\ Cardinality(S) = Cardinality(T)
<1>1. S = PositionsIn(B, T)
  <2>1. \A p \in S : Nth(B, p - 1) \in B /\ Rank(B, Nth(B, p - 1)) + 1 = p
    BY PositionFacts DEF Chosen
  <2> QED
    BY <2>1 DEF PositionsIn, Chosen
<1> QED
  BY <1>1, AsManyPositions DEF Chosen

\* A slot's contents are found at its rank.
LEMMA PairsAt ==
    ASSUME NEW n, NEW B, SlotsOf(n, B), NEW K, NEW P
    PROVE  /\ DOMAIN Pairs(B, K, P) = 1 .. Cardinality(B)
           /\ \A i \in B : Pairs(B, K, P)[Rank(B, i) + 1] = <<K[i], P[i]>>
<1>1. DOMAIN Pairs(B, K, P) = 1 .. Cardinality(B)
  BY Zenon DEF Pairs
<1>2. ASSUME NEW i \in B
      PROVE  Pairs(B, K, P)[Rank(B, i) + 1] = <<K[i], P[i]>>
  <2>1. /\ Rank(B, i) + 1 \in 1 .. Cardinality(B)
        /\ Nth(B, (Rank(B, i) + 1) - 1) = i
    BY PositionFacts
  <2>2. Pairs(B, K, P)[Rank(B, i) + 1] =
            <<K[Nth(B, (Rank(B, i) + 1) - 1)], P[Nth(B, (Rank(B, i) + 1) - 1)]>>
    BY <2>1, Zenon DEF Pairs
  <2> QED
    BY <2>1, <2>2, Zenon
<1> QED
  BY <1>1, <1>2

\* A function that has the pairs of an array at their positions is Pairs.
HasPairs(s, B, K, P) ==
    /\ s = [r \in 1 .. Cardinality(B) |-> s[r]]
    /\ \A i \in B : s[Rank(B, i) + 1] = <<K[i], P[i]>>

\* An array's sequence of pairs is determined by what is at each slot's rank.
LEMMA PairsByPosition ==
    ASSUME NEW n, NEW B, SlotsOf(n, B), NEW K, NEW P, NEW s, HasPairs(s, B, K, P)
    PROVE  s = Pairs(B, K, P)
<1>0. /\ s = [r \in 1 .. Cardinality(B) |-> s[r]]
      /\ \A i \in B : s[Rank(B, i) + 1] = <<K[i], P[i]>>
  BY Zenon DEF HasPairs
<1>1. \A r \in 1 .. Cardinality(B) : s[r] = <<K[Nth(B, r - 1)], P[Nth(B, r - 1)]>>
  <2> SUFFICES ASSUME NEW r \in 1 .. Cardinality(B)
               PROVE  s[r] = <<K[Nth(B, r - 1)], P[Nth(B, r - 1)]>>
    OBVIOUS
  <2>1. Nth(B, r - 1) \in B /\ Rank(B, Nth(B, r - 1)) + 1 = r
    BY PositionFacts
  <2>2. s[Rank(B, Nth(B, r - 1)) + 1] = <<K[Nth(B, r - 1)], P[Nth(B, r - 1)]>>
    BY <1>0, <2>1, Zenon
  <2> QED
    BY <2>1, <2>2, Zenon
<1>2. [r \in 1 .. Cardinality(B) |-> s[r]] =
          [r \in 1 .. Cardinality(B) |-> <<K[Nth(B, r - 1)], P[Nth(B, r - 1)]>>]
  BY <1>1, Zenon
<1> QED
  BY <1>0, <1>2, Zenon DEF Pairs

\* The pairs at the positions of some slots are those of an array that has
\* only these slots filled, with the same contents.
KeptOf(s, S) == [r \in 1 .. Cardinality(S) |-> s[Nth(S, r - 1)]]

\* Keeping some positions is keeping their slots.
LEMMA KeptPairs ==
    ASSUME NEW n, NEW B, SlotsOf(n, B), NEW K, NEW P, NEW K2, NEW P2,
           NEW T, \A i \in T : K2[i] = K[i] /\ P2[i] = P[i],
           NEW S, Chosen(S, B, T)
    PROVE  KeptOf(Pairs(B, K, P), S) = Pairs(T, K2, P2)
<1>0. T \subseteq B
  BY DEF Chosen
<1>1. S = PositionsIn(B, T)
  BY ChosenPositions
<1>2. Cardinality(S) = Cardinality(T)
  BY ChosenPositions
<1>3. \A i \in T : Nth(S, Rank(T, i)) = Rank(B, i) + 1
  BY <1>0, <1>1, RankOfPosition
<1>4. SlotsOf(n, T)
  BY <1>0, SomeSlots
<1> DEFINE s == [r \in 1 .. Cardinality(T) |-> Pairs(B, K, P)[Nth(S, r - 1)]]
<1>5. ASSUME NEW i \in T PROVE s[Rank(T, i) + 1] = <<K2[i], P2[i]>>
  <2>1. Rank(T, i) + 1 \in 1 .. Cardinality(T) /\ (Rank(T, i) + 1) - 1 = Rank(T, i)
    BY <1>4, PositionFacts
  <2>2. s[Rank(T, i) + 1] = Pairs(B, K, P)[Nth(S, (Rank(T, i) + 1) - 1)]
    BY <2>1, Zenon
  <2>3. Pairs(B, K, P)[Rank(B, i) + 1] = <<K[i], P[i]>>
    BY <1>0, PairsAt
  <2>4. s[Rank(T, i) + 1] = <<K[i], P[i]>>
    BY <1>3, <2>1, <2>2, <2>3, Zenon
  <2> QED
    BY <2>4, Zenon
<1>6. s = [r \in 1 .. Cardinality(T) |-> s[r]]
  BY Zenon
<1> HIDE DEF s
<1>7. HasPairs(s, T, K2, P2)
  BY <1>5, <1>6, Zenon DEF HasPairs
<1>8. s = Pairs(T, K2, P2)
  BY <1>4, <1>7, PairsByPosition
<1> QED
  BY <1>2, <1>8, Zenon DEF s, KeptOf

\* A slot more, when the other slots and their contents are those of B, moved
\* but in the same order.
SameBut(at, C, B, F) ==
    /\ F \in [C \ {at} -> B]
    /\ \A b \in B : \E i \in C \ {at} : F[i] = b
    /\ \A i, j \in C \ {at} : i < j <=> F[i] < F[j]

OneMore(at, C, K2, P2, B, K, P) ==
    \E F : /\ SameBut(at, C, B, F)
           /\ \A i \in C \ {at} : K2[i] = K[F[i]] /\ P2[i] = P[F[i]]

\* The function s over 1..n with x between the first r values and the others.
WithItem(s, n, r, x) ==
    [q \in 1 .. (n + 1) |->
        IF q < r + 1 THEN s[q] ELSE IF q = r + 1 THEN x ELSE s[q - 1]]

\* The pairs after one more slot: one more pair, at the slot's rank.
LEMMA PairsWithSlot ==
    ASSUME NEW n, NEW B, SlotsOf(n, B), NEW K, NEW P,
           NEW C, SlotsOf(n, C), NEW K2, NEW P2,
           NEW at \in C, OneMore(at, C, K2, P2, B, K, P)
    PROVE  /\ Cardinality(C) = Cardinality(B) + 1
           /\ WithItem(Pairs(B, K, P), Cardinality(B), Rank(C, at), <<K2[at], P2[at]>>)
                  = Pairs(C, K2, P2)
<1> DEFINE A == C \ {at}
           r == Rank(C, at)
           s == [q \in 1 .. (Cardinality(B) + 1) |->
                   IF q < r + 1 THEN Pairs(B, K, P)[q]
                   ELSE IF q = r + 1 THEN <<K2[at], P2[at]>>
                   ELSE Pairs(B, K, P)[q - 1]]
<1>0. PICK F : /\ F \in [A -> B]
               /\ \A b \in B : \E i \in A : F[i] = b
               /\ \A i, j \in A : i < j <=> F[i] < F[j]
               /\ \A i \in A : K2[i] = K[F[i]] /\ P2[i] = P[F[i]]
  BY DEF OneMore, SameBut
<1>1. SlotsOf(n, A)
  BY SomeSlots
<1>2. /\ \A i \in A : i \in Nat /\ F[i] \in Nat
      /\ Cardinality(B) \in Nat
      /\ \A i \in B : Rank(B, i) \in 0 .. (Cardinality(B) - 1)
      /\ at \in Nat
  BY <1>0, Ranking
<1>3. \A i, j \in A : F[i] = F[j] => i = j
  <2> SUFFICES ASSUME NEW i \in A, NEW j \in A, F[i] = F[j] PROVE i = j
    OBVIOUS
  <2>1. ~(F[i] < F[j]) /\ ~(F[j] < F[i])
    BY <1>2
  <2>2. ~(i < j) /\ ~(j < i)
    BY <1>0, <2>1
  <2>3. i \in Nat /\ j \in Nat
    BY <1>2
  <2> QED
    BY <2>2, <2>3
<1> HIDE DEF A
<1>4. F \in [A -> B] /\ \A b \in B : \E i \in A : F[i] = b
  BY <1>0
<1>5. \A i \in A : Rank(A, i) = Rank(B, F[i])
  <2> SUFFICES ASSUME NEW i \in A PROVE Rank(A, i) = Rank(B, F[i])
    OBVIOUS
  <2>1. \A j \in A : j < i <=> F[j] < F[i]
    BY <1>0
  <2> QED
    BY <1>1, <1>3, <1>4, <2>1, RankOfImage
<1>6. Cardinality(C) = Cardinality(B) + 1
  <2>1. Cardinality(C) = Cardinality(A) + 1
    BY RankWithSlot DEF A
  <2>2. F \in Bijection(A, B)
    BY <1>3, <1>4, Zenon DEF Bijection, Injection, Surjection, IsInjective
  <2>3. Cardinality(A) = Cardinality(B)
    <3>1. IsFiniteSet(A)
      BY <1>1, Ranking
    <3>2. ExistsBijection(A, B)
      BY <2>2, Zenon DEF ExistsBijection
    <3> QED
      BY <3>1, <3>2, FS_Bijection
  <2> QED
    BY <2>1, <2>3
<1>7. /\ r \in Nat /\ r + 1 \in 1 .. Cardinality(C)
      /\ \A i \in C : /\ Rank(C, i) \in Nat
                      /\ Rank(C, i) + 1 \in 1 .. (Cardinality(B) + 1)
                      /\ Rank(C, i) < r <=> i < at
  <2>1. /\ \A i \in C : Rank(C, i) \in Nat /\ Rank(C, i) + 1 \in 1 .. Cardinality(C)
    BY PositionFacts
  <2>2. \A i \in C : Rank(C, i) < r <=> i < at
    BY Ranking
  <2> QED
    BY <1>6, <2>1, <2>2
<1>8. \A i \in A : Rank(C, i) = IF i < at THEN Rank(B, F[i]) ELSE Rank(B, F[i]) + 1
  <2>1. \A i \in A : Rank(C, i) = IF i < at THEN Rank(A, i) ELSE Rank(A, i) + 1
    <3>1. \A i \in A : /\ i < at => Rank(C, i) = Rank(A, i)
                       /\ ~(i < at) => Rank(C, i) = Rank(A, i) + 1
      BY RankWithSlot DEF A
    <3> QED
      BY <3>1, Zenon
  <2> QED
    BY <1>5, <2>1
<1>9. ASSUME NEW i \in C PROVE s[Rank(C, i) + 1] = <<K2[i], P2[i]>>
  <2> DEFINE q == Rank(C, i) + 1
  <2>1. s[q] = IF q < r + 1 THEN Pairs(B, K, P)[q]
               ELSE IF q = r + 1 THEN <<K2[at], P2[at]>>
               ELSE Pairs(B, K, P)[q - 1]
    BY <1>7, Zenon
  <2>2. CASE i = at
    <3>1. q = r + 1 /\ ~(q < r + 1)
      BY <1>7, <2>2
    <3> QED
      BY <2>1, <2>2, <3>1, Zenon
  <2>3. CASE i # at
    <3>1. i \in A /\ F[i] \in B
      BY <1>4, <2>3 DEF A
    <3>2. Pairs(B, K, P)[Rank(B, F[i]) + 1] = <<K2[i], P2[i]>>
      <4>1. Pairs(B, K, P)[Rank(B, F[i]) + 1] = <<K[F[i]], P[F[i]]>>
        BY <3>1, PairsAt
      <4>2. K2[i] = K[F[i]] /\ P2[i] = P[F[i]]
        BY <1>0, <3>1 DEF A
      <4> QED
        BY <4>1, <4>2, Zenon
    <3>3. CASE i < at
      <4>1. q < r + 1 /\ q = Rank(B, F[i]) + 1
        BY <1>7, <1>8, <3>1, <3>3
      <4> QED
        BY <2>1, <3>2, <4>1, Zenon
    <3>4. CASE ~(i < at)
      <4>1. Rank(B, F[i]) \in Nat
        BY <1>2, <3>1
      <4>2. Rank(C, i) = Rank(B, F[i]) + 1
        BY <1>8, <3>1, <3>4
      <4>3. ~(q < r + 1) /\ q - 1 = Rank(B, F[i]) + 1
        BY <1>7, <3>4, <4>1, <4>2
      <4>4. q # r + 1
        <5>1. at < i
          BY <1>2, <2>3, <3>1, <3>4
        <5>2. Rank(C, at) < Rank(C, i)
          BY <5>1, Ranking
        <5> QED
          BY <1>7, <5>2
      <4> QED
        BY <2>1, <3>2, <4>3, <4>4, Zenon
    <3> QED
      BY <3>3, <3>4
  <2> QED
    BY <2>2, <2>3
<1>10. s = [q \in 1 .. Cardinality(C) |-> s[q]]
  <2>1. DOMAIN s = 1 .. Cardinality(C)
    BY <1>6
  <2>2. s = [q \in DOMAIN s |-> s[q]]
    OBVIOUS
  <2> QED
    BY <2>1, <2>2, Zenon
<1>11. HasPairs(s, C, K2, P2)
  BY <1>9, <1>10, Zenon DEF HasPairs
<1>12. s = Pairs(C, K2, P2)
  BY <1>11, PairsByPosition
<1> QED
  BY <1>6, <1>12, Zenon DEF WithItem

-----------------------------------------------------------------------------
(* The pairs of a node.                                                    *)

\* What the lemmas below need of a well-formed node.
LEMMA NodeFacts ==
    ASSUME NEW d, WellFormed(d)
    PROVE  /\ d.data_capacity_ \in Nat /\ SlotsOf(d.data_capacity_, d.bitmap_)
           /\ Cardinality(d.bitmap_) = d.num_keys_ /\ d.num_keys_ \in Nat
           /\ \A i \in d.bitmap_ : /\ d.key_slots_[i] \in Key
                                   /\ d.key_slots_[i] \in Int
                                   /\ d.payload_slots_[i] \in Payload
                                   /\ i \in Slots(d) /\ i \in Int
<1>1. /\ d.data_capacity_ \in Nat
      /\ d.bitmap_ \subseteq 0 .. (d.data_capacity_ - 1)
      /\ \A i \in d.bitmap_ : i \in 0 .. (d.data_capacity_ - 1)
      /\ d.num_keys_ = Cardinality(d.bitmap_) /\ d.num_keys_ \in Nat
  BY WellFormedIsProper
<1>2. \A i \in d.bitmap_ : d.key_slots_[i] \in Key /\ d.payload_slots_[i] \in Payload
  <2>1. d.payload_slots_ \in [d.bitmap_ -> Payload]
    BY Zenon DEF WellFormed, NodeTypeOK
  <2> QED
    BY <2>1 DEF WellFormed, FilledWithKeys
<1> QED
  BY <1>1, <1>2, KeysAreIntegers DEF SlotsOf, Slots

\* The numbers of pairs of a sequence up to a key and below it.
UpTo(s, key) == Cardinality({i \in DOMAIN s : s[i][1] <= key})
Under(s, key) == Cardinality({i \in DOMAIN s : s[i][1] < key})

\* A well-formed node has num_keys_ pairs, sorted by key.
LEMMA ItemsAreSorted ==
    ASSUME NEW d, WellFormed(d)
    PROVE  /\ ItemsOf(d) \in Seq(Key \X Payload)
           /\ Len(ItemsOf(d)) = d.num_keys_
           /\ DOMAIN ItemsOf(d) = 1 .. d.num_keys_
           /\ \A i \in 1 .. (Len(ItemsOf(d)) - 1) :
                  ItemsOf(d)[i][1] <= ItemsOf(d)[i + 1][1]
<1> DEFINE B == d.bitmap_
           s == ItemsOf(d)
<1>1. /\ SlotsOf(d.data_capacity_, B) /\ Cardinality(B) = d.num_keys_
      /\ d.num_keys_ \in Nat
      /\ \A i \in B : /\ d.key_slots_[i] \in Key /\ d.payload_slots_[i] \in Payload
                      /\ i \in Slots(d) /\ d.key_slots_[i] \in Int
  BY NodeFacts
<1>2. /\ s = [r \in 1 .. d.num_keys_ |->
                 <<d.key_slots_[Nth(B, r - 1)], d.payload_slots_[Nth(B, r - 1)]>>]
      /\ \A r \in 1 .. d.num_keys_ : /\ Nth(B, r - 1) \in B
                                     /\ Rank(B, Nth(B, r - 1)) + 1 = r
  <2>1. \A r \in 1 .. Cardinality(B) :
            Nth(B, r - 1) \in B /\ Rank(B, Nth(B, r - 1)) + 1 = r
    BY <1>1, PositionFacts
  <2> QED
    BY <1>1, <2>1, ItemsArePairs, Zenon DEF Pairs
<1> HIDE DEF s, B
<1>3. s \in [1 .. d.num_keys_ -> Key \X Payload]
  BY <1>1, <1>2
<1>4. s \in Seq(Key \X Payload) /\ Len(s) = d.num_keys_
  BY <1>1, <1>3
<1>5. ASSUME NEW i \in 1 .. (d.num_keys_ - 1) PROVE s[i][1] <= s[i + 1][1]
  <2> DEFINE a == Nth(B, i - 1)
             b == Nth(B, (i + 1) - 1)
  <2>1. i \in 1 .. d.num_keys_ /\ i + 1 \in 1 .. d.num_keys_
    BY <1>1
  <2>2. /\ a \in B /\ Rank(B, a) + 1 = i
        /\ b \in B /\ Rank(B, b) + 1 = i + 1
        /\ s[i] = <<d.key_slots_[a], d.payload_slots_[a]>>
        /\ s[i + 1] = <<d.key_slots_[b], d.payload_slots_[b]>>
    BY <1>2, <2>1, Zenon
  <2> HIDE DEF a, b
  <2>3. a < b
    <3>1. Rank(B, a) \in Nat /\ Rank(B, b) \in Nat
      BY <1>1, <2>2, PositionFacts
    <3>2. Rank(B, a) < Rank(B, b)
      BY <2>2, <3>1
    <3> QED
      BY <1>1, <2>2, <3>2, Ranking
  <2>4. d.key_slots_[a] <= d.key_slots_[b]
    BY <1>1, <2>2, <2>3 DEF WellFormed, Ascending
  <2> QED
    BY <2>2, <2>4
<1> QED
  BY <1>1, <1>3, <1>4, <1>5 DEF s

\* The abstract counts are the ranks of the searches' results.
LEMMA CountsAreRanks ==
    ASSUME NEW d, WellFormed(d), NEW key \in Key
    PROVE  /\ UpTo(ItemsOf(d), key) = Rank(d.bitmap_, upper_bound(d, key))
           /\ Under(ItemsOf(d), key) = Rank(d.bitmap_, lower_bound(d, key))
<1> DEFINE B == d.bitmap_
           K == d.key_slots_
           P == d.payload_slots_
           s == ItemsOf(d)
           S1 == {i \in DOMAIN s : s[i][1] <= key}
           S2 == {i \in DOMAIN s : s[i][1] < key}
           T1 == {i \in B : i < upper_bound(d, key)}
           T2 == {i \in B : i < lower_bound(d, key)}
<1>1. /\ SlotsOf(d.data_capacity_, B)
      /\ \A i \in B : i \in Slots(d) /\ d.key_slots_[i] \in Int
  BY NodeFacts
<1>2. /\ DOMAIN s = 1 .. Cardinality(B)
      /\ \A i \in B : s[Rank(B, i) + 1] = <<K[i], P[i]>>
      /\ \A i \in B : Rank(B, i) + 1 \in 1 .. Cardinality(B)
  <2>1. s = Pairs(B, K, P)
    BY ItemsArePairs
  <2> HIDE DEF s, B, K, P
  <2> QED
    BY <1>1, <2>1, PairsAt, PositionFacts
<1>3. /\ \A i \in Slots(d) : d.key_slots_[i] <= key <=> i < upper_bound(d, key)
      /\ \A i \in Slots(d) : d.key_slots_[i] < key <=> i < lower_bound(d, key)
  BY UpperBoundSplits, LowerBoundSplits DEF WellFormed
<1> HIDE DEF s, B
<1>4. /\ S1 \subseteq 1 .. Cardinality(B) /\ T1 \subseteq B
      /\ S2 \subseteq 1 .. Cardinality(B) /\ T2 \subseteq B
      /\ \A i \in B : Rank(B, i) + 1 \in S1 <=> i \in T1
      /\ \A i \in B : Rank(B, i) + 1 \in S2 <=> i \in T2
  BY <1>1, <1>2, <1>3
<1> HIDE DEF S1, S2, T1, T2, K, P
<1>7. Chosen(S1, B, T1) /\ Chosen(S2, B, T2)
  BY <1>4, Zenon DEF Chosen
<1>5. Cardinality(S1) = Cardinality(T1)
  BY <1>1, <1>7, ChosenPositions
<1>6. Cardinality(S2) = Cardinality(T2)
  BY <1>1, <1>7, ChosenPositions
<1> QED
  BY <1>5, <1>6, Zenon DEF UpTo, Under, Rank, S1, S2, T1, T2, B, s

\* A resize lays out the same pairs.
LEMMA ResizeKeepsItems ==
    ASSUME NEW d, WellFormed(d), NEW density \in {6, 7, 8}, NEW e \in resize(d, density)
    PROVE  ItemsOf(e) = ItemsOf(d)
<1>1. CASE d.num_keys_ = 0
  BY <1>1 DEF resize
<1>2. CASE d.num_keys_ # 0
  <2> DEFINE cap == CapacityFor(d.num_keys_, density)
             B == d.bitmap_
             K == d.key_slots_
             P == d.payload_slots_
  <2>1. PICK dst \in Layouts(K, B, cap) :
            /\ e.key_slots_ = LaidOutKeys(K, B, dst, cap)
            /\ e.payload_slots_ = LaidOutPayloads(P, B, dst)
            /\ e.bitmap_ = dst
    BY <1>2, ResizedFields DEF WellFormed
  <2>2. SlotsOf(d.data_capacity_, B) /\ d.num_keys_ \in Nat
    BY NodeFacts
  <2>3. cap \in Nat
    BY <2>2, NewCapacity
  <2> HIDE DEF cap
  <2>4. SlotsOf(cap, dst) /\ Cardinality(dst) = Cardinality(B)
    BY <2>3, LayoutFacts DEF SlotsOf
  <2> HIDE DEF B, K, P
  <2>5. /\ Cardinality(B) \in Nat
        /\ \A j \in dst : /\ Rank(dst, j) \in Nat
                          /\ Rank(dst, j) + 1 \in 1 .. Cardinality(B)
                          /\ (Rank(dst, j) + 1) - 1 = Rank(dst, j)
                          /\ j \in 0 .. (cap - 1)
    BY <2>4, PositionFacts DEF SlotsOf
  <2>6. \A j \in dst : e.key_slots_[j] = K[Nth(B, Rank(dst, j))]
    <3>1. \A j \in dst : Rank(dst, j) < Cardinality(B)
      BY <2>5
    <3> QED
      BY <2>1, <2>5, <3>1, Zenon DEF LaidOutKeys
  <2>7. \A j \in dst : e.payload_slots_[j] = P[Nth(B, Rank(dst, j))]
    BY <2>1, Zenon DEF LaidOutPayloads
  <2> DEFINE s == Pairs(B, K, P)
  <2>8. \A j \in dst : s[Rank(dst, j) + 1] = <<e.key_slots_[j], e.payload_slots_[j]>>
    <3> SUFFICES ASSUME NEW j \in dst
                 PROVE  s[Rank(dst, j) + 1] = <<e.key_slots_[j], e.payload_slots_[j]>>
      OBVIOUS
    <3>1. s[Rank(dst, j) + 1] = <<K[Nth(B, (Rank(dst, j) + 1) - 1)],
                                  P[Nth(B, (Rank(dst, j) + 1) - 1)]>>
      BY <2>5, Zenon DEF Pairs
    <3> QED
      BY <2>5, <2>6, <2>7, <3>1, Zenon
  <2>9. s = [r \in 1 .. Cardinality(dst) |-> s[r]]
    BY <2>4, Zenon DEF Pairs
  <2> HIDE DEF s
  <2>10. HasPairs(s, dst, e.key_slots_, e.payload_slots_)
    BY <2>8, <2>9, Zenon DEF HasPairs
  <2>11. s = Pairs(dst, e.key_slots_, e.payload_slots_)
    BY <2>4, <2>10, PairsByPosition
  <2> QED
    BY <2>1, <2>11, ItemsArePairs DEF s, B, K, P
<1> QED
  BY <1>1, <1>2

-----------------------------------------------------------------------------
(* Deletions.                                                              *)

\* Filled slots emptied, the contents of the others unchanged.
Emptied(d, e, T) ==
    /\ T \subseteq d.bitmap_ /\ e.bitmap_ = T
    /\ \A i \in T : /\ e.key_slots_[i] = d.key_slots_[i]
                    /\ e.payload_slots_[i] = d.payload_slots_[i]

\* Emptying slots keeps the pairs of the others.
LEMMA EmptiedKeeps ==
    ASSUME NEW d, WellFormed(d), NEW e, NEW T, Emptied(d, e, T),
           NEW S, Chosen(S, d.bitmap_, T)
    PROVE  ItemsOf(e) = KeptOf(ItemsOf(d), S)
<1> DEFINE B == d.bitmap_
           K == d.key_slots_
           P == d.payload_slots_
           K2 == e.key_slots_
           P2 == e.payload_slots_
<1>1. SlotsOf(d.data_capacity_, B)
  BY NodeFacts
<1>2. /\ \A i \in T : K2[i] = K[i] /\ P2[i] = P[i]
      /\ e.bitmap_ = T /\ Chosen(S, B, T)
  BY DEF Emptied
<1>3. ItemsOf(d) = Pairs(B, K, P) /\ ItemsOf(e) = Pairs(T, K2, P2)
  BY <1>2, ItemsArePairs
<1> HIDE DEF B, K, P, K2, P2
<1>4. KeptOf(Pairs(B, K, P), S) = Pairs(T, K2, P2)
  BY <1>1, <1>2, KeptPairs
<1> QED
  BY <1>3, <1>4, Zenon

\* erase_one_at takes out the pair with the slot's rank.
LEMMA WithoutSlotItems ==
    ASSUME NEW d, WellFormed(d), NEW pos \in d.bitmap_
    PROVE  /\ ItemsOf(WithoutSlot(d, pos)) =
                  KeptOf(ItemsOf(d), DOMAIN ItemsOf(d) \ {Rank(d.bitmap_, pos) + 1})
           /\ Rank(d.bitmap_, pos) + 1 \in 1 .. d.num_keys_
<1> DEFINE B == d.bitmap_
           T == B \ {pos}
           S == (1 .. d.num_keys_) \ {Rank(B, pos) + 1}
           e == WithoutSlot(d, pos)
<1>1. /\ SlotsOf(d.data_capacity_, B) /\ Cardinality(B) = d.num_keys_
      /\ d.num_keys_ \in Nat
  BY NodeFacts
<1>2. \A i \in B : /\ Rank(B, i) + 1 \in 1 .. d.num_keys_
                   /\ Nth(B, (Rank(B, i) + 1) - 1) = i
  BY <1>1, PositionFacts
<1>3. \A i \in B : Rank(B, i) + 1 = Rank(B, pos) + 1 => i = pos
  BY <1>2, Zenon
<1>4. Chosen(S, B, T)
  BY <1>1, <1>2, <1>3 DEF Chosen
<1>5. Emptied(d, e, T)
  <2> DEFINE W == KeysWritten(d.key_slots_, T, pos, KeyFrom(d, pos + 1))
  <2>1. /\ e.bitmap_ = T
        /\ e.payload_slots_ = [i \in T |-> d.payload_slots_[i]]
        /\ e.key_slots_ = W
    BY Zenon DEF WithoutSlot, WellFormed, NodeTypeOK
  <2>2. ASSUME NEW i \in T PROVE W[i] = d.key_slots_[i]
    <3>1. /\ i \in DOMAIN d.key_slots_ /\ i \in Int /\ pos \in Int
          /\ ~(i = pos)
      BY NodeFacts DEF WellFormed, NodeTypeOK
    <3>2. ~(i < pos /\ \A j \in i .. (pos - 1) : j \notin T)
      BY <3>1
    <3> HIDE DEF T
    <3> QED
      BY <3>1, <3>2, Zenon DEF KeysWritten
  <2> HIDE DEF W, e
  <2> QED
    BY <2>1, <2>2 DEF Emptied
<1>6. DOMAIN ItemsOf(d) = 1 .. d.num_keys_
  BY ItemsAreSorted
<1> HIDE DEF T, e
<1>7. ItemsOf(e) = KeptOf(ItemsOf(d), S)
  BY <1>4, <1>5, EmptiedKeeps
<1> QED
  BY <1>2, <1>6, <1>7 DEF e

\* The positions of the pairs whose key is not to go.
Spared(s, doomed) == {i \in DOMAIN s : s[i][1] \notin doomed}

\* The positions of the keys that stay are those of their slots.
LEMMA SparedAreChosen ==
    ASSUME NEW d, WellFormed(d), NEW doomed,
           NEW T, T = {i \in d.bitmap_ : d.key_slots_[i] \notin doomed}
    PROVE  Chosen(Spared(ItemsOf(d), doomed), d.bitmap_, T)
<1> DEFINE B == d.bitmap_
           K == d.key_slots_
           P == d.payload_slots_
           s == ItemsOf(d)
<1>1. SlotsOf(d.data_capacity_, B)
  BY NodeFacts
<1>2. /\ DOMAIN s = 1 .. Cardinality(B)
      /\ \A i \in B : s[Rank(B, i) + 1] = <<K[i], P[i]>>
      /\ \A i \in B : Rank(B, i) + 1 \in 1 .. Cardinality(B)
  <2>1. s = Pairs(B, K, P)
    BY ItemsArePairs
  <2> HIDE DEF s, B, K, P
  <2> QED
    BY <1>1, <2>1, PairsAt, PositionFacts
<1>3. \A i \in B : i \in T <=> K[i] \notin doomed
  OBVIOUS
<1>4. T \subseteq B
  OBVIOUS
<1> HIDE DEF s, B, K, P
<1>5. \A i \in B : Rank(B, i) + 1 \in Spared(s, doomed) <=> i \in T
  BY <1>2, <1>3 DEF Spared
<1>6. Spared(s, doomed) \subseteq 1 .. Cardinality(B)
  BY <1>2 DEF Spared
<1> QED
  BY <1>4, <1>5, <1>6, Zenon DEF Chosen, s, B

\* Nothing to erase: the pairs stay.
LEMMA NothingErased ==
    ASSUME NEW d, WellFormed(d), NEW doomed,
           \A i \in d.bitmap_ : d.key_slots_[i] \notin doomed
    PROVE  KeptOf(ItemsOf(d), Spared(ItemsOf(d), doomed)) = ItemsOf(d)
<1>1. Chosen(Spared(ItemsOf(d), doomed), d.bitmap_, d.bitmap_)
  <2>1. d.bitmap_ = {i \in d.bitmap_ : d.key_slots_[i] \notin doomed}
    OBVIOUS
  <2> QED
    BY <2>1, SparedAreChosen
<1>2. Emptied(d, d, d.bitmap_)
  BY DEF Emptied
<1> QED
  BY <1>1, <1>2, EmptiedKeeps, Zenon

\* erase and erase_range take out the pairs whose keys are to go, when those are
\* the keys of the slots.
LEMMA WithoutSlotsItems ==
    ASSUME NEW d, WellFormed(d), NEW first \in Nat, NEW pos \in Nat, NEW doomed,
           \A i \in d.bitmap_ : d.key_slots_[i] \in doomed <=> first <= i /\ i < pos
    PROVE  ItemsOf(WithoutSlots(d, first, pos)) =
               KeptOf(ItemsOf(d), Spared(ItemsOf(d), doomed))
<1> DEFINE B == d.bitmap_
           T == {i \in B : d.key_slots_[i] \notin doomed}
           e == WithoutSlots(d, first, pos)
           bits == B \ (first .. (pos - 1))
           E == [i \in Slots(d) |-> IF i \in first .. (pos - 1)
                                    THEN KeyFrom(d, pos) ELSE d.key_slots_[i]]
<1>1. /\ e.bitmap_ = bits
      /\ e.payload_slots_ = [i \in bits |-> d.payload_slots_[i]]
      /\ e.key_slots_ = E
  BY Zenon DEF WithoutSlots, WellFormed, NodeTypeOK
<1>2. \A i \in B : i \in Slots(d) /\ i \in Int
  BY NodeFacts
<1>3. \A i \in B : i \in first .. (pos - 1) <=> first <= i /\ i < pos
  BY <1>2
<1>4. bits = T
  BY <1>3
<1>5. \A i \in bits : E[i] = d.key_slots_[i]
  BY <1>2
<1> HIDE DEF bits, E, T, e
<1>6. Emptied(d, e, T)
  <2>1. T \subseteq d.bitmap_
    BY DEF T
  <2> QED
    BY <1>1, <1>4, <1>5, <2>1 DEF Emptied
<1>7. Chosen(Spared(ItemsOf(d), doomed), d.bitmap_, T)
  BY SparedAreChosen DEF T
<1> QED
  BY <1>6, <1>7, EmptiedKeeps DEF e

-----------------------------------------------------------------------------
(* Inserts.                                                                *)

\* Where the slots of the new array take their contents from: the old ones,
\* in order, the new slot lying where the upper bound was.
Moves(d, gap, pos) ==
    [i \in (d.bitmap_ \cup {gap}) \ {SlotAfterShift(gap, pos)} |->
        ShiftedFrom(gap, pos, i)]

\* The shift makes room for the new key where its upper bound was, and leaves the
\* other keys in their order.
LEMMA ShiftKeepsOrder ==
    ASSUME NEW d, WellFormed(d), NEW key \in Key, NEW predicted \in Slots(d),
           NEW pos, pos = find_insert_position(d, key, predicted),
           NEW gap, IsClosestGap(d, pos, gap)
    PROVE  /\ SlotAfterShift(gap, pos) \in Nat
           /\ SlotAfterShift(gap, pos) \in d.bitmap_ \cup {gap}
           /\ gap \in 0 .. (d.data_capacity_ - 1)
           /\ SameBut(SlotAfterShift(gap, pos), d.bitmap_ \cup {gap}, d.bitmap_,
                      Moves(d, gap, pos))
           /\ \A i \in (d.bitmap_ \cup {gap}) \ {SlotAfterShift(gap, pos)} :
                  i < SlotAfterShift(gap, pos)
                      <=> Moves(d, gap, pos)[i] < upper_bound(d, key)
<1> DEFINE at == SlotAfterShift(gap, pos)
           F == Moves(d, gap, pos)
<1>0. F = [i \in (d.bitmap_ \cup {gap}) \ {at} |-> ShiftedFrom(gap, pos, i)]
  BY DEF Moves
<1> DEFINE cap == d.data_capacity_
           B == d.bitmap_
           A == (B \cup {gap}) \ {at}
           ub == upper_bound(d, key)
<1>1. /\ pos \in ub .. cap
      /\ \A i \in ub .. (pos - 1) : i \notin B
      /\ pos = ub \/ pos \in Gaps(d)
      /\ ub \in 0 .. cap
  BY InsertPositionFacts, UpperBoundSplits DEF WellFormed
<1>2. cap \in Nat /\ \A i \in B : i \in 0 .. (cap - 1)
  BY NodeFacts DEF SlotsOf
<1>3. pos \in 0 .. cap
  BY <1>1, <1>2
<1>4. /\ gap \in 0 .. (cap - 1)
      /\ gap \notin B
      /\ pos \in Gaps(d) => gap = pos
      /\ \A i \in (gap + 1) .. pos : i < cap => i \in B
      /\ \A i \in pos .. (gap - 1) : i \in B
  BY <1>3, ClosestGapFacts DEF WellFormed
<1> HIDE DEF cap, B, ub, F, at
<1>5. /\ pos \in Int /\ ub \in Int /\ cap \in Int /\ gap \in Int
      /\ 0 <= pos /\ pos <= cap /\ 0 <= ub /\ ub <= pos /\ 0 <= gap /\ gap < cap
      /\ pos = ub \/ gap = pos
      /\ \A i \in B : i \in Int /\ 0 <= i /\ i < cap /\ i # gap
                     /\ (i < ub \/ pos <= i)
  BY <1>1, <1>2, <1>3, <1>4
<1>6. \A i \in Int : /\ gap < i /\ i <= pos /\ i < cap => i \in B
                     /\ pos <= i /\ i < gap => i \in B
  BY <1>4, <1>5
<1>7. /\ at \in Nat /\ at \in B \cup {gap}
      /\ at = IF gap >= pos THEN pos ELSE pos - 1
  <2>1. at = IF gap >= pos THEN pos ELSE pos - 1
    BY DEF SlotAfterShift, at
  <2>2. at \in B \cup {gap}
    BY ShiftFacts DEF B, at
  <2>3. at \in Nat
    BY <1>5, <2>2
  <2> QED
    BY <2>1, <2>2, <2>3
<1>8. \A i \in A :
          /\ i \in Int /\ i # at
          /\ gap >= pos => F[i] = IF pos < i /\ i <= gap THEN i - 1 ELSE i
          /\ gap < pos => F[i] = IF gap <= i /\ i < pos - 1 THEN i + 1 ELSE i
  <2> SUFFICES ASSUME NEW i \in A
               PROVE  /\ i \in Int /\ i # at
                      /\ gap >= pos => F[i] = IF pos < i /\ i <= gap
                                              THEN i - 1 ELSE i
                      /\ gap < pos => F[i] = IF gap <= i /\ i < pos - 1
                                             THEN i + 1 ELSE i
    OBVIOUS
  <2>1. i \in Int /\ i # at
    BY <1>5
  <2>2. F[i] = ShiftedFrom(gap, pos, i)
    BY <1>0 DEF B
  <2>3. /\ i \in (pos + 1) .. gap <=> pos < i /\ i <= gap
        /\ i \in gap .. (pos - 2) <=> gap <= i /\ i < pos - 1
    BY <1>5, <2>1
  <2> HIDE DEF A
  <2>4. CASE gap >= pos
    <3>1. ~(gap < pos)
      BY <1>5, <2>4
    <3>2. ShiftedFrom(gap, pos, i) = IF i \in (pos + 1) .. gap THEN i - 1 ELSE i
      BY <2>4, <3>1 DEF ShiftedFrom
    <3> QED
      BY <2>1, <2>2, <2>3, <3>1, <3>2
  <2>5. CASE gap < pos
    <3>1. ~(gap >= pos)
      BY <1>5, <2>5
    <3>2. ShiftedFrom(gap, pos, i) = IF i \in gap .. (pos - 2) THEN i + 1 ELSE i
      BY <2>5, <3>1 DEF ShiftedFrom
    <3> QED
      BY <2>1, <2>2, <2>3, <3>1, <3>2
  <2> QED
    BY <1>5, <2>4, <2>5
<1>9. \A i \in A : F[i] \in B
  <2>1. \A i \in A : ShiftedFrom(gap, pos, i) \in B
    BY ShiftFacts DEF B, at
  <2>2. \A i \in A : F[i] = ShiftedFrom(gap, pos, i)
    BY <1>0 DEF B
  <2> QED
    BY <2>1, <2>2, Zenon
<1> HIDE DEF A
<1>10. ASSUME NEW i \in A, NEW j \in A PROVE i < j <=> F[i] < F[j]
  <2>1. CASE gap >= pos
    <3>1. /\ F[i] = IF pos < i /\ i <= gap THEN i - 1 ELSE i
          /\ F[j] = IF pos < j /\ j <= gap THEN j - 1 ELSE j
          /\ i \in Int /\ j \in Int /\ i # pos /\ j # pos
      BY <1>7, <1>8, <2>1
    <3> QED
      BY <1>5, <2>1, <3>1
  <2>2. CASE gap < pos
    <3>1. /\ F[i] = IF gap <= i /\ i < pos - 1 THEN i + 1 ELSE i
          /\ F[j] = IF gap <= j /\ j < pos - 1 THEN j + 1 ELSE j
          /\ i \in Int /\ j \in Int /\ i # pos - 1 /\ j # pos - 1
      <4>1. ~(gap >= pos)
        BY <1>5, <2>2
      <4> QED
        BY <1>7, <1>8, <2>2, <4>1
    <3> QED
      BY <1>5, <2>2, <3>1
  <2> QED
    BY <1>5, <2>1, <2>2
<1>11. ASSUME NEW b \in B PROVE \E i \in A : F[i] = b
  <2>1. b \in Int /\ b # gap /\ 0 <= b /\ b < cap
    BY <1>5
  <2>2. CASE gap >= pos /\ pos <= b /\ b < gap
    <3>1. b + 1 \in B \cup {gap} /\ b + 1 # at
      BY <1>5, <1>6, <1>7, <2>1, <2>2
    <3>2. b + 1 \in A
      BY <3>1 DEF A
    <3>3. F[b + 1] = b
      <4>1. F[b + 1] = IF pos < b + 1 /\ b + 1 <= gap THEN (b + 1) - 1 ELSE b + 1
        BY <1>8, <2>2, <3>2
      <4>2. pos < b + 1 /\ b + 1 <= gap /\ (b + 1) - 1 = b
        BY <1>5, <2>1, <2>2
      <4> QED
        BY <4>1, <4>2
    <3> QED
      BY <3>2, <3>3
  <2>3. CASE gap < pos /\ gap < b /\ b <= pos - 1
    <3>1. b - 1 \in B \cup {gap} /\ b - 1 # at
      <4>1. b - 1 \in Int /\ b - 1 < cap /\ b - 1 <= pos /\ b - 1 # pos - 1
            /\ (b - 1 = gap \/ gap < b - 1)
        BY <1>5, <2>1, <2>3, <1>9
      <4>2. at = pos - 1
        BY <1>5, <1>7, <2>3
      <4>3. b - 1 = gap \/ b - 1 \in B
        BY <1>5, <1>6, <2>1, <4>1
      <4> QED
        BY <4>1, <4>2, <4>3
    <3>2. b - 1 \in A
      BY <3>1 DEF A
    <3>3. F[b - 1] = b
      <4>1. F[b - 1] = IF gap <= b - 1 /\ b - 1 < pos - 1 THEN (b - 1) + 1 ELSE b - 1
        BY <1>8, <2>3, <3>2
      <4>2. gap <= b - 1 /\ b - 1 < pos - 1 /\ (b - 1) + 1 = b
        BY <1>5, <2>1, <2>3
      <4> QED
        BY <4>1, <4>2
    <3> QED
      BY <3>2, <3>3
  <2>4. CASE ~(gap >= pos /\ pos <= b /\ b < gap) /\ ~(gap < pos /\ gap < b /\ b <= pos - 1)
    <3>1. b # at
      BY <1>5, <1>7, <2>1, <2>4
    <3>2. b \in A
      BY <3>1 DEF A
    <3>3. /\ gap >= pos => F[b] = IF pos < b /\ b <= gap THEN b - 1 ELSE b
          /\ gap < pos => F[b] = IF gap <= b /\ b < pos - 1 THEN b + 1 ELSE b
      BY <1>8, <3>2
    <3>4. F[b] = b
      BY <1>5, <2>1, <2>4, <3>3
    <3> QED
      BY <3>2, <3>4
  <2> QED
    BY <2>2, <2>3, <2>4
<1>12. ASSUME NEW i \in A PROVE i < at <=> F[i] < ub
  <2>1. F[i] \in Int /\ (F[i] < ub \/ pos <= F[i]) /\ i \in Int /\ i # at
    BY <1>5, <1>8, <1>9
  <2>2. CASE gap >= pos
    <3>1. F[i] = IF pos < i /\ i <= gap THEN i - 1 ELSE i
      BY <1>8, <2>2
    <3>2. at = pos
      BY <1>7, <2>2
    <3> QED
      BY <1>5, <2>1, <2>2, <3>1, <3>2
  <2>3. CASE gap < pos
    <3>1. F[i] = IF gap <= i /\ i < pos - 1 THEN i + 1 ELSE i
      BY <1>8, <2>3
    <3>2. at = pos - 1 /\ pos = ub
      BY <1>5, <1>7, <2>3
    <3> QED
      BY <1>5, <2>1, <2>3, <3>1, <3>2
  <2> QED
    BY <1>5, <2>2, <2>3
<1>13. F \in [A -> B]
  <2>1. F = [i \in A |-> ShiftedFrom(gap, pos, i)]
    BY <1>0 DEF A, B
  <2>2. \A i \in A : ShiftedFrom(gap, pos, i) \in B
    BY <1>9, <2>1
  <2> QED
    BY <2>1, <2>2
<1> QED
  BY <1>4, <1>7, <1>10, <1>11, <1>12, <1>13, Zenon
  DEF SameBut, A, B, F, at, cap, ub

\* An insert adds its pair after those up to its key.
LEMMA WithElementItems ==
    ASSUME NEW d, WellFormed(d), NEW key \in Key, NEW payload \in Payload,
           NEW predicted \in Slots(d),
           NEW pos, pos = find_insert_position(d, key, predicted),
           NEW gap, IsClosestGap(d, pos, gap),
           NEW e, e = WithElement(d, key, payload, pos, gap)
    PROVE  /\ SlotAfterShift(gap, pos) \in Nat
           /\ Rank(e.bitmap_, SlotAfterShift(gap, pos)) = UpTo(ItemsOf(d), key)
           /\ ItemsOf(e) = WithItem(ItemsOf(d), d.num_keys_, UpTo(ItemsOf(d), key),
                                    <<key, payload>>)
<1> DEFINE B == d.bitmap_
           C == B \cup {gap}
           at == SlotAfterShift(gap, pos)
           F == Moves(d, gap, pos)
           K == d.key_slots_
           P == d.payload_slots_
           K2 == e.key_slots_
           P2 == e.payload_slots_
           cap == d.data_capacity_
<1>1. /\ SlotsOf(cap, B) /\ cap \in Nat /\ Cardinality(B) = d.num_keys_
      /\ \A i \in B : i \in Slots(d)
  BY NodeFacts
<1>2. /\ at \in Nat /\ at \in C /\ gap \in 0 .. (cap - 1)
      /\ SameBut(at, C, B, F)
      /\ \A i \in C \ {at} : i < at <=> F[i] < upper_bound(d, key)
  BY ShiftKeepsOrder
<1>3. SlotsOf(cap, C)
  BY <1>1, <1>2 DEF SlotsOf
<1>4. /\ e.bitmap_ = C
      /\ P2 = PayloadsShifted(d, payload, pos, gap)
      /\ K2 = KeysWritten(KeysShifted(d, pos, gap), C, at, key)
  BY Zenon DEF WithElement, WellFormed, NodeTypeOK
<1>5. K2[at] = key /\ \A i \in C \ {at} : K2[i] = K[F[i]]
  <2> DEFINE K1 == KeysShifted(d, pos, gap)
  <2>1. /\ KeysWritten(K1, C, at, key)[at] = key
        /\ \A i \in C : i = at \/ KeysWritten(K1, C, at, key)[i] = K1[i]
    <3>1. FitsAt(K1, C, at, key, cap)
      BY ShiftFacts
    <3> HIDE DEF K1, C, at, cap
    <3> QED
      BY <1>1, <3>1, KeysWrittenFacts
  <2>2. \A i \in C \ {at} : K1[i] = K[ShiftedFrom(gap, pos, i)]
    <3>1. \A i \in C : i \in Slots(d)
      BY <1>1, <1>2 DEF Slots
    <3> QED
      BY <3>1, Zenon DEF KeysShifted
  <2>3. \A i \in C \ {at} : F[i] = ShiftedFrom(gap, pos, i)
    BY DEF Moves
  <2>4. K2 = KeysWritten(K1, C, at, key)
    BY <1>4
  <2> HIDE DEF K1, F, C, at, K, K2
  <2>5. ASSUME NEW i \in C \ {at} PROVE K2[i] = K[F[i]]
    BY <2>1, <2>2, <2>3, <2>4, Zenon
  <2> QED
    BY <2>1, <2>4, <2>5, Zenon
<1>6. P2[at] = payload /\ \A i \in C \ {at} : P2[i] = P[F[i]]
  BY <1>2, <1>4 DEF PayloadsShifted, Moves
<1> HIDE DEF B, C, at, F, K, P, K2, P2
<1>7. Rank(C, at) = Rank(B, upper_bound(d, key))
  <2> DEFINE A == C \ {at}
  <2>1. SlotsOf(cap, A)
    BY <1>3, SomeSlots
  <2>2. /\ F \in [A -> B]
        /\ \A b \in B : \E i \in A : F[i] = b
        /\ \A i, j \in A : i < j <=> F[i] < F[j]
        /\ \A i \in A : i < at <=> F[i] < upper_bound(d, key)
    BY <1>2 DEF SameBut
  <2> HIDE DEF A
  <2>3. \A i, j \in A : F[i] = F[j] => i = j
    <3> SUFFICES ASSUME NEW i \in A, NEW j \in A, F[i] = F[j] PROVE i = j
      OBVIOUS
    <3>1. F[i] \in Nat /\ F[j] \in Nat
      BY <1>1, <2>2, Ranking
    <3>2. i \in Nat /\ j \in Nat
      BY <2>1, Ranking
    <3>3. ~(F[i] < F[j]) /\ ~(F[j] < F[i])
      BY <3>1
    <3>4. ~(i < j) /\ ~(j < i)
      BY <2>2, <3>3
    <3> QED
      BY <3>2, <3>4
  <2>4. Rank(A, at) = Rank(B, upper_bound(d, key))
    BY <2>1, <2>2, <2>3, RankOfImage
  <2>5. Rank(C, at) = Rank(A, at)
    BY <1>2, <1>3, RankWithSlot DEF A
  <2> QED
    BY <2>4, <2>5
<1>8. Rank(C, at) = UpTo(ItemsOf(d), key)
  BY <1>7, CountsAreRanks DEF B
<1>9. WithItem(Pairs(B, K, P), Cardinality(B), Rank(C, at), <<K2[at], P2[at]>>)
          = Pairs(C, K2, P2)
  <2>1. \A i \in C \ {at} : K2[i] = K[F[i]] /\ P2[i] = P[F[i]]
    BY <1>5, <1>6
  <2>2. OneMore(at, C, K2, P2, B, K, P)
    BY <1>2, <2>1, Zenon DEF OneMore
  <2> QED
    BY <1>1, <1>2, <1>3, <2>2, PairsWithSlot
<1>10. ItemsOf(d) = Pairs(B, K, P) /\ ItemsOf(e) = Pairs(C, K2, P2)
  BY <1>4, ItemsArePairs DEF B, K, P, K2, P2
<1>11. ItemsOf(e) = WithItem(ItemsOf(d), d.num_keys_, UpTo(ItemsOf(d), key),
                            <<key, payload>>)
  BY <1>1, <1>5, <1>6, <1>8, <1>9, <1>10, Zenon
<1> QED
  BY <1>2, <1>4, <1>8, <1>11 DEF at


-----------------------------------------------------------------------------
(* Counts of pairs and what the searches find.                             *)

\* What a search knows of a slot with the key.
LEMMA KeyInBounds ==
    ASSUME NEW d, WellFormed(d), NEW key \in Key
    PROVE  /\ upper_bound(d, key) \in 0 .. d.data_capacity_
           /\ lower_bound(d, key) \in 0 .. d.data_capacity_
           /\ key \in Int /\ d.data_capacity_ \in Nat
           /\ \A i \in d.bitmap_ :
                  /\ i \in 0 .. (d.data_capacity_ - 1)
                  /\ d.key_slots_[i] \in Int
                  /\ d.key_slots_[i] <= key <=> i < upper_bound(d, key)
                  /\ d.key_slots_[i] < key <=> i < lower_bound(d, key)
                  /\ d.key_slots_[i] = key
                         <=> lower_bound(d, key) <= i /\ i < upper_bound(d, key)
<1>1. /\ upper_bound(d, key) \in 0 .. d.data_capacity_
      /\ lower_bound(d, key) \in 0 .. d.data_capacity_
      /\ \A i \in Slots(d) : /\ d.key_slots_[i] <= key <=> i < upper_bound(d, key)
                             /\ d.key_slots_[i] < key <=> i < lower_bound(d, key)
  BY UpperBoundSplits, LowerBoundSplits DEF WellFormed
<1>2. /\ d.data_capacity_ \in Nat
      /\ \A i \in d.bitmap_ : /\ i \in Slots(d) /\ i \in 0 .. (d.data_capacity_ - 1)
                              /\ d.key_slots_[i] \in Int
  BY NodeFacts DEF Slots
<1>3. key \in Int
  BY KeysAreIntegers
<1>4. ASSUME NEW i \in d.bitmap_
      PROVE  d.key_slots_[i] = key
                 <=> lower_bound(d, key) <= i /\ i < upper_bound(d, key)
  <2>1. /\ d.key_slots_[i] <= key <=> i < upper_bound(d, key)
        /\ d.key_slots_[i] < key <=> i < lower_bound(d, key)
    BY <1>1, <1>2
  <2>2. /\ i \in Int /\ lower_bound(d, key) \in Int
        /\ d.key_slots_[i] \in Int
    BY <1>1, <1>2
  <2> QED
    BY <1>3, <2>1, <2>2
<1> QED
  BY <1>1, <1>2, <1>3, <1>4

\* A key that the node holds has its pairs counted, at the ranks from Under to
\* before UpTo; one that it does not hold has none.
LEMMA HeldKeysAreCounted ==
    ASSUME NEW d, WellFormed(d), NEW key \in Key
    PROVE  /\ UpTo(ItemsOf(d), key) \in 0 .. d.num_keys_
           /\ Under(ItemsOf(d), key) \in 0 .. d.num_keys_
           /\ \A i \in d.bitmap_ : d.key_slots_[i] = key =>
                  Under(ItemsOf(d), key) < UpTo(ItemsOf(d), key)
           /\ (\A i \in d.bitmap_ : d.key_slots_[i] # key) =>
                  Under(ItemsOf(d), key) = UpTo(ItemsOf(d), key)
<1> DEFINE B == d.bitmap_
           cap == d.data_capacity_
           ub == upper_bound(d, key)
           lb == lower_bound(d, key)
<1>1. /\ UpTo(ItemsOf(d), key) = Rank(B, ub)
      /\ Under(ItemsOf(d), key) = Rank(B, lb)
  BY CountsAreRanks
<1>2. /\ ub \in 0 .. cap /\ lb \in 0 .. cap /\ cap \in Nat
      /\ \A i \in B : /\ i \in 0 .. (cap - 1)
                      /\ d.key_slots_[i] \in Int
                      /\ d.key_slots_[i] <= key <=> i < ub
                      /\ d.key_slots_[i] < key <=> i < lb
                      /\ d.key_slots_[i] = key <=> lb <= i /\ i < ub
  BY KeyInBounds
<1>3. Cardinality(B) = d.num_keys_ /\ d.num_keys_ \in Nat /\ key \in Int
  BY NodeFacts, KeysAreIntegers
<1> HIDE DEF B, cap, ub, lb
<1>4. Rank(B, ub) \in 0 .. d.num_keys_ /\ Rank(B, lb) \in 0 .. d.num_keys_
  BY <1>2, <1>3, RankFacts
<1>5. ASSUME NEW i \in B, d.key_slots_[i] = key PROVE Rank(B, lb) < Rank(B, ub)
  <2>1. i \in 0 .. cap /\ lb <= i /\ i < ub
    BY <1>2, <1>5
  <2>2. Rank(B, lb) <= Rank(B, i)
    BY <1>2, <2>1, RankFacts
  <2>3. Rank(B, i) < Rank(B, ub)
    BY <1>2, <2>1, RankOfElement
  <2>4. Rank(B, i) \in Int
    <3>1. Rank(B, i) \in 0 .. Cardinality(B)
      BY <1>2, <2>1, RankFacts
    <3> QED
      BY <1>3, <3>1
  <2> QED
    BY <1>4, <2>2, <2>3, <2>4
<1>6. ASSUME \A i \in B : d.key_slots_[i] # key PROVE Rank(B, lb) = Rank(B, ub)
  <2>1. \A i \in B : i < lb <=> i < ub
    BY <1>2, <1>3, <1>6
  <2>2. {i \in B : i < lb} = {i \in B : i < ub}
    BY <2>1, Zenon
  <2> QED
    BY <2>2, Zenon DEF Rank
<1> QED
  BY <1>1, <1>4, <1>5, <1>6 DEF B

\* find_lower finds the first pair with the key.
LEMMA FindLowerFindsFirst ==
    ASSUME NEW d, WellFormed(d), NEW key \in Key,
           NEW pos, pos = find_lower(d, key)
    PROVE  IF pos = d.data_capacity_ \/ d.key_slots_[pos] # key
           THEN Under(ItemsOf(d), key) = UpTo(ItemsOf(d), key)
           ELSE /\ Under(ItemsOf(d), key) < UpTo(ItemsOf(d), key)
                /\ pos \in d.bitmap_
                /\ Rank(d.bitmap_, pos) = Under(ItemsOf(d), key)
<1> DEFINE B == d.bitmap_
           cap == d.data_capacity_
           lb == lower_bound(d, key)
<1>1. /\ lb \in 0 .. cap /\ cap \in Nat /\ key \in Int
      /\ \A i \in B : /\ i \in 0 .. (cap - 1)
                      /\ d.key_slots_[i] \in Int
                      /\ d.key_slots_[i] < key <=> i < lb
  BY KeyInBounds
<1>2. /\ pos \in lb .. cap
      /\ pos \in B \/ pos = cap
      /\ \A i \in B : i < lb \/ pos <= i
  <2>1. NodeTypeOK(d)
    BY DEF WellFormed
  <2>2. pos = get_next_filled_position(d, lb)
    BY DEF find_lower
  <2> HIDE DEF lb
  <2> QED
    BY <1>1, <2>1, <2>2, NextFilledFacts
<1>3. Rank(B, lb) = Under(ItemsOf(d), key)
  BY CountsAreRanks
<1> HIDE DEF B, cap, lb
<1>4. CASE pos = cap \/ d.key_slots_[pos] # key
  <2>1. ASSUME NEW i \in B, d.key_slots_[i] = key PROVE FALSE
    <3>1. pos <= i /\ i < cap /\ i \in Int /\ pos \in Int /\ cap \in Int
      BY <1>1, <1>2, <2>1
    <3>2. pos \in B /\ d.key_slots_[pos] # key
      BY <1>2, <1>4, <3>1
    <3>3. pos < i
      BY <2>1, <3>1, <3>2
    <3>4. d.key_slots_[pos] <= d.key_slots_[i]
      BY <2>1, <3>2, <3>3, NodeFacts DEF WellFormed, Ascending, B
    <3>5. d.key_slots_[pos] < key /\ pos < lb
      BY <1>1, <2>1, <3>2, <3>4
    <3> QED
      BY <1>1, <1>2, <3>5
  <2>2. \A i \in d.bitmap_ : d.key_slots_[i] # key
    BY <2>1 DEF B
  <2>3. Under(ItemsOf(d), key) = UpTo(ItemsOf(d), key)
    BY <2>2, HeldKeysAreCounted
  <2> QED
    BY <1>4, <2>3 DEF cap
<1>5. CASE ~(pos = cap \/ d.key_slots_[pos] # key)
  <2>1. pos \in d.bitmap_ /\ d.key_slots_[pos] = key
    BY <1>2, <1>5 DEF B
  <2>2. Under(ItemsOf(d), key) < UpTo(ItemsOf(d), key)
    BY <2>1, HeldKeysAreCounted
  <2>3. \A i \in B : i < pos <=> i < lb
    BY <1>1, <1>2
  <2>4. {i \in B : i < pos} = {i \in B : i < lb}
    BY <2>3, Zenon
  <2>5. Rank(B, pos) = Rank(B, lb)
    BY <2>4, Zenon DEF Rank
  <2> QED
    BY <1>3, <1>5, <2>1, <2>2, <2>5 DEF B, cap
<1> QED
  BY <1>4, <1>5

\* The slot before the upper bound has the last pair with the key, if the node
\* holds the key.
LEMMA LastOfKey ==
    ASSUME kEndSentinel_ \notin Key,
           NEW d, WellFormed(d), NEW key \in Key,
           NEW ub, ub = upper_bound(d, key)
    PROVE  /\ ub \in 0 .. d.data_capacity_
           /\ IF ub > 0 /\ d.key_slots_[ub - 1] = key
              THEN /\ Under(ItemsOf(d), key) < UpTo(ItemsOf(d), key)
                   /\ Rank(d.bitmap_, ub - 1) = UpTo(ItemsOf(d), key) - 1
              ELSE /\ Under(ItemsOf(d), key) = UpTo(ItemsOf(d), key)
                   /\ \A i \in d.bitmap_ : d.key_slots_[i] # key
<1> DEFINE B == d.bitmap_
           cap == d.data_capacity_
<1>1. /\ ub \in 0 .. cap /\ cap \in Nat /\ key \in Int
      /\ \A i \in B : /\ i \in 0 .. (cap - 1)
                      /\ d.key_slots_[i] \in Int
                      /\ d.key_slots_[i] <= key <=> i < ub
  BY KeyInBounds
<1>2. Rank(B, ub) = UpTo(ItemsOf(d), key)
  BY CountsAreRanks
<1>3. CASE ub > 0 /\ d.key_slots_[ub - 1] = key
  <2>1. ub - 1 \in B
    BY <1>3, SlotBeforeUpperBoundIsFilled
  <2>2. Under(ItemsOf(d), key) < UpTo(ItemsOf(d), key)
    BY <1>3, <2>1, HeldKeysAreCounted
  <2> HIDE DEF B, cap
  <2>3. ub - 1 \in 0 .. cap /\ (ub - 1) + 1 = ub
    BY <1>1, <1>3
  <2>4. Rank(B, (ub - 1) + 1) = Rank(B, ub - 1) + 1 /\ Rank(B, ub - 1) \in Int
    <3>1. Cardinality(B) \in Nat
      BY NodeFacts DEF B
    <3> QED
      BY <1>1, <2>1, <2>3, <3>1, RankFacts
  <2>5. Rank(B, ub - 1) = UpTo(ItemsOf(d), key) - 1
    BY <1>2, <2>3, <2>4
  <2> QED
    BY <1>1, <1>3, <2>2, <2>5 DEF B, cap
<1>4. CASE ~(ub > 0 /\ d.key_slots_[ub - 1] = key)
  <2>1. ASSUME NEW i \in B, d.key_slots_[i] = key PROVE FALSE
    <3>1. i < ub /\ i \in Int /\ 0 <= i /\ ub \in Int
      BY <1>1, <2>1
    <3>2. ub > 0 /\ ub - 1 \in B /\ d.key_slots_[ub - 1] # key
      BY <1>4, <3>1, SlotBeforeUpperBoundIsFilled
    <3>3. d.key_slots_[ub - 1] <= key /\ i < ub - 1
      BY <1>1, <2>1, <3>1, <3>2
    <3>4. d.key_slots_[i] <= d.key_slots_[ub - 1]
      BY <2>1, <3>2, <3>3, NodeFacts DEF WellFormed, Ascending
    <3> QED
      BY <1>1, <2>1, <3>2, <3>3, <3>4
  <2>2. \A i \in d.bitmap_ : d.key_slots_[i] # key
    BY <2>1
  <2>3. Under(ItemsOf(d), key) = UpTo(ItemsOf(d), key)
    BY <2>2, HeldKeysAreCounted
  <2> QED
    BY <1>1, <1>4, <2>2, <2>3
<1> QED
  BY <1>3, <1>4

\* Expansions and contractions do not touch the pairs.
LEMMA ExpandedKeepsItems ==
    ASSUME NEW d, WellFormed(d), NEW e \in Expanded(d)
    PROVE  ItemsOf(e) = ItemsOf(d)
<1>1. CASE IsFull(d)
  <2>1. e \in resize(d, 6)
    BY <1>1, Zenon DEF Expanded, kMinDensity_
  <2> QED
    BY <2>1, ResizeKeepsItems
<1>2. CASE ~IsFull(d)
  BY <1>2 DEF Expanded
<1> QED
  BY <1>1, <1>2

\* Nor do contractions.
LEMMA ContractedKeepsItems ==
    ASSUME NEW d, WellFormed(d), NEW e \in Contracted(d)
    PROVE  ItemsOf(e) = ItemsOf(d)
<1>1. CASE 10 * d.num_keys_ < d.contraction_threshold_
  <2>1. e \in resize(d, 8)
    BY <1>1, Zenon DEF Contracted, kMaxDensity_
  <2> QED
    BY <2>1, ResizeKeepsItems
<1>2. CASE ~(10 * d.num_keys_ < d.contraction_threshold_)
  BY <1>2 DEF Contracted
<1> QED
  BY <1>1, <1>2

-----------------------------------------------------------------------------
(* The operators of OrderedMultimap, read of the pairs of the node.        *)

\* Slots become ranks: what the abstract operation returns.
AbsRet(d, r) ==
    [r EXCEPT !.pos = IF @ = -1 THEN -1 ELSE Rank(d.bitmap_, @)]

\* What a call returns, in ranks.
LEMMA AbstractRet ==
    ASSUME NEW d, NEW op, NEW code, NEW pos
    PROVE  /\ pos = -1 => AbsRet(d, Returned(op, code, pos)) =
                              Returned(op, code, -1)
           /\ pos # -1 => AbsRet(d, Returned(op, code, pos)) =
                              Returned(op, code, Rank(d.bitmap_, pos))
BY DEF AbsRet, Returned

\* The instance has operators of its own for the sizes of sets, for ranks and for
\* the slots that have them: they are the same.
LEMMA AbstractCardinality == \A S : Abstract!Cardinality(S) = Cardinality(S)
BY Zenon DEF Abstract!Cardinality, Cardinality

\* The same of Nth.
LEMMA AbstractNth == \A S, r : Abstract!Nth(S, r) = Nth(S, r)
<1>1. \A S, i : Abstract!Rank(S, i) = Rank(S, i)
  BY AbstractCardinality, Zenon DEF Abstract!Rank, Rank
<1> QED
  BY <1>1 DEF Abstract!Nth, Nth

\* RankAfter and RankBefore count the pairs of the node.
LEMMA AbstractCounts ==
    ASSUME NEW key
    PROVE  /\ Abstract!RankAfter(key) = UpTo(ItemsOf(node), key)
           /\ Abstract!RankBefore(key) = Under(ItemsOf(node), key)
BY AbstractCardinality, Zenon
DEF Abstract!RankAfter, Abstract!RankBefore, Abstract!KeyOf, UpTo, Under

\* Kept keeps pairs of the node.
LEMMA AbstractKept ==
    ASSUME NEW S
    PROVE  Abstract!Kept(S) = KeptOf(ItemsOf(node), S)
BY AbstractCardinality, AbstractNth DEF Abstract!Kept, KeptOf

\* What a deletion has to show.
LEMMA AbstractEraseKeys ==
    ASSUME NEW doomed,
           ItemsOf(node') = KeptOf(ItemsOf(node), Spared(ItemsOf(node), doomed)),
           AbsRet(node', ret') =
               Returned("erase", Len(ItemsOf(node)) - Len(ItemsOf(node')), -1)
    PROVE  Abstract!EraseKeys(doomed)
<1>1. Spared(ItemsOf(node), doomed) =
          {i \in DOMAIN ItemsOf(node) :
              Abstract!KeyOf(ItemsOf(node)[i]) \notin doomed}
  BY DEF Spared, Abstract!KeyOf
<1> QED
  BY <1>1, AbstractKept, Zenon
  DEF Abstract!EraseKeys, Abstract!Returned, Returned, AbsRet

\* InsertAt puts one item after the first r.
LEMMA AbstractInsertAt ==
    ASSUME NEW S, NEW s \in Seq(S), NEW n, n = Len(s), NEW r \in 0 .. n, NEW x \in S
    PROVE  Abstract!InsertAt(s, r + 1, x) = WithItem(s, n, r, x)
<1> DEFINE front == SubSeq(s, 1, (r + 1) - 1)
           back == SubSeq(s, r + 1, Len(s))
           t == (front \o <<x>>) \o back
<1>1. n \in Nat /\ r \in Nat /\ r <= n /\ \A i \in 1 .. n : s[i] \in S
  BY ElementOfSeq
<1>2. /\ front \in Seq(S) /\ Len(front) = r
      /\ \A i \in 1 .. r : front[i] = s[i]
  <2>1. (r + 1) - 1 = r /\ r \in Int /\ \A i \in 1 .. r : s[i] \in S
    BY <1>1
  <2>2. /\ SubSeq(s, 1, r) \in Seq(S)
        /\ Len(SubSeq(s, 1, r)) = IF 1 <= r THEN r - 1 + 1 ELSE 0
        /\ \A i \in 1 .. (r - 1 + 1) : SubSeq(s, 1, r)[i] = s[1 + i - 1]
    BY <2>1, SubSeqProperties
  <2>3. front = SubSeq(s, 1, r)
    BY <2>1
  <2> HIDE DEF front
  <2> QED
    BY <1>1, <2>2, <2>3
<1>3. /\ back \in Seq(S) /\ Len(back) = n - r
      /\ \A i \in 1 .. (n - r) : back[i] = s[r + i]
  <2>1. r + 1 \in Int /\ n \in Int /\ \A i \in (r + 1) .. n : s[i] \in S
    BY <1>1
  <2>2. /\ SubSeq(s, r + 1, n) \in Seq(S)
        /\ Len(SubSeq(s, r + 1, n)) = IF r + 1 <= n THEN n - (r + 1) + 1 ELSE 0
        /\ \A i \in 1 .. (n - (r + 1) + 1) : SubSeq(s, r + 1, n)[i] = s[r + 1 + i - 1]
    BY <2>1, SubSeqProperties
  <2>3. back = SubSeq(s, r + 1, n)
    OBVIOUS
  <2> HIDE DEF back
  <2> QED
    BY <1>1, <2>2, <2>3
<1>4. <<x>> \in Seq(S) /\ Len(<<x>>) = 1 /\ <<x>>[1] = x
  OBVIOUS
<1>5. Abstract!InsertAt(s, r + 1, x) = t
  BY DEF Abstract!InsertAt
<1> HIDE DEF front, back
<1>6. /\ front \o <<x>> \in Seq(S) /\ Len(front \o <<x>>) = r + 1
      /\ \A i \in 1 .. (r + 1) :
             (front \o <<x>>)[i] = IF i <= r THEN s[i] ELSE x
  <2>1. /\ front \o <<x>> \in Seq(S)
        /\ Len(front \o <<x>>) = Len(front) + Len(<<x>>)
        /\ \A i \in 1 .. (Len(front) + Len(<<x>>)) :
               (front \o <<x>>)[i] =
                   IF i <= Len(front) THEN front[i] ELSE <<x>>[i - Len(front)]
    BY <1>2, <1>4, ConcatProperties
  <2> QED
    BY <1>1, <1>2, <1>4, <2>1
<1> DEFINE u == front \o <<x>>
<1> HIDE DEF u
<1>7. /\ t \in Seq(S) /\ Len(t) = n + 1
      /\ \A i \in 1 .. (n + 1) :
             t[i] = IF i <= r + 1 THEN u[i] ELSE back[i - (r + 1)]
  <2>1. u \in Seq(S) /\ Len(u) = r + 1
    BY <1>6 DEF u
  <2>2. /\ u \o back \in Seq(S)
        /\ Len(u \o back) = Len(u) + Len(back)
        /\ \A i \in 1 .. (Len(u) + Len(back)) :
               (u \o back)[i] = IF i <= Len(u) THEN u[i] ELSE back[i - Len(u)]
    BY <1>3, <2>1, ConcatProperties
  <2>3. Len(u) + Len(back) = n + 1
    BY <1>1, <1>3, <2>1
  <2>4. t = u \o back
    BY DEF u
  <2> HIDE DEF t
  <2> QED
    BY <2>1, <2>2, <2>3, <2>4
<1> HIDE DEF t
<1>8. \A i \in 1 .. (n + 1) :
          t[i] = IF i < r + 1 THEN s[i] ELSE IF i = r + 1 THEN x ELSE s[i - 1]
  <2> SUFFICES ASSUME NEW i \in 1 .. (n + 1)
               PROVE  t[i] = IF i < r + 1 THEN s[i]
                             ELSE IF i = r + 1 THEN x ELSE s[i - 1]
    OBVIOUS
  <2>1. CASE i <= r + 1
    <3>1. i \in 1 .. (r + 1)
      BY <1>1, <2>1
    <3>2. t[i] = IF i <= r THEN s[i] ELSE x
      BY <1>6, <1>7, <2>1, <3>1 DEF u
    <3> QED
      BY <1>1, <2>1, <3>2
  <2>2. CASE ~(i <= r + 1)
    <3>1. i - (r + 1) \in 1 .. (n - r) /\ r + (i - (r + 1)) = i - 1
      BY <1>1, <2>2
    <3>2. t[i] = s[i - 1]
      BY <1>3, <1>7, <2>2, <3>1
    <3> QED
      BY <1>1, <2>2, <3>2
  <2> QED
    BY <2>1, <2>2
<1>9. t = [i \in 1 .. (n + 1) |-> t[i]]
  <2>1. t \in [1 .. (n + 1) -> S]
    BY <1>7
  <2> QED
    BY <2>1
<1>10. t = WithItem(s, n, r, x)
  BY <1>8, <1>9, Zenon DEF WithItem
<1> QED
  BY <1>5, <1>10

-----------------------------------------------------------------------------
(* Each call is an abstract operation.                                     *)

\* A bulk load is a sorted sequence of pairs.
LEMMA InitImplements == Init => Abstract!Init
<1> SUFFICES ASSUME Init PROVE Abstract!Init
  OBVIOUS
<1>1. WellFormed(node)
  BY InitEstablishesIInv DEF IInv
<1>2. /\ ItemsOf(node) \in Seq(Key \X Payload)
      /\ \A i \in 1 .. (Len(ItemsOf(node)) - 1) :
             ItemsOf(node)[i][1] <= ItemsOf(node)[i + 1][1]
  BY <1>1, ItemsAreSorted
<1>3. Abstract!Sorted(ItemsOf(node))
  BY <1>2, Zenon DEF Abstract!Sorted, Abstract!KeyOf
<1>4. ret = Returned("bulk_load", 0, -1)
  BY DEF Init
<1>5. AbsRet(node, ret) = Returned("bulk_load", 0, -1)
  BY <1>4, AbstractRet
<1> QED
  BY <1>2, <1>3, <1>5, Zenon DEF Abstract!Init, Abstract!Returned, Returned, AbsRet

\* An insert adds the pair after those up to its key, whatever the slots, the
\* gap and an expansion, or is turned away as a duplicate.
LEMMA InsertImplements ==
    ASSUME kEndSentinel_ \notin Key, WellFormed(node),
           NEW key \in Key, NEW payload \in Payload, Insert(key, payload)
    PROVE  Abstract!Insert(key, payload) \/ Abstract!RejectDuplicate(key)
<1> DEFINE after == UpTo(ItemsOf(node), key)
           before == Under(ItemsOf(node), key)
<1>1. PICK d \in Expanded(node) :
          IF ~allow_duplicates /\ upper_bound(d, key) > 0
             /\ d.key_slots_[upper_bound(d, key) - 1] = key
          THEN /\ node' = d
               /\ ret' = Returned("insert", -1, upper_bound(d, key) - 1)
          ELSE \E pos \in InsertPositions(d, key), gap \in Gaps(d) :
                  /\ IsClosestGap(d, pos, gap)
                  /\ node' = WithElement(d, key, payload, pos, gap)
                  /\ ret' = Returned("insert", 0, SlotAfterShift(gap, pos))
  BY DEF Insert
<1>2. /\ WellFormed(d) /\ ItemsOf(d) = ItemsOf(node)
      /\ d.num_keys_ = node.num_keys_
  BY ExpandedKeepsWellFormed, ExpandedKeepsItems
<1>3. /\ Abstract!RankAfter(key) = after
      /\ Abstract!RankBefore(key) = before
  BY AbstractCounts
<1>4. after \in 0 .. node.num_keys_ /\ before \in 0 .. node.num_keys_
  BY HeldKeysAreCounted
<1> DEFINE ub == upper_bound(d, key)
<1>5. /\ ub \in Int
      /\ IF ub > 0 /\ d.key_slots_[ub - 1] = key
         THEN before < after /\ Rank(d.bitmap_, ub - 1) = after - 1
         ELSE before = after
  <2>1. ub \in 0 .. d.data_capacity_
    BY <1>2, LastOfKey
  <2>2. IF ub > 0 /\ d.key_slots_[ub - 1] = key
        THEN before < after /\ Rank(d.bitmap_, ub - 1) = after - 1
        ELSE before = after
    BY <1>2, LastOfKey
  <2> QED
    BY <2>1, <2>2
<1> HIDE DEF ub, after, before
<1>6. CASE ~allow_duplicates /\ ub > 0 /\ d.key_slots_[ub - 1] = key
  <2>1. node' = d /\ ret' = Returned("insert", -1, ub - 1)
    BY <1>1, <1>6 DEF ub
  <2>2. ItemsOf(node') = ItemsOf(node)
    BY <1>2, <2>1
  <2>3. before < after /\ Rank(node'.bitmap_, ub - 1) = after - 1
    BY <1>5, <1>6, <2>1
  <2>4. ub - 1 # -1
    BY <1>5, <1>6
  <2>5. AbsRet(node', ret') = Returned("insert", -1, after - 1)
    <3>1. AbsRet(node', Returned("insert", -1, ub - 1)) =
              Returned("insert", -1, Rank(node'.bitmap_, ub - 1))
      BY <2>4 DEF AbsRet, Returned
    <3>2. ret' = Returned("insert", -1, ub - 1)
      BY <2>1
    <3> QED
      BY <2>3, <3>1, <3>2
  <2>6. Abstract!RejectDuplicate(key)
    BY <1>3, <1>6, <2>2, <2>3, <2>5, Zenon
    DEF Abstract!RejectDuplicate, Abstract!Returned, Returned, AbsRet
  <2> QED
    BY <2>6
<1>7. CASE ~(~allow_duplicates /\ ub > 0 /\ d.key_slots_[ub - 1] = key)
  <2>1. PICK pos \in InsertPositions(d, key), gap \in Gaps(d) :
            /\ IsClosestGap(d, pos, gap)
            /\ node' = WithElement(d, key, payload, pos, gap)
            /\ ret' = Returned("insert", 0, SlotAfterShift(gap, pos))
    BY <1>1, <1>7 DEF ub
  <2>2. PICK predicted \in Slots(d) :
            pos = find_insert_position(d, key, predicted)
    BY DEF InsertPositions
  <2>3. /\ SlotAfterShift(gap, pos) \in Nat
        /\ Rank(node'.bitmap_, SlotAfterShift(gap, pos)) = UpTo(ItemsOf(d), key)
        /\ ItemsOf(node') = WithItem(ItemsOf(d), d.num_keys_,
                                     UpTo(ItemsOf(d), key), <<key, payload>>)
    BY <1>2, <2>1, <2>2, WithElementItems
  <2>4. allow_duplicates \/ before = after
    BY <1>5, <1>7
  <2>5. SlotAfterShift(gap, pos) # -1
    BY <2>3
  <2>6. AbsRet(node', ret') = Returned("insert", 0, after)
    BY <1>2, <2>1, <2>3, <2>5, AbstractRet DEF after
  <2>7. Abstract!InsertAt(ItemsOf(node), after + 1, <<key, payload>>) =
            WithItem(ItemsOf(node), node.num_keys_, after, <<key, payload>>)
    <3>1. /\ ItemsOf(node) \in Seq(Key \X Payload)
          /\ node.num_keys_ = Len(ItemsOf(node))
          /\ <<key, payload>> \in Key \X Payload
      BY ItemsAreSorted
    <3> QED
      BY <1>4, <3>1, AbstractInsertAt
  <2>8. ItemsOf(node') =
            Abstract!InsertAt(ItemsOf(node), after + 1, <<key, payload>>)
    BY <1>2, <2>3, <2>7, Zenon DEF after
  <2>9. Abstract!Insert(key, payload)
    BY <1>3, <2>4, <2>6, <2>8, Zenon
    DEF Abstract!Insert, Abstract!Returned, Returned, AbsRet
  <2> QED
    BY <2>9
<1> QED
  BY <1>6, <1>7

\* An insert that is declined, and the retraining that may follow.
LEMMA DeclineImplements ==
    ASSUME DeclineInsert PROVE Abstract!Decline
<1>1. PICK fail \in 1 .. 3 : ret' = Returned("insert", fail, -1)
  BY DEF DeclineInsert
<1>2. AbsRet(node', ret') = Returned("insert", fail, -1)
  BY <1>1, AbstractRet
<1>3. ItemsOf(node') = ItemsOf(node)
  BY DEF DeclineInsert
<1> QED
  BY <1>2, <1>3, Zenon DEF Abstract!Decline, Abstract!Returned, Returned, AbsRet

\* The retraining that may follow a declined insert.
LEMMA RetrainImplements ==
    ASSUME WellFormed(node), ExpandAndRetrain PROVE Abstract!Retrain
<1>1. /\ ret = Returned("insert", 1, -1)
      /\ node' \in resize(node, 6)
      /\ ret' = Returned("retrain", 0, -1)
  BY Zenon DEF ExpandAndRetrain, kMinDensity_
<1>2. ItemsOf(node') = ItemsOf(node)
  BY <1>1, ResizeKeepsItems
<1>3. AbsRet(node, ret) = Returned("insert", 1, -1)
  BY <1>1, AbstractRet
<1>4. AbsRet(node', ret') = Returned("retrain", 0, -1)
  BY <1>1, AbstractRet
<1> QED
  BY <1>2, <1>3, <1>4, Zenon DEF Abstract!Retrain, Abstract!Returned, Returned, AbsRet

\* The deletion at a slot is that of the pair with its rank.
LEMMA EraseOneAtImplements ==
    ASSUME WellFormed(node), NEW pos \in node.bitmap_, EraseOneAt(pos)
    PROVE  /\ Rank(node.bitmap_, pos) + 1 \in 1 .. Len(ItemsOf(node))
           /\ Abstract!EraseOneAt(Rank(node.bitmap_, pos) + 1)
<1> DEFINE rank == Rank(node.bitmap_, pos) + 1
<1>1. /\ node' \in Contracted(WithoutSlot(node, pos))
      /\ ret' = Returned("erase", 1, -1)
  BY DEF EraseOneAt
<1>2. ItemsOf(node') = ItemsOf(WithoutSlot(node, pos))
  BY <1>1, WithoutSlotKeepsWellFormed, ContractedKeepsItems
<1>3. /\ ItemsOf(WithoutSlot(node, pos)) =
             KeptOf(ItemsOf(node), DOMAIN ItemsOf(node) \ {rank})
      /\ rank \in 1 .. node.num_keys_
  BY WithoutSlotItems
<1>4. AbsRet(node', ret') = Returned("erase", 1, -1)
  BY <1>1, AbstractRet
<1>5. Len(ItemsOf(node)) = node.num_keys_
  BY ItemsAreSorted
<1> HIDE DEF rank
<1>6. ItemsOf(node') = Abstract!Kept(DOMAIN ItemsOf(node) \ {rank})
  BY <1>2, <1>3, AbstractKept, Zenon
<1>7. Abstract!EraseOneAt(rank)
  BY <1>4, <1>6, Zenon DEF Abstract!EraseOneAt, Abstract!Returned, Returned, AbsRet
<1> QED
  BY <1>3, <1>5, <1>7 DEF rank

\* erase_one deletes the first pair with the key, or nothing.
LEMMA EraseOneImplements ==
    ASSUME WellFormed(node), NEW key \in Key, EraseOne(key)
    PROVE  Abstract!EraseOne(key)
<1> DEFINE pos == find_lower(node, key)
           after == UpTo(ItemsOf(node), key)
           before == Under(ItemsOf(node), key)
<1>1. IF pos = node.data_capacity_ \/ node.key_slots_[pos] # key
      THEN before = after
      ELSE /\ before < after
           /\ pos \in node.bitmap_
           /\ Rank(node.bitmap_, pos) = before
  BY FindLowerFindsFirst
<1>2. /\ Abstract!RankAfter(key) = after
      /\ Abstract!RankBefore(key) = before
  BY AbstractCounts
<1>3. before \in Int
  <2>1. before \in 0 .. node.num_keys_
    BY HeldKeysAreCounted
  <2> QED
    BY <2>1
<1>4. CASE pos = node.data_capacity_ \/ node.key_slots_[pos] # key
  <2>1. UNCHANGED node /\ ret' = Returned("erase", 0, -1)
    BY <1>4 DEF EraseOne
  <2>2. AbsRet(node', ret') = Returned("erase", 0, -1)
    BY <2>1, AbstractRet
  <2>3. ~(before < after)
    <3>1. before = after
      BY <1>1, <1>4
    <3> HIDE DEF before, after
    <3> QED
      BY <1>3, <3>1
  <2>4. ItemsOf(node') = ItemsOf(node)
    BY <2>1
  <2> QED
    BY <1>2, <2>2, <2>3, <2>4, Zenon
    DEF Abstract!EraseOne, Abstract!Returned, Returned, AbsRet
<1>5. CASE ~(pos = node.data_capacity_ \/ node.key_slots_[pos] # key)
  <2>1. EraseOneAt(pos)
    BY <1>5 DEF EraseOne
  <2>2. Abstract!EraseOneAt(Rank(node.bitmap_, pos) + 1)
    BY <1>1, <1>5, <2>1, EraseOneAtImplements
  <2>3. before < after /\ Rank(node.bitmap_, pos) = before
    BY <1>1, <1>5
  <2> HIDE DEF pos, before, after
  <2> QED
    BY <1>2, <2>2, <2>3, Zenon DEF Abstract!EraseOne
<1> QED
  BY <1>4, <1>5

\* A deletion of slots is that of the keys they hold.
LEMMA EraseSlotsImplements ==
    ASSUME WellFormed(node), NEW key \in Key, NEW pos \in 0 .. node.data_capacity_,
           NEW doomed,
           \A i \in node.bitmap_ :
               node.key_slots_[i] \in doomed <=> lower_bound(node, key) <= i /\ i < pos,
           EraseSlots(lower_bound(node, key), pos)
    PROVE  Abstract!EraseKeys(doomed)
<1> DEFINE first == lower_bound(node, key)
           d == WithoutSlots(node, first, pos)
<1>1. /\ node' \in Contracted(d)
      /\ ret' = Returned("erase", node.num_keys_ - d.num_keys_, -1)
  BY DEF EraseSlots
<1>2. first \in Nat /\ pos \in Nat
  BY KeyInBounds
<1>3. WellFormed(d)
  BY EraseSlotsGivesWellFormed
<1>4. ItemsOf(d) = KeptOf(ItemsOf(node), Spared(ItemsOf(node), doomed))
  BY <1>2, WithoutSlotsItems
<1> HIDE DEF d
<1>5. /\ ItemsOf(node') = ItemsOf(d)
      /\ Len(ItemsOf(d)) = d.num_keys_
      /\ Len(ItemsOf(node)) = node.num_keys_
  BY <1>1, <1>3, ContractedKeepsItems, ItemsAreSorted
<1>6. AbsRet(node', ret') =
          Returned("erase", Len(ItemsOf(node)) - Len(ItemsOf(node')), -1)
  BY <1>1, <1>5, AbstractRet
<1> QED
  BY <1>4, <1>5, <1>6, AbstractEraseKeys

\* A deletion that finds none of the keys.
LEMMA EraseNothingImplements ==
    ASSUME WellFormed(node), NEW doomed,
           \A i \in node.bitmap_ : node.key_slots_[i] \notin doomed,
           UNCHANGED node, ret' = Returned("erase", 0, -1)
    PROVE  Abstract!EraseKeys(doomed)
<1>1. ItemsOf(node') = KeptOf(ItemsOf(node), Spared(ItemsOf(node), doomed))
  BY NothingErased
<1>2. ItemsOf(node') = ItemsOf(node)
  OBVIOUS
<1>3. Len(ItemsOf(node)) \in Int
  <2>1. Len(ItemsOf(node)) = node.num_keys_ /\ node.num_keys_ \in Nat
    BY ItemsAreSorted, NodeFacts
  <2> QED
    BY <2>1
<1>4. Len(ItemsOf(node)) - Len(ItemsOf(node')) = 0
  BY <1>2, <1>3
<1>5. AbsRet(node', ret') =
          Returned("erase", Len(ItemsOf(node)) - Len(ItemsOf(node')), -1)
  BY <1>4, AbstractRet
<1> QED
  BY <1>1, <1>5, AbstractEraseKeys

\* erase deletes every pair with the key.
LEMMA EraseImplements ==
    ASSUME kEndSentinel_ \notin Key, WellFormed(node), NEW key \in Key, Erase(key)
    PROVE  Abstract!Erase(key)
<1> DEFINE pos == upper_bound(node, key)
<1>1. /\ pos \in 0 .. node.data_capacity_
      /\ ~(pos > 0 /\ node.key_slots_[pos - 1] = key) =>
             \A i \in node.bitmap_ : node.key_slots_[i] # key
  BY LastOfKey
<1>2. CASE pos = 0 \/ node.key_slots_[pos - 1] # key
  <2>1. UNCHANGED node /\ ret' = Returned("erase", 0, -1)
    BY <1>2 DEF Erase
  <2>2. \A i \in node.bitmap_ : node.key_slots_[i] \notin {key}
    BY <1>1, <1>2
  <2> QED
    BY <2>1, <2>2, EraseNothingImplements DEF Abstract!Erase
<1>3. CASE ~(pos = 0 \/ node.key_slots_[pos - 1] # key)
  <2>1. EraseSlots(lower_bound(node, key), pos)
    BY <1>3 DEF Erase
  <2>2. \A i \in node.bitmap_ :
            node.key_slots_[i] \in {key} <=> lower_bound(node, key) <= i /\ i < pos
    BY KeyInBounds
  <2> QED
    BY <1>1, <2>1, <2>2, EraseSlotsImplements DEF Abstract!Erase
<1> QED
  BY <1>2, <1>3

\* erase_range deletes the pairs with a key in the range.
LEMMA EraseRangeImplements ==
    ASSUME WellFormed(node), NEW start_key \in Key, NEW end_key \in Key,
           NEW end_key_inclusive \in BOOLEAN,
           EraseRange(start_key, end_key, end_key_inclusive)
    PROVE  Abstract!EraseRange(start_key, end_key, end_key_inclusive)
<1> DEFINE pos == IF end_key_inclusive THEN upper_bound(node, end_key)
                  ELSE lower_bound(node, end_key)
           doomed == {k \in Key :
                         /\ start_key <= k
                         /\ k < end_key \/ (end_key_inclusive /\ k = end_key)}
<1>1. /\ pos \in 0 .. node.data_capacity_
      /\ \A i \in node.bitmap_ :
             /\ i \in 0 .. (node.data_capacity_ - 1)
             /\ node.key_slots_[i] \in Int
             /\ (node.key_slots_[i] < end_key
                     \/ (end_key_inclusive /\ node.key_slots_[i] = end_key))
                    <=> i < pos
  <2>1. \A i \in node.bitmap_ :
            /\ i \in 0 .. (node.data_capacity_ - 1)
            /\ node.key_slots_[i] \in Int
            /\ node.key_slots_[i] <= end_key <=> i < upper_bound(node, end_key)
            /\ node.key_slots_[i] < end_key <=> i < lower_bound(node, end_key)
    BY KeyInBounds
  <2>2. /\ upper_bound(node, end_key) \in 0 .. node.data_capacity_
        /\ lower_bound(node, end_key) \in 0 .. node.data_capacity_
        /\ end_key \in Int
    BY KeyInBounds
  <2>3. CASE end_key_inclusive
    BY <2>1, <2>2, <2>3
  <2>4. CASE ~end_key_inclusive
    BY <2>1, <2>2, <2>4
  <2> QED
    BY <2>3, <2>4
<1>2. /\ start_key \in Int
      /\ \A i \in node.bitmap_ : node.key_slots_[i] < start_key
                                     <=> i < lower_bound(node, start_key)
      /\ lower_bound(node, start_key) \in Int
  <2>1. lower_bound(node, start_key) \in 0 .. node.data_capacity_
    BY KeyInBounds
  <2> QED
    BY <2>1, KeyInBounds
<1>3. \A i \in node.bitmap_ : node.key_slots_[i] \in Key
  BY NodeFacts
<1> HIDE DEF pos
<1>4. \A i \in node.bitmap_ :
          node.key_slots_[i] \in doomed
              <=> lower_bound(node, start_key) <= i /\ i < pos
  <2> SUFFICES ASSUME NEW i \in node.bitmap_
               PROVE  node.key_slots_[i] \in doomed
                          <=> lower_bound(node, start_key) <= i /\ i < pos
    OBVIOUS
  <2>1. start_key <= node.key_slots_[i] <=> lower_bound(node, start_key) <= i
    BY <1>1, <1>2
  <2>2. (node.key_slots_[i] < end_key
             \/ (end_key_inclusive /\ node.key_slots_[i] = end_key)) <=> i < pos
    BY <1>1
  <2> QED
    BY <1>3, <2>1, <2>2, Zenon
<1>5. CASE pos = 0
  <2>1. UNCHANGED node /\ ret' = Returned("erase", 0, -1)
    BY <1>5 DEF EraseRange, pos
  <2>2. \A i \in node.bitmap_ : node.key_slots_[i] \notin doomed
    <3>1. \A i \in node.bitmap_ : ~(i < pos)
      BY <1>1, <1>5
    <3> HIDE DEF doomed
    <3> QED
      BY <1>4, <3>1, Zenon
  <2>3. Abstract!EraseKeys(doomed)
    <3> HIDE DEF doomed
    <3> QED
      BY <2>1, <2>2, EraseNothingImplements
  <2> QED
    BY <2>3 DEF Abstract!EraseRange
<1>6. CASE pos # 0
  <2>1. EraseSlots(lower_bound(node, start_key), pos)
    BY <1>6 DEF EraseRange, pos
  <2>2. Abstract!EraseKeys(doomed)
    <3> HIDE DEF doomed
    <3> QED
      BY <1>1, <1>4, <2>1, EraseSlotsImplements
  <2> QED
    BY <2>2 DEF Abstract!EraseRange
<1> QED
  BY <1>5, <1>6

\* Every step of the node is a step of the multimap, or none.
LEMMA NextImplements ==
    ASSUME kEndSentinel_ \notin Key, IInv, [Next]_vars
    PROVE  [Abstract!Next]_(Abstract!vars)
<1>1. WellFormed(node)
  BY DEF IInv
<1>2. ASSUME NEW key \in Key, NEW payload \in Payload, Insert(key, payload)
      PROVE  Abstract!Next
  BY <1>1, <1>2, InsertImplements DEF Abstract!Next
<1>3. CASE DeclineInsert
  BY <1>3, DeclineImplements DEF Abstract!Next
<1>4. CASE ExpandAndRetrain
  BY <1>1, <1>4, RetrainImplements DEF Abstract!Next
<1>5. ASSUME NEW pos \in node.bitmap_, EraseOneAt(pos)
      PROVE  Abstract!Next
  BY <1>1, <1>5, EraseOneAtImplements DEF Abstract!Next
<1>6. ASSUME NEW key \in Key, EraseOne(key)
      PROVE  Abstract!Next
  BY <1>1, <1>6, EraseOneImplements DEF Abstract!Next
<1>7. ASSUME NEW key \in Key, Erase(key)
      PROVE  Abstract!Next
  BY <1>1, <1>7, EraseImplements DEF Abstract!Next
<1>8. ASSUME NEW start_key \in Key, NEW end_key \in Key,
             NEW end_key_inclusive \in BOOLEAN,
             EraseRange(start_key, end_key, end_key_inclusive)
      PROVE  Abstract!Next
  BY <1>1, <1>8, EraseRangeImplements DEF Abstract!Next
<1>9. CASE UNCHANGED vars
  BY <1>9 DEF vars, Abstract!vars
<1> QED
  BY <1>2, <1>3, <1>4, <1>5, <1>6, <1>7, <1>8, <1>9 DEF Next

-----------------------------------------------------------------------------
\* A data node is an ordered multimap, whatever the layout: for keys below the
\* sentinel, every call has the effect and the result of the abstract
\* operation.
THEOREM NodeIsOrderedMultimap ==
    ASSUME kEndSentinel_ \notin Key
    PROVE  Spec => IsOrderedMultimap
<1>1. Init => Abstract!Init
  BY InitImplements
<1>2. IInv /\ [Next]_vars => [Abstract!Next]_(Abstract!vars)
  BY NextImplements
<1> QED
  BY <1>1, <1>2, NodeStaysWellFormed, PTL DEF Spec, IsOrderedMultimap, Abstract!Spec
=============================================================================
