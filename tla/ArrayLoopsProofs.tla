-------------------------- MODULE ArrayLoopsProofs --------------------------
(***************************************************************************)
(* The loops over the arrays of a data node end as GappedArray takes them  *)
(* to.  The searches return the bound they are named for, from every       *)
(* predicted slot, in arrays of every capacity and with every set of keys, *)
(* and read no slot outside the array on the way.  The placement ends with *)
(* one of the layouts, whatever the model predicts.  And so it is when the *)
(* loops follow one another, in arrays that are searched as they were laid *)
(* out.                                                                    *)
(***************************************************************************)
EXTENDS ArrayLoops, FiniteSetTheorems, TLAPS

-----------------------------------------------------------------------------
(* Ranks and layouts, which are shared with DataNodeProofs.                *)

\* Keys and the ends of their type are integers, in order.
LEMMA KeysAreIntegers ==
    /\ kEndSentinel_ \in Int /\ kLowest \in Int /\ kLowest < kEndSentinel_
    /\ \A k \in Key : k \in Int /\ kLowest <= k /\ k <= kEndSentinel_
BY KeysAreInRange

\* A set of slots of an array of n slots.
LEMMA SetOfSlots ==
    ASSUME NEW n \in Nat, NEW S, \A s \in S : s \in 0 .. (n - 1)
    PROVE  /\ IsFiniteSet(S) /\ Cardinality(S) \in 0 .. n
           /\ \A s \in S : s \in Int /\ 0 <= s /\ s < n
<1>1. /\ IsFiniteSet(0 .. (n - 1))
      /\ Cardinality(0 .. (n - 1)) = n
  BY FS_Interval
<1>2. /\ IsFiniteSet(S)
      /\ Cardinality(S) \in Nat
      /\ Cardinality(S) <= n
  BY <1>1, FS_Subset, FS_CardinalityType
<1>3. S \subseteq 0 .. (n - 1)
  OBVIOUS
<1> QED
  BY <1>2, <1>3

\* Slots that form a prefix of the array are as many as the slot they reach.
LEMMA PrefixCardinality ==
    ASSUME NEW n \in Nat, NEW S, \A s \in S : s \in 0 .. (n - 1),
           \A i \in S : \A j \in 0 .. i : j \in S
    PROVE  /\ Cardinality(S) \in 0 .. n
           /\ \A i \in 0 .. (n - 1) : i \in S <=> i < Cardinality(S)
<1>1. /\ IsFiniteSet(0 .. (n - 1))
      /\ Cardinality(0 .. (n - 1)) = n
  BY FS_Interval
<1>2. /\ IsFiniteSet(S)
      /\ Cardinality(S) \in Nat
      /\ Cardinality(S) <= n
  BY <1>1, FS_Subset, FS_CardinalityType
<1>3. ASSUME NEW i \in 0 .. (n - 1), i \in S
      PROVE  i < Cardinality(S)
  <2>1. \A j \in 0 .. i : j \in S
    BY <1>3
  <2>2. Cardinality(0 .. i) <= Cardinality(S)
    BY <1>2, <2>1, FS_Subset
  <2>3. Cardinality(0 .. i) = i + 1
    BY FS_Interval
  <2> QED
    BY <1>2, <2>2, <2>3
<1>4. ASSUME NEW i \in 0 .. (n - 1), i \notin S
      PROVE  ~(i < Cardinality(S))
  <2>1. \A s \in S : s \in 0 .. (i - 1)
    <3> SUFFICES ASSUME NEW s \in S, i <= s PROVE FALSE
      OBVIOUS
    <3>1. i \in 0 .. s
      OBVIOUS
    <3> QED
      BY <1>4, <3>1
  <2>2. /\ IsFiniteSet(0 .. (i - 1))
        /\ Cardinality(0 .. (i - 1)) = i
    BY FS_Interval
  <2>3. Cardinality(S) <= i
    BY <2>1, <2>2, FS_Subset
  <2> QED
    BY <1>2, <2>3
<1> QED
  BY <1>2, <1>3, <1>4

Below(S, i) == {j \in S : j < i}

\* Ranks grow with the slot, by one past an element.
LEMMA RankFacts ==
    ASSUME NEW n \in Nat, NEW S, \A s \in S : s \in 0 .. (n - 1), NEW i \in 0 .. n
    PROVE  /\ Rank(S, i) \in 0 .. Cardinality(S)
           /\ Rank(S, n) = Cardinality(S)
           /\ \A j \in 0 .. n :
                  i <= j => Rank(S, i) <= Rank(S, j)
           /\ i \in S => Rank(S, i + 1) = Rank(S, i) + 1
           /\ i < n /\ i \notin S => Rank(S, i + 1) = Rank(S, i)
<1>1. /\ IsFiniteSet(S) /\ Cardinality(S) \in Nat
      /\ \A s \in S : s \in Int /\ 0 <= s /\ s < n
  BY SetOfSlots
<1>2. ASSUME NEW j
      PROVE  /\ IsFiniteSet(Below(S, j))
             /\ Cardinality(Below(S, j)) \in 0 .. Cardinality(S)
  <2>1. Below(S, j) \subseteq S
    BY DEF Below
  <2> QED
    BY <1>1, <2>1, FS_Subset, FS_CardinalityType
<1>3. Below(S, n) = S
  BY <1>1 DEF Below
<1>4. ASSUME NEW j \in 0 .. n, i <= j
      PROVE  Cardinality(Below(S, i)) <= Cardinality(Below(S, j))
  <2>1. Below(S, i) \subseteq Below(S, j)
    BY <1>1, <1>4 DEF Below
  <2> QED
    BY <1>2, <2>1, FS_Subset
<1>5. ASSUME i \in S
      PROVE  Cardinality(Below(S, i + 1)) = Cardinality(Below(S, i)) + 1
  <2>1. \A s : s \in Below(S, i + 1) <=> s \in Below(S, i) \/ s = i
    <3>1. \A s \in S : s < i + 1 <=> s < i \/ s = i
      BY <1>1, <1>5
    <3> QED
      BY <1>5, <3>1, Zenon DEF Below
  <2>2. i \notin Below(S, i)
    BY <1>1 DEF Below
  <2>3. Below(S, i + 1) = Below(S, i) \cup {i}
    BY <2>1, Zenon
  <2> QED
    BY <1>2, <2>2, <2>3, FS_AddElement
<1>6. i < n /\ i \notin S => Below(S, i + 1) = Below(S, i)
  BY <1>1 DEF Below
<1> QED
  BY <1>2, <1>3, <1>4, <1>5, <1>6 DEF Rank, Below

\* An element is ranked below every later slot, and below the set's size.
LEMMA RankOfElement ==
    ASSUME NEW n \in Nat, NEW S, \A s \in S : s \in 0 .. (n - 1), NEW i \in S
    PROVE  /\ Rank(S, i) \in 0 .. (Cardinality(S) - 1)
           /\ \A j \in 0 .. n : i < j => Rank(S, i) < Rank(S, j)
<1>1. i \in 0 .. n /\ i + 1 \in 0 .. n /\ n \in 0 .. n
  OBVIOUS
<1>2. /\ Rank(S, i) \in 0 .. Cardinality(S)
      /\ Rank(S, i + 1) = Rank(S, i) + 1
  BY <1>1, RankFacts
<1>3. /\ Rank(S, i + 1) <= Rank(S, n)
      /\ Rank(S, n) = Cardinality(S)
      /\ \A j \in 0 .. n : i < j => Rank(S, i + 1) <= Rank(S, j)
  <2>1. i + 1 <= n /\ \A j \in 0 .. n : i < j => i + 1 <= j
    OBVIOUS
  <2> QED
    BY <1>1, <2>1, RankFacts
<1>4. IsFiniteSet(S) /\ Cardinality(S) \in Nat
  BY SetOfSlots
<1>5. \A j \in 0 .. n : Rank(S, j) \in 0 .. Cardinality(S)
  BY RankFacts
<1> QED
  BY <1>1, <1>2, <1>3, <1>4, <1>5

\* Every rank below the size of the set is that of one element.
LEMMA NthIsRanked ==
    ASSUME NEW n \in Nat, NEW S, \A s \in S : s \in 0 .. (n - 1),
           NEW rank \in 0 .. (Cardinality(S) - 1)
    PROVE  Nth(S, rank) \in S /\ Rank(S, Nth(S, rank)) = rank
<1> DEFINE N == Cardinality(S)
           R == [i \in S |-> Rank(S, i)]
<1>1. IsFiniteSet(S) /\ N \in Nat
  BY SetOfSlots
<1>2. /\ IsFiniteSet(0 .. (N - 1))
      /\ Cardinality(0 .. (N - 1)) = N
  BY <1>1, FS_Interval
<1>3. R \in [S -> 0 .. (N - 1)]
  BY RankOfElement
<1>4. ASSUME NEW i \in S, NEW j \in S, R[i] = R[j]
      PROVE  i = j
  <2>1. Rank(S, i) = Rank(S, j)
    BY <1>4
  <2>2. \A s \in S : s \in 0 .. n
    OBVIOUS
  <2>3. /\ i < j => Rank(S, i) < Rank(S, j)
        /\ j < i => Rank(S, j) < Rank(S, i)
    BY <2>2, RankOfElement
  <2>4. Rank(S, i) \in Int /\ i \in Int /\ j \in Int
    BY <1>3
  <2> QED
    BY <2>1, <2>3, <2>4
<1>5. R \in Injection(S, 0 .. (N - 1))
  BY <1>3, <1>4, Zenon DEF Injection, IsInjective
<1>6. R \in Surjection(S, 0 .. (N - 1))
  BY <1>2, <1>5, FS_Injection
<1>7. \E i \in S : R[i] = rank
  BY <1>6, Zenon DEF Surjection
<1>8. \E i \in S : Rank(S, i) = rank
  BY <1>7
<1> QED
  BY <1>8, Zenon DEF Nth

\* Elements are in the order of their ranks.
LEMMA NthAscends ==
    ASSUME NEW n \in Nat, NEW S, \A s \in S : s \in 0 .. (n - 1),
           NEW q \in 0 .. (Cardinality(S) - 1),
           NEW rank \in 0 .. (Cardinality(S) - 1), q <= rank
    PROVE  Nth(S, q) <= Nth(S, rank)
<1>1. /\ Nth(S, q) \in S /\ Rank(S, Nth(S, q)) = q
      /\ Nth(S, rank) \in S /\ Rank(S, Nth(S, rank)) = rank
  BY NthIsRanked
<1>2. Nth(S, q) \in 0 .. n /\ Nth(S, rank) \in 0 .. n
  BY <1>1
<1>3. Nth(S, rank) < Nth(S, q) => Rank(S, Nth(S, rank)) < Rank(S, Nth(S, q))
  BY <1>1, <1>2, RankOfElement
<1>4. IsFiniteSet(S) /\ Cardinality(S) \in Nat
  BY SetOfSlots
<1> QED
  BY <1>1, <1>2, <1>3, <1>4

\* The keys L fill the slots dst, in order, with keys that the slots src of
\* keyAt hold, and the gaps between them with the keys that follow.
ProperlyLaidOut(L, keyAt, src, dst, cap) ==
    /\ L \in [0 .. (cap - 1) -> Key \cup {kEndSentinel_}]
    /\ \A i, j \in 0 .. (cap - 1) : i <= j => L[i] <= L[j]
    /\ \A j \in 0 .. (cap - 1) :
           j \notin dst =>
               L[j] = IF j + 1 = cap THEN kEndSentinel_ ELSE L[j + 1]
    /\ \A j \in dst : \E i \in src : L[j] = keyAt[i]

\* The keys of a fresh array are proper.
LEMMA LaidOutKeysFacts ==
    ASSUME NEW n \in Nat, NEW src, \A s \in src : s \in 0 .. (n - 1),
           NEW cap \in Nat, NEW dst, \A s \in dst : s \in 0 .. (cap - 1),
           Cardinality(dst) = Cardinality(src),
           NEW keyAt,
           \A i \in src : keyAt[i] \in Key,
           \A i, j \in src : i <= j => keyAt[i] <= keyAt[j]
    PROVE  ProperlyLaidOut(LaidOutKeys(keyAt, src, dst, cap),
                           keyAt, src, dst, cap)
<1> DEFINE L == LaidOutKeys(keyAt, src, dst, cap)
           N == Cardinality(src)
           Source(j) == Nth(src, Rank(dst, j))
<1>1. /\ N \in Nat
      /\ Cardinality(dst) = N
  BY SetOfSlots
<1>2. \A j \in 0 .. (cap - 1) :
          L[j] = IF Rank(dst, j) < N THEN keyAt[Source(j)] ELSE kEndSentinel_
  BY DEF LaidOutKeys
<1>3. \A j \in 0 .. cap : Rank(dst, j) \in 0 .. N
  BY <1>1, RankFacts
<1>4. \A j \in 0 .. cap :
          Rank(dst, j) < N => Source(j) \in src /\ keyAt[Source(j)] \in Key
  <2> SUFFICES ASSUME NEW j \in 0 .. cap, Rank(dst, j) < N
               PROVE  Source(j) \in src
    OBVIOUS
  <2>1. Rank(dst, j) \in 0 .. (N - 1)
    BY <1>1, <1>3
  <2> QED
    BY <2>1, NthIsRanked
<1>5. L \in [0 .. (cap - 1) -> Key \cup {kEndSentinel_}]
  <2>1. L = [j \in 0 .. (cap - 1) |->
                IF Rank(dst, j) < N THEN keyAt[Source(j)] ELSE kEndSentinel_]
    BY Zenon DEF LaidOutKeys
  <2>2. \A j \in 0 .. (cap - 1) : j \in 0 .. cap
    OBVIOUS
  <2> HIDE DEF N, Source
  <2> QED
    BY <1>4, <2>1, <2>2
<1> HIDE DEF L
<1>6. ASSUME NEW i \in 0 .. (cap - 1), NEW j \in 0 .. (cap - 1), i <= j
      PROVE  L[i] <= L[j]
  <2>1. /\ i \in 0 .. cap /\ j \in 0 .. cap
        /\ Rank(dst, i) <= Rank(dst, j)
        /\ Rank(dst, i) \in Nat /\ Rank(dst, j) \in Nat
    <3>1. i \in 0 .. cap /\ j \in 0 .. cap
      OBVIOUS
    <3>2. Rank(dst, i) \in 0 .. N /\ Rank(dst, j) \in 0 .. N
      BY <1>3, <3>1
    <3>3. Rank(dst, i) <= Rank(dst, j)
      BY <1>6, <3>1, RankFacts
    <3> QED
      BY <1>1, <3>1, <3>2, <3>3
  <2>2. CASE Rank(dst, j) < N
    <3>1. Rank(dst, i) \in 0 .. (N - 1) /\ Rank(dst, j) \in 0 .. (N - 1)
      BY <1>1, <2>1, <2>2
    <3>2. Source(i) <= Source(j)
      BY <2>1, <3>1, NthAscends
    <3>3. Rank(dst, i) < N
      BY <1>1, <3>1
    <3>4. Source(i) \in src /\ Source(j) \in src
      BY <1>4, <2>1, <2>2, <3>3
    <3> HIDE DEF N, Source
    <3> QED
      BY <1>2, <2>2, <3>2, <3>3, <3>4
  <2>3. CASE ~(Rank(dst, j) < N)
    <3>1. L[j] = kEndSentinel_
      BY <1>2, <2>3
    <3>2. L[i] \in Key \cup {kEndSentinel_}
      BY <1>5
    <3> QED
      BY <3>1, <3>2, KeysAreIntegers
  <2> QED
    BY <2>2, <2>3
<1>7. ASSUME NEW j \in 0 .. (cap - 1), j \notin dst
      PROVE  L[j] = IF j + 1 = cap THEN kEndSentinel_ ELSE L[j + 1]
  <2>1. j \in 0 .. cap /\ cap \in 0 .. cap /\ j < cap
    OBVIOUS
  <2>2. Rank(dst, j + 1) = Rank(dst, j) /\ Rank(dst, cap) = N
    <3>1. Rank(dst, j + 1) = Rank(dst, j)
      BY <1>7, <2>1, RankFacts
    <3>2. Rank(dst, cap) = Cardinality(dst)
      BY <2>1, RankFacts
    <3> QED
      BY <1>1, <3>1, <3>2
  <2>3. CASE j + 1 = cap
    <3>1. ~(Rank(dst, j) < N)
      BY <1>1, <2>2, <2>3
    <3> QED
      BY <1>2, <2>3, <3>1, Zenon
  <2>4. CASE j + 1 # cap
    <3>1. j + 1 \in 0 .. (cap - 1)
      BY <2>4
    <3>2. L[j] = IF Rank(dst, j) < N THEN keyAt[Nth(src, Rank(dst, j))]
                                     ELSE kEndSentinel_
      BY <1>2, Zenon
    <3>3. L[j + 1] = IF Rank(dst, j + 1) < N
                     THEN keyAt[Nth(src, Rank(dst, j + 1))]
                     ELSE kEndSentinel_
      BY <1>2, <3>1, Zenon
    <3>4. L[j] = L[j + 1]
      BY <2>2, <3>2, <3>3
    <3> QED
      BY <2>4, <3>4, Zenon
  <2> QED
    BY <2>3, <2>4
<1>8. ASSUME NEW j \in dst
      PROVE  \E i \in src : L[j] = keyAt[i]
  <2>1. j \in 0 .. cap /\ j \in 0 .. (cap - 1)
    OBVIOUS
  <2>2. Rank(dst, j) < N
    BY <1>1, RankOfElement
  <2> HIDE DEF N, Source
  <2> QED
    BY <1>2, <1>4, <2>1, <2>2
<1> QED
  BY <1>5, <1>6, <1>7, <1>8 DEF ProperlyLaidOut, L

\* A layout is a choice of as many slots as there are keys.
LEMMA LayoutFacts ==
    ASSUME NEW cap \in Nat, NEW keyAt, NEW src, NEW dst,
           dst \in Layouts(keyAt, src, cap)
    PROVE  /\ dst \subseteq 0 .. (cap - 1)
           /\ \A s \in dst : s \in 0 .. (cap - 1)
           /\ Cardinality(dst) = Cardinality(src)
<1>1. dst \in kSubset(Cardinality(src), 0 .. (cap - 1))
  BY Zenon DEF Layouts
<1>2. dst \in SUBSET (0 .. (cap - 1)) /\ Cardinality(dst) = Cardinality(src)
  BY <1>1, Zenon DEF kSubset
<1> QED
  BY <1>2, Zenon

-----------------------------------------------------------------------------
(* The searches.                                                           *)

\* The arrays searched hold integers in order.
LEMMA ArraysAreSorted ==
    ASSUME NEW d, SortedArray(d)
    PROVE  /\ d.data_capacity_ \in Nat \ {0}
           /\ Slots(d) = 0 .. (d.data_capacity_ - 1)
           /\ \A i \in Slots(d) : d.key_slots_[i] \in Int
           /\ \A i, j \in Slots(d) :
                  i < j => d.key_slots_[i] <= d.key_slots_[j]
BY KeysAreIntegers DEF SortedArray, Slots, Ascending

\* Those a search starts in are such arrays.
LEMMA NodesAreSorted == \A d \in Nodes : SortedArray(d)
<1> SUFFICES ASSUME NEW d \in Nodes PROVE SortedArray(d)
  OBVIOUS
<1>1. PICK cap \in Capacity :
        /\ d \in [data_capacity_ : {cap},
                  key_slots_ : [0 .. (cap - 1) -> Key \cup {kEndSentinel_}]]
        /\ Ascending(d)
  BY Zenon DEF Nodes
<1>2. d.data_capacity_ = cap /\ cap \in Nat \ {0}
  BY <1>1, CapacityIsPositive
<1>3. d.key_slots_ \in [Slots(d) -> Key \cup {kEndSentinel_}]
  BY <1>1, <1>2 DEF Slots
<1> QED
  BY <1>1, <1>2, <1>3 DEF SortedArray

\* The answer splits the slots: those beyond the key are the ones from it on.
LEMMA AnswerSplits ==
    ASSUME SortedArray(node), key \in Key
    PROVE  /\ Answer \in 0 .. node.data_capacity_
           /\ \A i \in Slots(node) : Beyond(i) <=> Answer <= i
<1>1. /\ node.data_capacity_ \in Nat
      /\ Slots(node) = 0 .. (node.data_capacity_ - 1)
      /\ \A i \in Slots(node) : node.key_slots_[i] \in Int
      /\ \A i, j \in Slots(node) :
             i < j => node.key_slots_[i] <= node.key_slots_[j]
      /\ key \in Int
  BY ArraysAreSorted, KeysAreIntegers
<1>2. CASE op = "upper_bound"
  <2> DEFINE S == {i \in Slots(node) : node.key_slots_[i] <= key}
  <2>1. \A i \in S : \A j \in 0 .. i : j \in S
    BY <1>1
  <2>2. \A s \in S : s \in 0 .. (node.data_capacity_ - 1)
    BY <1>1
  <2>3. /\ Cardinality(S) \in 0 .. node.data_capacity_
        /\ \A i \in 0 .. (node.data_capacity_ - 1) :
               i \in S <=> i < Cardinality(S)
    <3> HIDE DEF S
    <3> QED
      BY <1>1, <2>1, <2>2, PrefixCardinality
  <2>4. Answer = Cardinality(S)
    BY <1>2 DEF Answer, upper_bound
  <2>5. \A i \in Slots(node) : Beyond(i) <=> ~(i \in S)
    BY <1>1, <1>2 DEF Beyond
  <2> HIDE DEF S
  <2> QED
    BY <1>1, <2>3, <2>4, <2>5
<1>3. CASE op # "upper_bound"
  <2> DEFINE S == {i \in Slots(node) : node.key_slots_[i] < key}
  <2>1. \A i \in S : \A j \in 0 .. i : j \in S
    BY <1>1
  <2>2. \A s \in S : s \in 0 .. (node.data_capacity_ - 1)
    BY <1>1
  <2>3. /\ Cardinality(S) \in 0 .. node.data_capacity_
        /\ \A i \in 0 .. (node.data_capacity_ - 1) :
               i \in S <=> i < Cardinality(S)
    <3> HIDE DEF S
    <3> QED
      BY <1>1, <2>1, <2>2, PrefixCardinality
  <2>4. Answer = Cardinality(S)
    BY <1>3 DEF Answer, lower_bound
  <2>5. \A i \in Slots(node) : Beyond(i) <=> ~(i \in S)
    BY <1>1, <1>3 DEF Beyond
  <2> HIDE DEF S
  <2> QED
    BY <1>1, <2>3, <2>4, <2>5
<1> QED
  BY <1>2, <1>3

\* What the step lemmas share: the arithmetic facts of a state in IInv.
LEMMA SearchFacts ==
    ASSUME IInv
    PROVE  /\ node.data_capacity_ \in Nat \ {0}
           /\ m \in 0 .. (node.data_capacity_ - 1)
           /\ Answer \in 0 .. node.data_capacity_
           /\ \A i \in 0 .. (node.data_capacity_ - 1) :
                  Beyond(i) <=> Answer <= i
           /\ bound \in Nat /\ bound >= 1
<1>1. SortedArray(node) /\ key \in Key /\ m \in Slots(node)
  BY DEF IInv
<1> QED
  BY <1>1, ArraysAreSorted, AnswerSplits DEF IInv

\* What is left after the doubling still holds the answer.
LEMMA RangeHoldsAnswer ==
    ASSUME IInv, phase = "doubling", ~(bound < size /\ SameSide)
    PROVE  /\ LeftToSearch[1] \in Int /\ LeftToSearch[2] \in Int
           /\ 0 <= LeftToSearch[1] /\ LeftToSearch[1] <= Answer
           /\ Answer <= LeftToSearch[2]
           /\ LeftToSearch[2] <= node.data_capacity_
<1>1. CASE Beyond(m)
  <2>1. /\ size = m
        /\ SameSide <=> Beyond(m - bound)
    BY <1>1 DEF size, SameSide
  <2>2. /\ LeftToSearch[1] = m - Smaller(bound, m)
        /\ LeftToSearch[2] = m - (bound \div 2)
    BY <1>1, <2>1 DEF LeftToSearch
  <2>3. bound \div 2 <= m /\ Answer <= m - bound \div 2
    BY <1>1 DEF IInv
  <2>4. bound < m => m - bound < Answer
    BY <2>1, SearchFacts
  <2> QED
    BY <2>2, <2>3, <2>4, SearchFacts DEF Smaller
<1>2. CASE ~Beyond(m)
  <2>1. /\ size = node.data_capacity_ - m
        /\ SameSide <=> ~Beyond(m + bound)
    BY <1>2 DEF size, SameSide
  <2>2. /\ LeftToSearch[1] = m + (bound \div 2)
        /\ LeftToSearch[2] = m + Smaller(bound, node.data_capacity_ - m)
    BY <1>2, <2>1 DEF LeftToSearch
  <2>3. /\ m + bound \div 2 < node.data_capacity_
        /\ m + bound \div 2 <= Answer
    BY <1>2 DEF IInv
  <2>4. bound < node.data_capacity_ - m => Answer <= m + bound
    BY <2>1, SearchFacts
  <2> QED
    BY <2>2, <2>3, <2>4, SearchFacts DEF Smaller
<1> QED
  BY <1>1, <1>2

\* A search at its start, in an array it may run in.
Starts ==
    /\ SortedArray(node) /\ op \in {"upper_bound", "lower_bound"} /\ key \in Key
    /\ m \in Slots(node)
    /\ phase = "doubling" /\ bound = 1 /\ l = 0 /\ r = 0

\* At its start a search has excluded nothing.
LEMMA StartGivesIInv == Starts => IInv
<1> SUFFICES ASSUME Starts PROVE IInv
  OBVIOUS
<1>1. /\ SortedArray(node) /\ key \in Key /\ m \in Slots(node)
      /\ phase = "doubling" /\ bound = 1 /\ l = 0 /\ r = 0
      /\ op \in {"upper_bound", "lower_bound"}
  BY DEF Starts
<1>2. /\ node.data_capacity_ \in Nat \ {0}
      /\ Slots(node) = 0 .. (node.data_capacity_ - 1)
      /\ Answer \in 0 .. node.data_capacity_
      /\ \A i \in Slots(node) : Beyond(i) <=> Answer <= i
  BY <1>1, ArraysAreSorted, AnswerSplits
<1>3. IF Beyond(m)
      THEN bound \div 2 <= m /\ Answer <= m - bound \div 2
      ELSE m + bound \div 2 < node.data_capacity_
           /\ m + bound \div 2 <= Answer
  BY <1>1, <1>2
<1> QED
  BY <1>1, <1>3 DEF IInv

\* So it is from every predicted slot.
LEMMA InitGivesIInv == Init => IInv
BY NodesAreSorted, StartGivesIInv DEF Init, Starts

\* Each iteration keeps the answer bracketed.
LEMMA NextKeepsIInv == IInv /\ [Next]_vars => IInv'
<1> SUFFICES ASSUME IInv, [Next]_vars PROVE IInv'
  OBVIOUS
<1>1. CASE Double
  <2>1. /\ UNCHANGED <<node, op, key, m, phase, l, r>>
        /\ bound' = 2 * bound
        /\ phase = "doubling" /\ bound < size /\ SameSide
    BY <1>1 DEF Double
  <2>2. /\ Answer' = Answer
        /\ (Beyond(m))' <=> Beyond(m)
    BY <2>1 DEF Answer, Beyond, upper_bound, lower_bound, Slots
  <2>3. bound' \in Nat /\ bound' >= 1 /\ bound' \div 2 = bound
    BY <2>1, SearchFacts
  <2>4. IF Beyond(m)
        THEN bound <= m /\ Answer <= m - bound
        ELSE m + bound < node.data_capacity_ /\ m + bound <= Answer
    BY <2>1, SearchFacts DEF size, SameSide
  <2> QED
    BY <2>1, <2>2, <2>3, <2>4 DEF IInv, Slots
<1>2. CASE StartBinarySearch
  <2>1. /\ UNCHANGED <<node, op, key, m, bound>>
        /\ l' = LeftToSearch[1] /\ r' = LeftToSearch[2]
        /\ phase = "doubling" /\ phase' = "halving"
        /\ ~(bound < size /\ SameSide)
    BY <1>2 DEF StartBinarySearch
  <2>2. Answer' = Answer
    BY <2>1 DEF Answer, upper_bound, lower_bound, Slots
  <2> QED
    BY <2>1, <2>2, RangeHoldsAnswer DEF IInv, Slots
<1>3. CASE Halve
  <2>1. /\ UNCHANGED <<node, op, key, m, phase, bound>>
        /\ phase = "halving" /\ l < r
        /\ IF Beyond(mid) THEN r' = mid /\ l' = l ELSE l' = mid + 1 /\ r' = r
    BY <1>3 DEF Halve
  <2>2. Answer' = Answer
    BY <2>1 DEF Answer, upper_bound, lower_bound, Slots
  <2>3. /\ l \in Int /\ r \in Int /\ 0 <= l /\ l <= Answer /\ Answer <= r
        /\ r <= node.data_capacity_
    BY <2>1 DEF IInv
  <2>4. mid \in Int /\ l <= mid /\ mid < r
    BY <2>1, <2>3 DEF mid
  <2>5. Beyond(mid) <=> Answer <= mid
    BY <2>3, <2>4, SearchFacts
  <2>6. /\ l' \in Int /\ r' \in Int /\ 0 <= l' /\ l' <= Answer /\ Answer <= r'
        /\ r' <= node.data_capacity_
    BY <2>1, <2>3, <2>4, <2>5, SearchFacts
  <2> QED
    BY <2>1, <2>2, <2>6 DEF IInv, Slots
<1>4. CASE Return
  <2>1. /\ UNCHANGED <<node, op, key, m, bound, l, r>>
        /\ phase = "halving" /\ l >= r /\ phase' = "done"
    BY <1>4 DEF Return
  <2>2. Answer' = Answer
    BY <2>1 DEF Answer, upper_bound, lower_bound, Slots
  <2> QED
    BY <2>1, <2>2 DEF IInv, Slots
<1>5. CASE UNCHANGED vars
  <2>1. UNCHANGED <<node, op, key, m, phase, bound, l, r>>
    BY <1>5 DEF vars
  <2>2. /\ Answer' = Answer
        /\ (Beyond(m))' <=> Beyond(m)
    BY <2>1 DEF Answer, Beyond, upper_bound, lower_bound, Slots
  <2> QED
    BY <2>1, <2>2 DEF IInv, Slots
<1> QED
  BY <1>1, <1>2, <1>3, <1>4, <1>5 DEF Next

\* The bracket is an invariant of the search.
THEOREM AnswerIsNeverLost == Spec => []IInv
<1> QED
  BY InitGivesIInv, NextKeepsIInv, PTL DEF Spec

\* At the end the bracket is down to the answer.
LEMMA IInvGivesExactness == IInv => SearchIsExact
<1> SUFFICES ASSUME IInv, phase = "done" PROVE l = Answer
  BY DEF SearchIsExact
<1> QED
  BY SearchFacts DEF IInv

\* A search that ends has found the bound, whatever slot was predicted.
THEOREM SearchesAreExact == Spec => []SearchIsExact
BY IInvGivesExactness, AnswerIsNeverLost, PTL

\* Neither the doubling nor the halving leaves the array.
LEMMA IInvGivesReadsInArray == IInv => ReadsStayInArray
<1> SUFFICES ASSUME IInv PROVE ReadsStayInArray
  OBVIOUS
<1>1. ASSUME phase = "doubling", bound < size
      PROVE  (IF Beyond(m) THEN m - bound ELSE m + bound) \in Slots(node)
  BY <1>1, SearchFacts DEF size, Slots
<1>2. ASSUME phase = "halving", l < r
      PROVE  mid \in Slots(node)
  <2>1. /\ l \in Int /\ r \in Int /\ 0 <= l /\ r <= node.data_capacity_
    BY <1>2 DEF IInv
  <2> QED
    BY <1>2, <2>1, SearchFacts DEF mid, Slots
<1> QED
  BY <1>1, <1>2 DEF ReadsStayInArray

\* No search reads outside the array.
THEOREM SearchesStayInArray == Spec => []ReadsStayInArray
BY IInvGivesReadsInArray, AnswerIsNeverLost, PTL

-----------------------------------------------------------------------------
(* The placement.                                                          *)

\* A fresh array has a slot more than there are keys.
LEMMA FreshCapacity ==
    ASSUME NEW n \in Nat, NEW density \in Density
    PROVE  CapacityFor(n, density) \in Nat /\ CapacityFor(n, density) >= n + 1
<1>1. density \in Nat \ {0}
  BY PlacementBounds
<1>2. (10 * n) \div density \in Int
  BY <1>1
<1> QED
  BY <1>2 DEF CapacityFor, Larger

\* The ranks behind a set of slots to which all from pos on are added.
LEMMA RankBehind ==
    ASSUME NEW B, NEW last \in Int, last >= -1, \A b \in B : b \in 0 .. last,
           NEW pos \in Int, pos > last, NEW top \in Int, NEW j \in Int,
           last < j, j <= top + 1
    PROVE  /\ Cardinality(B) \in Nat
           /\ j <= pos => Rank(B \cup pos .. top, j) = Cardinality(B)
           /\ pos <= j => Rank(B \cup pos .. top, j) = Cardinality(B) + (j - pos)
<1>1. IsFiniteSet(B) /\ Cardinality(B) \in Nat
  <2>1. last + 1 \in Nat /\ \A b \in B : b \in 0 .. ((last + 1) - 1)
    OBVIOUS
  <2> QED
    BY <2>1, SetOfSlots
<1>2. CASE j <= pos
  <2>1. {i \in B \cup pos .. top : i < j} = B
    BY <1>2
  <2>2. pos <= j => j - pos = 0
    BY <1>2
  <2> QED
    BY <1>1, <2>1, <2>2 DEF Rank
<1>3. CASE pos < j
  <2>1. {i \in B \cup pos .. top : i < j} = B \cup pos .. (j - 1)
    BY <1>3
  <2>2. B \cap (pos .. (j - 1)) = {}
    OBVIOUS
  <2>3. IsFiniteSet(pos .. (j - 1)) /\ Cardinality(pos .. (j - 1)) = j - pos
    BY <1>3, FS_Interval
  <2>4. Cardinality(B \cup pos .. (j - 1)) = Cardinality(B) + (j - pos)
    <3>1. \A T : IsFiniteSet(T) /\ B \cap T = {} =>
              Cardinality(B \cup T) = Cardinality(B) + Cardinality(T) - Cardinality({})
      BY <1>1, FS_Union
    <3>2. Cardinality({}) = 0
      BY FS_EmptySet
    <3> QED
      BY <1>1, <2>2, <2>3, <3>1, <3>2
  <2>5. Rank(B \cup pos .. top, j) = Cardinality(B) + (j - pos)
    BY <2>1, <2>4, Zenon DEF Rank
  <2>6. ~(j <= pos)
    BY <1>3
  <2> QED
    BY <1>1, <2>5, <2>6
<1> QED
  BY <1>2, <1>3

-----------------------------------------------------------------------------
(* The inductive invariant.                                                *)

\* The keys laid out, the fresh array and the model.
Given ==
    /\ num_keys_ \in Nat
    /\ key_at \in [0 .. (num_keys_ - 1) -> Key]
    /\ \A a, b \in 0 .. (num_keys_ - 1) : a < b => key_at[a] <= key_at[b]
    /\ data_capacity_ \in Nat /\ data_capacity_ >= num_keys_ + 1
    /\ ~finished => \A k \in Key : predict[k] \in Int
    /\ finished \in BOOLEAN

\* The keys placed so far are in the slots up to the last, which is filled.
Prefix ==
    /\ placed \in 0 .. num_keys_
    /\ last_position \in -1 .. (data_capacity_ - 1)
    /\ RestFits
    /\ bitmap_ \subseteq 0 .. last_position
    /\ Cardinality(bitmap_) = placed
    /\ placed > 0 => last_position \in bitmap_
    /\ placed = 0 => last_position = -1

\* The slots written show the key of the next filled slot.
Shown ==
    key_slots_ =
        [j \in 0 .. (IF finished THEN data_capacity_ - 1 ELSE last_position) |->
            IF Rank(bitmap_, j) < placed THEN key_at[Rank(bitmap_, j)]
            ELSE kEndSentinel_]

\* Equal keys are side by side, and the next will be: the model has sent it no
\* further than the last.
Together ==
    /\ \A j \in bitmap_ :
           /\ Rank(bitmap_, j) + 1 < placed
           /\ key_at[Rank(bitmap_, j)] = key_at[Rank(bitmap_, j) + 1]
           => j + 1 \in bitmap_
    /\ 0 < placed /\ placed < num_keys_ =>
           predict[key_at[placed - 1]] <= last_position

PInv == Given /\ Prefix /\ Shown /\ Together /\ (finished => placed = num_keys_)

\* Nothing is placed yet.
LEMMA InitGivesPInv == InitPlacement => PInv
<1> SUFFICES ASSUME InitPlacement PROVE PInv
  OBVIOUS
<1>1. PICK n \in 0 .. MaxKeys, density \in Density :
          key_at \in Sorted(n) /\ data_capacity_ = CapacityFor(n, density)
  BY DEF InitPlacement
<1>2. n \in Nat
  BY <1>1, PlacementBounds
<1>3. num_keys_ = n
  <2>1. DOMAIN key_at = 0 .. (n - 1)
    BY <1>1 DEF Sorted
  <2> QED
    BY <1>2, <2>1, FS_Interval DEF num_keys_
<1>4. Given
  <2>1. \A k \in Key : predict[k] \in Int
    <3>1. /\ predict \in Predictions(data_capacity_)
          /\ data_capacity_ \in Int /\ Overshoot \in Int
      BY <1>1, <1>2, FreshCapacity, PlacementBounds DEF InitPlacement
    <3> QED
      BY <3>1 DEF Predictions
  <2>2. /\ key_at \in [0 .. (n - 1) -> Key]
        /\ \A a, b \in 0 .. (n - 1) : a < b => key_at[a] <= key_at[b]
    BY <1>1 DEF Sorted
  <2> QED
    BY <1>1, <1>2, <1>3, <2>1, <2>2, FreshCapacity DEF Given, InitPlacement
<1>5. Prefix
  BY <1>4, FS_EmptySet DEF Prefix, Given, RestFits, InitPlacement
<1>6. Shown
  <2>1. 0 .. -1 = {}
    OBVIOUS
  <2> QED
    BY <2>1 DEF Shown, InitPlacement
<1>7. Together /\ (finished => placed = num_keys_)
  BY DEF Together, InitPlacement
<1> QED
  BY <1>4, <1>5, <1>6, <1>7 DEF PInv

\* The element ranked last among those placed.
LEMMA LastIsRankedLast ==
    ASSUME Given, Prefix, NEW j \in bitmap_
    PROVE  /\ Rank(bitmap_, j) \in 0 .. (placed - 1)
           /\ Rank(bitmap_, j) + 1 = placed => j = last_position
<1>1. last_position + 1 \in Nat /\ \A b \in bitmap_ : b \in 0 .. ((last_position + 1) - 1)
  BY DEF Given, Prefix
<1>2. /\ Rank(bitmap_, j) \in 0 .. (placed - 1) /\ placed \in Nat
      /\ \A i \in 0 .. (last_position + 1) : j < i => Rank(bitmap_, j) < Rank(bitmap_, i)
  <2>1. placed \in Nat /\ Cardinality(bitmap_) = placed
    BY DEF Given, Prefix
  <2> QED
    BY <1>1, <2>1, RankOfElement
<1>3. ASSUME j # last_position PROVE Rank(bitmap_, j) + 1 # placed
  <2>1. last_position \in bitmap_
    <3>1. placed > 0
      BY <1>2
    <3> QED
      BY <3>1 DEF Prefix
  <2>2. Rank(bitmap_, last_position) \in 0 .. (placed - 1)
    BY <1>1, <2>1, RankOfElement DEF Prefix
  <2>3. j \in 0 .. last_position /\ last_position \in 0 .. (last_position + 1)
    BY <1>1, <2>1 DEF Given, Prefix
  <2>4. j < last_position
    BY <1>3, <2>3
  <2>5. Rank(bitmap_, j) < Rank(bitmap_, last_position)
    BY <1>2, <2>3, <2>4
  <2> QED
    BY <1>2, <2>2, <2>5
<1> QED
  BY <1>2, <1>3

\* What both steps do to the array: the slots from pos to top are filled with
\* the next keys, of which there are as many, and the gap before them shows the
\* first.  If the next key equals the one before it, pos is the next slot.
Extended(pos, top, L, B) ==
    /\ B = bitmap_ \cup pos .. top
    /\ DOMAIN L = 0 .. top
    /\ L = [j \in 0 .. top |->
               IF j <= last_position THEN key_slots_[j]
               ELSE IF j < pos THEN key_at[placed]
               ELSE key_at[placed + (j - pos)]]

\* The array up to top with n keys in it.
InOrder(top, L, B, n) ==
    /\ B \subseteq 0 .. top /\ top \in B /\ Cardinality(B) = n
    /\ L = [j \in 0 .. top |-> IF Rank(B, j) < n THEN key_at[Rank(B, j)]
                               ELSE kEndSentinel_]
    /\ \A j \in B :
           Rank(B, j) + 1 < n /\ key_at[Rank(B, j)] = key_at[Rank(B, j) + 1]
           => j + 1 \in B

\* The slots up to the next key placed stay in order.
LEMMA ExtensionKeepsOrder ==
    ASSUME PInv, ~finished, NEW pos \in Int, NEW top \in Int,
           pos > last_position, top >= pos, top < data_capacity_,
           NEW n \in Nat, n = placed + (top - pos + 1),
           0 < placed /\ key_at[placed - 1] = key_at[placed] => pos = last_position + 1,
           NEW L, NEW B, Extended(pos, top, L, B)
    PROVE  InOrder(top, L, B, n)
<1>1. /\ Given /\ Prefix /\ Shown /\ Together
      /\ placed \in Nat /\ last_position \in Int /\ last_position >= -1
      /\ \A b \in bitmap_ : b \in 0 .. last_position
      /\ Cardinality(bitmap_) = placed
  BY DEF PInv, Given, Prefix
<1>2. B = bitmap_ \cup pos .. top
  BY DEF Extended
<1>3. ASSUME NEW j \in Int, j <= last_position + 1
      PROVE  Rank(B, j) = Rank(bitmap_, j)
  <2>1. \A c \in pos .. top : ~(c < j)
    BY <1>1, <1>3
  <2>2. {i \in B : i < j} = {i \in bitmap_ : i < j}
    BY <1>2, <2>1
  <2> QED
    BY <2>2, Zenon DEF Rank
<1>4. ASSUME NEW j \in Int, last_position < j, j <= top + 1
      PROVE  /\ j <= pos => Rank(B, j) = placed
             /\ pos <= j => Rank(B, j) = placed + (j - pos)
  BY <1>1, <1>2, <1>4, RankBehind
<1>5. B \subseteq 0 .. top /\ top \in B
  BY <1>1, <1>2
<1>6. Cardinality(B) = n
  <2>1. Rank(B, top + 1) = placed + ((top + 1) - pos)
    BY <1>1, <1>4
  <2>2. {i \in B : i < top + 1} = B
    <3>1. \A b \in B : b < top + 1
      BY <1>5
    <3> QED
      BY <3>1, Zenon
  <2>3. Rank(B, top + 1) = Cardinality(B)
    BY <2>2, Zenon DEF Rank
  <2> QED
    BY <1>1, <2>1, <2>3
<1>7. ASSUME NEW j \in 0 .. last_position
      PROVE  Rank(bitmap_, j) \in 0 .. (placed - 1)
  <2>1. placed > 0 /\ last_position \in bitmap_
    BY <1>1, <1>7 DEF Prefix
  <2>2. /\ last_position + 1 \in Nat
        /\ \A b \in bitmap_ : b \in 0 .. ((last_position + 1) - 1)
        /\ j \in 0 .. (last_position + 1) /\ last_position \in 0 .. (last_position + 1)
    BY <1>1, <1>7
  <2>3. /\ Rank(bitmap_, last_position) \in 0 .. (placed - 1)
        /\ Rank(bitmap_, j) \in 0 .. placed
        /\ Rank(bitmap_, j) <= Rank(bitmap_, last_position)
    <3>1. j <= last_position
      BY <1>7
    <3> QED
      BY <1>1, <2>1, <2>2, <3>1, RankOfElement, RankFacts
  <2> QED
    BY <1>1, <2>3
<1>8. \A j \in 0 .. top : Rank(B, j) \in Nat /\ Rank(B, j) < n
  <2> SUFFICES ASSUME NEW j \in 0 .. top PROVE Rank(B, j) \in Nat /\ Rank(B, j) < n
    OBVIOUS
  <2>1. CASE j <= last_position
    BY <1>1, <1>3, <1>7, <2>1
  <2>2. CASE ~(j <= last_position)
    BY <1>1, <1>4, <2>2
  <2> QED
    BY <2>1, <2>2
<1>9. \A j \in 0 .. top : L[j] = key_at[Rank(B, j)]
  <2> SUFFICES ASSUME NEW j \in 0 .. top PROVE L[j] = key_at[Rank(B, j)]
    OBVIOUS
  <2>1. L[j] = IF j <= last_position THEN key_slots_[j]
               ELSE IF j < pos THEN key_at[placed]
               ELSE key_at[placed + (j - pos)]
    BY DEF Extended
  <2>2. CASE j <= last_position
    <3>1. Rank(B, j) = Rank(bitmap_, j) /\ Rank(bitmap_, j) < placed
      BY <1>1, <1>3, <1>7, <2>2
    <3>2. key_slots_[j] = key_at[Rank(bitmap_, j)]
      BY <1>1, <2>2, <3>1 DEF Shown
    <3> QED
      BY <2>1, <2>2, <3>1, <3>2
  <2>3. CASE ~(j <= last_position) /\ j < pos
    BY <1>1, <1>4, <2>1, <2>3
  <2>4. CASE ~(j <= last_position) /\ ~(j < pos)
    BY <1>1, <1>4, <2>1, <2>4
  <2> QED
    BY <2>2, <2>3, <2>4
<1>10. L = [j \in 0 .. top |-> IF Rank(B, j) < n THEN key_at[Rank(B, j)]
                               ELSE kEndSentinel_]
  <2>1. L = [j \in 0 .. top |-> L[j]]
    BY DEF Extended
  <2>2. \A j \in 0 .. top :
            L[j] = IF Rank(B, j) < n THEN key_at[Rank(B, j)] ELSE kEndSentinel_
    BY <1>8, <1>9
  <2> QED
    BY <2>1, <2>2
<1>11. ASSUME NEW j \in B, Rank(B, j) + 1 < n, key_at[Rank(B, j)] = key_at[Rank(B, j) + 1]
       PROVE  j + 1 \in B
  <2>1. CASE j \in bitmap_
    <3>1. j \in 0 .. last_position /\ Rank(B, j) = Rank(bitmap_, j)
      BY <1>1, <1>3, <2>1
    <3>2. Rank(bitmap_, j) \in 0 .. (placed - 1)
      BY <1>7, <3>1
    <3>3. CASE Rank(bitmap_, j) + 1 < placed
      BY <1>1, <1>2, <1>11, <2>1, <3>1, <3>3 DEF Together
    <3>4. CASE ~(Rank(bitmap_, j) + 1 < placed)
      <4>1. Rank(bitmap_, j) = placed - 1 /\ 0 < placed
        BY <1>1, <3>2, <3>4
      <4>2. j = last_position
        BY <1>1, <2>1, <4>1, LastIsRankedLast
      <4>3. key_at[placed - 1] = key_at[placed]
        BY <1>1, <1>11, <3>1, <4>1
      <4>4. pos = j + 1
        BY <4>1, <4>2, <4>3
      <4> QED
        BY <1>2, <4>4
    <3> QED
      BY <3>3, <3>4
  <2>2. CASE j \in pos .. top
    <3>1. Rank(B, j) = placed + (j - pos)
      BY <1>1, <1>4, <2>2
    <3>2. j + 1 \in pos .. top
      BY <1>1, <1>11, <2>2, <3>1
    <3> QED
      BY <1>2, <3>2
  <2> QED
    BY <1>2, <2>1, <2>2
<1> QED
  BY <1>5, <1>6, <1>10, <1>11, Zenon DEF InOrder

\* Where the next key goes.
LEMMA PositionFacts ==
    ASSUME PInv, placed < num_keys_
    PROVE  /\ key_at[placed] \in Key /\ position \in Int
           /\ position > last_position /\ predict[key_at[placed]] <= position
           /\ 0 < placed /\ key_at[placed - 1] = key_at[placed]
              => position = last_position + 1
           /\ keys_remaining = num_keys_ - placed /\ keys_remaining > 0
<1>1. /\ placed \in Nat /\ num_keys_ \in Nat /\ last_position \in Int
      /\ key_at[placed] \in Key /\ predict[key_at[placed]] \in Int
  BY DEF PInv, Given, Prefix
<1>2. /\ position \in Int /\ position > last_position
      /\ predict[key_at[placed]] <= position
      /\ predict[key_at[placed]] <= last_position => position = last_position + 1
  BY <1>1 DEF position, Larger
<1>3. 0 < placed => predict[key_at[placed - 1]] <= last_position
  BY DEF PInv, Together
<1> QED
  BY <1>1, <1>2, <1>3 DEF keys_remaining

\* Placing a key at or behind its prediction keeps the invariant.
LEMMA PlaceKeepsPInv == PInv /\ Place => PInv'
<1> SUFFICES ASSUME PInv, Place PROVE PInv'
  OBVIOUS
<1>1. /\ ~finished /\ placed < num_keys_ /\ Fits
      /\ key_slots_' = WrittenUpTo(position, key_at[placed])
      /\ bitmap_' = bitmap_ \cup {position}
      /\ last_position' = position /\ placed' = placed + 1
      /\ UNCHANGED <<key_at, predict, data_capacity_, finished>>
  BY DEF Place
<1>2. /\ Given /\ placed \in Nat /\ num_keys_ \in Nat /\ data_capacity_ \in Nat
      /\ last_position \in Int /\ last_position >= -1
      /\ position \in Int /\ position > last_position
      /\ data_capacity_ - position >= num_keys_ - placed
  BY <1>1, PositionFacts DEF PInv, Given, Prefix, Fits
<1>3. num_keys_' = num_keys_ /\ Given'
  BY <1>1, <1>2 DEF num_keys_, Given
<1>4. Extended(position, position, key_slots_', bitmap_')
  <2>1. position .. position = {position}
    BY <1>2
  <2>2. \A j \in 0 .. position : ~(j < position) => j - position = 0
    BY <1>2
  <2>3. placed + 0 = placed
    BY <1>2
  <2> QED
    BY <1>1, <2>1, <2>2, <2>3 DEF Extended, WrittenUpTo
<1>5. placed' = placed + (position - position + 1) /\ placed' \in Nat
  BY <1>1, <1>2
<1>6. InOrder(position, key_slots_', bitmap_', placed')
  <2>1. position < data_capacity_ /\ position >= position
    BY <1>1, <1>2
  <2> QED
    BY <1>1, <1>2, <1>4, <1>5, <2>1, PositionFacts, ExtensionKeepsOrder
<1>7. Prefix'
  BY <1>1, <1>2, <1>3, <1>6 DEF InOrder, Prefix, RestFits
<1>8. Shown'
  BY <1>1, <1>6 DEF InOrder, Shown
<1>9. Together'
  <2>1. predict[key_at[placed]] <= position /\ (placed + 1) - 1 = placed
    BY <1>1, <1>2, PositionFacts
  <2> QED
    BY <1>1, <1>6, <2>1 DEF InOrder, Together
<1> QED
  BY <1>1, <1>3, <1>7, <1>8, <1>9 DEF PInv

\* Packing the rest at the end keeps the invariant.
LEMMA PackingKeepsPInv == PInv /\ PackRest => PInv'
<1> SUFFICES ASSUME PInv, PackRest PROVE PInv'
  OBVIOUS
<1> DEFINE pos == data_capacity_ - keys_remaining
           top == data_capacity_ - 1
<1>1. /\ ~finished /\ placed < num_keys_ /\ ~Fits
      /\ key_slots_' = [j \in 0 .. top |->
                           IF j <= last_position THEN key_slots_[j]
                           ELSE IF j < pos THEN key_at[placed]
                           ELSE key_at[placed + (j - pos)]]
      /\ bitmap_' = bitmap_ \cup pos .. top
      /\ last_position' = top /\ placed' = num_keys_
      /\ UNCHANGED <<key_at, predict, data_capacity_, finished>>
  BY DEF PackRest
<1>2. /\ Given /\ placed \in Nat /\ num_keys_ \in Nat /\ data_capacity_ \in Nat
      /\ last_position \in Int /\ last_position >= -1 /\ position \in Int
      /\ keys_remaining = num_keys_ - placed /\ keys_remaining > 0
      /\ num_keys_ - placed <= data_capacity_ - 1 - last_position
      /\ ~(data_capacity_ - position >= keys_remaining)
  BY <1>1, PositionFacts DEF PInv, Given, Prefix, RestFits, Fits
<1>3. /\ pos \in Int /\ top \in Int /\ pos > last_position /\ top >= pos
      /\ top < data_capacity_ /\ placed + (top - pos + 1) = num_keys_
      /\ position > pos
  BY <1>2
<1>4. 0 < placed /\ key_at[placed - 1] = key_at[placed] => pos = last_position + 1
  BY <1>1, <1>2, <1>3, PositionFacts
<1>5. num_keys_' = num_keys_ /\ Given'
  BY <1>1, <1>2 DEF num_keys_, Given
<1> HIDE DEF pos, top
<1>6. Extended(pos, top, key_slots_', bitmap_')
  BY <1>1 DEF Extended
<1>7. InOrder(top, key_slots_', bitmap_', placed')
  <2>1. placed' = placed + (top - pos + 1) /\ placed' \in Nat
    BY <1>1, <1>2, <1>3
  <2> QED
    BY <1>1, <1>3, <1>4, <1>6, <2>1, ExtensionKeepsOrder
<1>8. Prefix'
  BY <1>1, <1>2, <1>5, <1>7 DEF InOrder, Prefix, RestFits, top
<1>9. Shown'
  BY <1>1, <1>7 DEF InOrder, Shown, top
<1>10. Together'
  <2>1. ~(placed' < num_keys_')
    BY <1>1, <1>2, <1>5
  <2> QED
    BY <1>1, <1>7, <2>1 DEF InOrder, Together
<1> QED
  BY <1>1, <1>5, <1>8, <1>9, <1>10 DEF PInv

\* Filling the gaps at the end keeps the invariant.
LEMMA FillingKeepsPInv == PInv /\ FillWithSentinel => PInv'
<1> SUFFICES ASSUME PInv, FillWithSentinel PROVE PInv'
  OBVIOUS
<1>1. /\ ~finished /\ placed = num_keys_ /\ finished' = TRUE
      /\ key_slots_' = WrittenUpTo(data_capacity_ - 1, kEndSentinel_)
      /\ UNCHANGED <<key_at, predict, data_capacity_, placed, last_position, bitmap_>>
  BY DEF FillWithSentinel
<1>2. /\ Given /\ Prefix /\ Shown /\ Together
      /\ placed \in Nat /\ data_capacity_ \in Nat
      /\ last_position \in Int /\ last_position >= -1
      /\ last_position < data_capacity_
      /\ \A b \in bitmap_ : b \in 0 .. last_position /\ Cardinality(bitmap_) = placed
  BY DEF PInv, Given, Prefix
<1>3. Given' /\ Prefix' /\ Together'
  BY <1>1, <1>2 DEF Given, Prefix, RestFits, Together, num_keys_
<1>4. Shown'
  <2> DEFINE Slot(j) == IF Rank(bitmap_, j) < placed THEN key_at[Rank(bitmap_, j)]
                        ELSE kEndSentinel_
  <2>1. key_slots_ = [j \in 0 .. last_position |-> Slot(j)]
    BY <1>1, <1>2 DEF Shown
  <2>2. ASSUME NEW j \in 0 .. (data_capacity_ - 1), ~(j <= last_position)
        PROVE  Slot(j) = kEndSentinel_
    <3>1. \A b \in bitmap_ : b < j
      BY <1>2, <2>2
    <3>2. {b \in bitmap_ : b < j} = bitmap_
      BY <3>1, Zenon
    <3>3. Cardinality({b \in bitmap_ : b < j}) = placed
      <4>1. Cardinality(bitmap_) = placed
        BY <1>2 DEF Prefix
      <4> QED
        BY <3>2, <4>1, Zenon
    <3>4. ~(Rank(bitmap_, j) < placed)
      BY <1>2, <3>3 DEF Rank
    <3> QED
      BY <3>4
  <2> HIDE DEF Slot
  <2>3. key_slots_' = [j \in 0 .. (data_capacity_ - 1) |-> Slot(j)]
    <3>1. key_slots_' = [j \in 0 .. (data_capacity_ - 1) |->
                            IF j <= last_position THEN key_slots_[j] ELSE kEndSentinel_]
      BY <1>1 DEF WrittenUpTo
    <3>2. \A j \in 0 .. (data_capacity_ - 1) :
              j <= last_position => key_slots_[j] = Slot(j)
      BY <1>2, <2>1
    <3> QED
      BY <2>2, <3>1, <3>2
  <2> QED
    BY <1>1, <2>3 DEF Shown, Slot
<1> QED
  BY <1>1, <1>3, <1>4 DEF PInv, num_keys_

\* So does every step.
LEMMA StepKeepsPInv == PInv /\ [NextPlacement]_placementVars => PInv'
<1>1. PInv /\ UNCHANGED placementVars => PInv'
  BY DEF placementVars, PInv, Given, Prefix, RestFits, Shown, Together, num_keys_
<1> QED
  BY <1>1, PlaceKeepsPInv, PackingKeepsPInv, FillingKeepsPInv DEF NextPlacement

\* PInv is an invariant of the placement.
LEMMA PInvIsInvariant == SpecPlacement => []PInv
BY InitGivesPInv, StepKeepsPInv, PTL DEF SpecPlacement

-----------------------------------------------------------------------------
(* What follows from it.                                                   *)

\* The loops of bulk_load, bulk_load_from_existing and resize write inside the
\* fresh array only, and every slot of it, whatever the model predicts.
LEMMA PInvGivesTypeOK == PInv => TypeOK
BY DEF PInv, Given, Prefix, Shown, TypeOK

\* The same as a property of the placement.
THEOREM PlacementStaysInArray == SpecPlacement => []TypeOK
BY PInvGivesTypeOK, PInvIsInvariant, PTL

\* The keys that are left always fit behind the last one placed: when the loop
\* packs them at the end of the array, it overwrites none.
LEMMA PInvGivesRestFits == PInv => RestFits
BY DEF PInv, Prefix

\* The same as a property of the placement.
THEOREM TheRestAlwaysFits == SpecPlacement => []RestFits
BY PInvGivesRestFits, PInvIsInvariant, PTL

\* The numbers below n are ranked by themselves.
LEMMA NthOfAll ==
    ASSUME NEW n \in Nat, NEW rank \in 0 .. (n - 1)
    PROVE  Nth(0 .. (n - 1), rank) = rank
<1> DEFINE S == 0 .. (n - 1)
<1>1. ASSUME NEW i \in 0 .. (n - 1) PROVE Rank(S, i) = i
  <2>1. {j \in S : j < i} = 0 .. (i - 1)
    BY <1>1
  <2>2. Cardinality(0 .. (i - 1)) = i
    BY <1>1, FS_Interval
  <2> QED
    BY <2>1, <2>2, Zenon DEF Rank
<1>2. Cardinality(S) = n
  BY FS_Interval
<1>3. rank \in 0 .. (Cardinality(S) - 1) /\ \A s \in S : s \in 0 .. (n - 1)
  BY <1>2
<1> HIDE DEF S
<1>4. Nth(S, rank) \in S /\ Rank(S, Nth(S, rank)) = rank
  BY <1>3, NthIsRanked
<1> QED
  BY <1>1, <1>4 DEF S

\* When it has ended.
LEMMA PInvGivesALayout == PInv => EndsWithALayout
<1>1. ASSUME PInv, finished
      PROVE  /\ bitmap_ \in Layouts(key_at, DOMAIN key_at, data_capacity_)
             /\ key_slots_ = LaidOutKeys(key_at, DOMAIN key_at, bitmap_, data_capacity_)
  <2> DEFINE n == num_keys_
             S == 0 .. (n - 1)
  <2>1. /\ n \in Nat /\ placed = n /\ DOMAIN key_at = S /\ Cardinality(S) = n
        /\ data_capacity_ \in Nat /\ Cardinality(bitmap_) = n
        /\ \A b \in bitmap_ : b \in 0 .. (data_capacity_ - 1)
    BY <1>1, FS_Interval DEF PInv, Given, Prefix
  <2>2. \A j \in 0 .. data_capacity_ : Rank(bitmap_, j) \in 0 .. n
    BY <2>1, RankFacts
  <2>3. \A rank \in 0 .. (n - 1) : Nth(S, rank) = rank
    BY <2>1, NthOfAll
  <2> HIDE DEF n, S
  <2>4. bitmap_ \in Layouts(key_at, S, data_capacity_)
    <3>1. bitmap_ \in kSubset(n, 0 .. (data_capacity_ - 1))
      BY <2>1 DEF kSubset
    <3>2. ASSUME NEW j \in bitmap_, Rank(bitmap_, j) + 1 < n,
                 key_at[Nth(S, Rank(bitmap_, j))] = key_at[Nth(S, Rank(bitmap_, j) + 1)]
          PROVE  j + 1 \in bitmap_
      <4>1. Rank(bitmap_, j) \in 0 .. n
        BY <2>1, <2>2
      <4>2. /\ Nth(S, Rank(bitmap_, j)) = Rank(bitmap_, j)
            /\ Nth(S, Rank(bitmap_, j) + 1) = Rank(bitmap_, j) + 1
        <5>1. /\ Rank(bitmap_, j) \in 0 .. (n - 1)
              /\ Rank(bitmap_, j) + 1 \in 0 .. (n - 1)
          BY <2>1, <3>2, <4>1
        <5> QED
          BY <2>3, <5>1
      <4> QED
        BY <1>1, <2>1, <3>2, <4>2 DEF PInv, Together
    <3> QED
      BY <2>1, <3>1, <3>2 DEF Layouts
  <2>5. key_slots_ = LaidOutKeys(key_at, S, bitmap_, data_capacity_)
    <3>1. key_slots_ = [j \in 0 .. (data_capacity_ - 1) |->
                           IF Rank(bitmap_, j) < n THEN key_at[Rank(bitmap_, j)]
                           ELSE kEndSentinel_]
      BY <1>1, <2>1 DEF PInv, Shown
    <3>2. ASSUME NEW j \in 0 .. (data_capacity_ - 1), Rank(bitmap_, j) < n
          PROVE  Nth(S, Rank(bitmap_, j)) = Rank(bitmap_, j)
      <4>1. Rank(bitmap_, j) \in 0 .. (n - 1)
        BY <2>1, <2>2, <3>2
      <4> QED
        BY <2>3, <4>1
    <3>3. LaidOutKeys(key_at, S, bitmap_, data_capacity_) =
              [j \in 0 .. (data_capacity_ - 1) |->
                  IF Rank(bitmap_, j) < n THEN key_at[Nth(S, Rank(bitmap_, j))]
                  ELSE kEndSentinel_]
      BY <2>1, Zenon DEF LaidOutKeys
    <3> QED
      BY <3>1, <3>2, <3>3
  <2> QED
    BY <2>1, <2>4, <2>5, Zenon
<1> QED
  BY <1>1, Zenon DEF EndsWithALayout

\* Whatever the model predicts, the loop ends with one of the layouts, and with
\* every gap showing the key of the next filled slot: what GappedArray takes
\* for the outcome of bulk_load and resize.
THEOREM PlacementEndsWithALayout == SpecPlacement => []EndsWithALayout
BY PInvGivesALayout, PInvIsInvariant, PTL

-----------------------------------------------------------------------------
(* The loops one after the other.                                          *)

Leaf == INSTANCE LeafIteratorsProofs
            WITH W <- word_bits, data_capacity_ <- capacity, bitmap_ <- words

\* The loops' invariants hold all the time: a search at rest has excluded
\* nothing, and a placement that is over has placed all its keys.
LoopInv ==
    /\ stage \in {"search", "placement", "scan"}
    /\ PInv
    /\ IInv
    /\ stage = "scan" => Leaf!IteratorInv

\* A search at rest: its array, of one gap, holds no key.
LEMMA RestGivesIInv == SearchAtRest => IInv
<1> SUFFICES ASSUME SearchAtRest PROVE IInv
  OBVIOUS
<1>1. /\ node = OneSlot /\ op = "lower_bound" /\ key \in Key
      /\ m = 0 /\ bound = 1 /\ l = 0 /\ r = 0
      /\ phase \in {"done", "doubling"}
  BY KeysExist DEF SearchAtRest
<1>2. /\ node.data_capacity_ = 1 /\ Slots(node) = {0}
      /\ node.key_slots_ = [j \in {0} |-> kEndSentinel_]
  BY <1>1 DEF OneSlot, Slots
<1>3. SortedArray(node)
  BY <1>2 DEF SortedArray, Ascending
<1>4. CASE phase = "doubling"
  <2>1. Starts
    BY <1>1, <1>2, <1>3, <1>4 DEF Starts
  <2> QED
    BY <2>1, StartGivesIInv
<1>5. CASE phase = "done"
  <2>1. Answer \in 0 .. 1 /\ (Beyond(0) <=> Answer <= 0)
    BY <1>1, <1>2, <1>3, AnswerSplits
  <2>2. Beyond(0)
    BY <1>1, <1>2, KeysAreIntegers DEF Beyond
  <2> QED
    BY <1>1, <1>2, <1>3, <1>5, <2>1, <2>2 DEF IInv
<1> QED
  BY <1>1, <1>4, <1>5

\* A placement that is over.
LEMMA OverGivesPInv == PlacementIsOver => PInv
<1> SUFFICES ASSUME PlacementIsOver PROVE PInv
  OBVIOUS
<1>1. /\ key_at = NoKeys /\ data_capacity_ = 1 /\ placed = 0 /\ last_position = -1
      /\ bitmap_ = {} /\ key_slots_ = OneSlot.key_slots_ /\ finished = TRUE
  BY DEF PlacementIsOver
<1>2. num_keys_ = 0
  BY <1>1, FS_EmptySet DEF num_keys_, NoKeys
<1>3. Given
  <2>1. 0 .. (num_keys_ - 1) = {}
    BY <1>2
  <2> QED
    BY <1>1, <1>2, <2>1 DEF Given, NoKeys
<1>4. Prefix
  BY <1>1, <1>2, FS_EmptySet DEF Prefix, RestFits
<1>5. Shown
  <2>1. Rank(bitmap_, 0) = 0
    <3>1. {b \in {} : b < 0} = {}
      OBVIOUS
    <3> QED
      BY <1>1, <3>1, FS_EmptySet DEF Rank
  <2>2. key_slots_ = [j \in 0 .. 0 |-> kEndSentinel_]
    BY <1>1 DEF OneSlot
  <2> QED
    BY <1>1, <2>1, <2>2 DEF Shown
<1>6. Together
  BY <1>1, <1>2 DEF Together
<1> QED
  BY <1>1, <1>2, <1>3, <1>4, <1>5, <1>6 DEF PInv

\* A fresh array is one that a search may run in.
LEMMA FreshArrayIsSorted ==
    ASSUME PInv, finished,
           NEW d, d = [data_capacity_ |-> data_capacity_, key_slots_ |-> key_slots_]
    PROVE  SortedArray(d)
<1> DEFINE S == 0 .. (num_keys_ - 1)
<1>1. /\ num_keys_ \in Nat /\ DOMAIN key_at = S
      /\ data_capacity_ \in Nat /\ data_capacity_ > 0
      /\ \A i \in S : key_at[i] \in Key
      /\ \A a, b \in S : a <= b => key_at[a] <= key_at[b]
  <2>1. /\ num_keys_ \in Nat /\ key_at \in [S -> Key]
        /\ data_capacity_ \in Nat /\ data_capacity_ >= num_keys_ + 1
        /\ \A a, b \in S : a < b => key_at[a] <= key_at[b]
    BY DEF PInv, Given
  <2>2. \A a \in S : key_at[a] \in Int
    BY <2>1, KeysAreIntegers
  <2> QED
    BY <2>1, <2>2
<1>2. /\ bitmap_ \in Layouts(key_at, S, data_capacity_)
      /\ key_slots_ = LaidOutKeys(key_at, S, bitmap_, data_capacity_)
  BY <1>1, PInvGivesALayout DEF EndsWithALayout
<1>3. /\ \A s \in bitmap_ : s \in 0 .. (data_capacity_ - 1)
      /\ Cardinality(bitmap_) = Cardinality(S)
  BY <1>1, <1>2, LayoutFacts
<1>4. ProperlyLaidOut(key_slots_, key_at, S, bitmap_, data_capacity_)
  <2>1. \A s \in S : s \in 0 .. (num_keys_ - 1)
    OBVIOUS
  <2> HIDE DEF S
  <2> QED
    BY <1>1, <1>2, <1>3, <2>1, LaidOutKeysFacts
<1>5. /\ key_slots_ \in [0 .. (data_capacity_ - 1) -> Key \cup {kEndSentinel_}]
      /\ \A i, j \in 0 .. (data_capacity_ - 1) : i < j => key_slots_[i] <= key_slots_[j]
  BY <1>1, <1>4 DEF ProperlyLaidOut
<1>6. d.data_capacity_ = data_capacity_ /\ d.key_slots_ = key_slots_
  OBVIOUS
<1> QED
  BY <1>1, <1>5, <1>6 DEF SortedArray, Ascending, Slots

\* The loops' names for the bitmap and the iterators are those of the scans.
LEMMA ScanIsOfLeaf ==
    /\ Leaf!ShapesAreSound /\ Leaf!NeighboursAreSound
    /\ Scan!InitIterators => Leaf!InitIterators
    /\ Scan!NextIterators => Leaf!NextIterators
    /\ Scan!MovesInOrder = Leaf!MovesInOrder
<1>1. Leaf!ShapesAreSound /\ Leaf!NeighboursAreSound
  BY ShapesAreArrays, NeighboursAreLeaves, Zenon DEF Scan!ShapesAreSound, Leaf!ShapesAreSound,
     Scan!NeighboursAreSound, Leaf!NeighboursAreSound, Scan!IsLeaf, Leaf!IsLeaf
<1>2. Scan!InitIterators => Leaf!InitIterators
  BY Zenon DEF Scan!InitIterators, Leaf!InitIterators, Scan!Init, Leaf!Init, Scan!Words, Leaf!Words,
     Scan!bitmap_size_, Leaf!bitmap_size_, Scan!NoIterator, Leaf!NoIterator
<1>3. /\ Scan!Words = Leaf!Words /\ Scan!Slots = Leaf!Slots
      /\ Scan!NoIterator = Leaf!NoIterator /\ Scan!None = Leaf!None
      /\ Scan!nullptr = Leaf!nullptr /\ Scan!vars = Leaf!vars
      /\ Scan!WordsWithKeys = Leaf!WordsWithKeys
      /\ \A S : Scan!Min(S) = Leaf!Min(S) /\ Scan!Max(S) = Leaf!Max(S)
  BY Zenon DEF Scan!Words, Leaf!Words, Scan!Slots, Leaf!Slots, Scan!bitmap_size_, Leaf!bitmap_size_,
     Scan!NoIterator, Leaf!NoIterator, Scan!None, Leaf!None, Scan!nullptr, Leaf!nullptr,
     Scan!vars, Leaf!vars, Scan!WordsWithKeys, Leaf!WordsWithKeys,
     Scan!bitmap_size_of, Leaf!bitmap_size_of, Scan!Min, Leaf!Min, Scan!Max, Leaf!Max
<1>4. \A S : Scan!FirstOf(S) = Leaf!FirstOf(S) /\ Scan!LastOf(S) = Leaf!LastOf(S)
  BY Zenon DEF Scan!FirstOf, Leaf!FirstOf, Scan!LastOf, Leaf!LastOf,
     Scan!Before, Leaf!Before, Scan!None, Leaf!None, Scan!nullptr, Leaf!nullptr
<1>5. \A way : Scan!Ended(way) = Leaf!Ended(way)
  BY <1>3, Zenon DEF Scan!Ended, Leaf!Ended
<1>6. \A way, word, data, bit : Scan!At(way, word, data, bit) = Leaf!At(way, word, data, bit)
  BY Zenon DEF Scan!At, Leaf!At
<1>7. \A i : Scan!advance(i) = Leaf!advance(i)
  BY <1>3, <1>4, <1>5, <1>6, Zenon DEF Scan!advance, Leaf!advance, Scan!WordOf, Leaf!WordOf,
     Scan!Before, Leaf!Before
<1>8. \A i : Scan!advance_back(i) = Leaf!advance_back(i)
  BY <1>3, <1>4, <1>5, <1>6, Zenon DEF Scan!advance_back, Leaf!advance_back,
     Scan!WordOf, Leaf!WordOf, Scan!Before, Leaf!Before
<1>9. \A leaf, idx : Scan!initialize(leaf, idx) = Leaf!initialize(leaf, idx)
  BY <1>5, <1>7, Zenon DEF Scan!initialize, Leaf!initialize, Scan!BitsFrom, Leaf!BitsFrom
<1>10. \A leaf, idx : Scan!initialize_back(leaf, idx) = Leaf!initialize_back(leaf, idx)
  BY <1>8, Zenon DEF Scan!initialize_back, Leaf!initialize_back
<1>11. \A leaf : Scan!FilledOf(leaf) = Leaf!FilledOf(leaf)
  BY Zenon DEF Scan!FilledOf, Leaf!FilledOf
<1>12. \A leaf, idx :
           Scan!find_last_no_greater_than(leaf, idx) = Leaf!find_last_no_greater_than(leaf, idx)
  BY <1>3, <1>9, <1>11, Zenon
     DEF Scan!find_last_no_greater_than, Leaf!find_last_no_greater_than
<1>13. Scan!Next => Leaf!Next
  BY <1>3, Zenon DEF Scan!Next, Leaf!Next, Scan!set_bit, Leaf!set_bit, Scan!unset_bit, Leaf!unset_bit
<1>14. Scan!Link => Leaf!Link
  BY Zenon DEF Scan!Link, Leaf!Link, Scan!vars, Leaf!vars
<1>15. Scan!Start => Leaf!Start
  BY <1>9, <1>10, <1>11, <1>12, Zenon DEF Scan!Start, Leaf!Start, Scan!LowerBound,
     Leaf!LowerBound, Scan!LastNoGreater, Leaf!LastNoGreater, Scan!rbegin, Leaf!rbegin, Scan!NoIterator, Leaf!NoIterator, Scan!vars, Leaf!vars
<1>16. Scan!Advance => Leaf!Advance
  BY <1>7, <1>8, Zenon DEF Scan!Advance, Leaf!Advance, Scan!IsOnKey, Leaf!IsOnKey, Scan!nullptr, Leaf!nullptr,
     Scan!NoIterator, Leaf!NoIterator, Scan!vars, Leaf!vars
<1>17. Scan!TurnRound => Leaf!TurnRound
  BY <1>9, <1>10, Zenon DEF Scan!TurnRound, Leaf!TurnRound, Scan!IsOnKey, Leaf!IsOnKey, Scan!nullptr, Leaf!nullptr,
     Scan!NoIterator, Leaf!NoIterator, Scan!vars, Leaf!vars
<1>18. Scan!NextIterators => Leaf!NextIterators
  BY <1>13, <1>14, <1>15, <1>16, <1>17, Zenon DEF Scan!NextIterators, Leaf!NextIterators
<1>19. Scan!KeySlots = Leaf!KeySlots
  BY Zenon DEF Scan!KeySlots, Leaf!KeySlots, Scan!FilledOf, Leaf!FilledOf
<1>20. /\ \A p : Scan!From(p) = Leaf!From(p) /\ Scan!UpTo(p) = Leaf!UpTo(p)
       /\ \A i : Scan!Stand(i) = Leaf!Stand(i)
  BY Zenon DEF Scan!From, Leaf!From, Scan!UpTo, Leaf!UpTo, Scan!KeySlots, Leaf!KeySlots,
     Scan!FilledOf, Leaf!FilledOf, Scan!Before, Leaf!Before, Scan!Stand, Leaf!Stand
<1>21. Scan!MovesInOrder = Leaf!MovesInOrder
  BY <1>3, <1>4, <1>19, <1>20 DEF Scan!MovesInOrder, Leaf!MovesInOrder
<1> QED
  BY <1>1, <1>2, <1>18, <1>21

\* At first.
LEMMA InitGivesLoopInv == InitLoops => LoopInv
<1> SUFFICES ASSUME InitLoops PROVE LoopInv
  OBVIOUS
<1>1. CASE stage = "search" /\ Init /\ PlacementIsOver
  BY <1>1, InitGivesIInv, OverGivesPInv DEF LoopInv
<1>2. CASE stage = "placement" /\ InitPlacement /\ SearchAtRest
  BY <1>2, InitGivesPInv, RestGivesIInv DEF LoopInv
<1>3. CASE stage = "scan" /\ Scan!InitIterators /\ SearchAtRest /\ PlacementIsOver
  <2>1. Leaf!IteratorInv
    BY <1>3, ScanIsOfLeaf, Leaf!InitGivesIteratorInv
  <2> QED
    BY <1>3, <2>1, RestGivesIInv, OverGivesPInv DEF LoopInv
<1> QED
  BY <1>1, <1>2, <1>3 DEF InitLoops

\* No step of a loop disturbs the others.
LEMMA NextKeepsLoopInv == LoopInv /\ [NextLoop]_allVars => LoopInv'
<1> SUFFICES ASSUME LoopInv, [NextLoop]_allVars PROVE LoopInv'
  OBVIOUS
<1>1. stage \in {"search", "placement", "scan"} /\ PInv /\ IInv
  BY DEF LoopInv
<1>2. UNCHANGED vars => IInv'
  BY <1>1, NextKeepsIInv
<1>3. UNCHANGED placementVars => PInv'
  BY <1>1, StepKeepsPInv
<1>4. CASE PlacementStep
  <2>1. stage = "placement" /\ NextPlacement /\ UNCHANGED <<stage, vars, scanVars>>
    BY <1>4 DEF PlacementStep
  <2>2. PInv'
    BY <1>1, <2>1, StepKeepsPInv
  <2> QED
    BY <1>2, <2>1, <2>2 DEF LoopInv
<1>5. CASE StartSearch
  <2>1. /\ finished /\ stage' = "search"
        /\ node' = [data_capacity_ |-> data_capacity_, key_slots_ |-> key_slots_]
        /\ op' \in {"upper_bound", "lower_bound"} /\ key' \in Key
        /\ m' \in 0 .. (data_capacity_ - 1)
        /\ phase' = "doubling" /\ bound' = 1 /\ l' = 0 /\ r' = 0
        /\ EndPlacement
    BY <1>5 DEF StartSearch
  <2>2. PInv'
    <3>1. PlacementIsOver'
      BY <2>1 DEF EndPlacement, PlacementIsOver, OneSlot, NoKeys
    <3>2. PlacementIsOver' => PInv'
      BY OverGivesPInv, PTL
    <3> QED
      BY <3>1, <3>2
  <2>3. IInv'
    <3>1. SortedArray(node')
      BY <1>1, <2>1, FreshArrayIsSorted
    <3>2. Starts'
      BY <2>1, <3>1 DEF Starts, SortedArray, Ascending, Slots
    <3>3. Starts' => IInv'
      BY StartGivesIInv, PTL
    <3> QED
      BY <3>2, <3>3
  <2> QED
    BY <2>1, <2>2, <2>3 DEF LoopInv
<1>6. CASE SearchStep
  <2>1. stage = "search" /\ Next /\ UNCHANGED <<stage, placementVars, scanVars>>
    BY <1>6 DEF SearchStep
  <2>2. IInv'
    BY <1>1, <2>1, NextKeepsIInv
  <2> QED
    BY <1>3, <2>1, <2>2 DEF LoopInv
<1>7. CASE ScanStep
  <2>1. stage = "scan" /\ Scan!NextIterators /\ UNCHANGED <<stage, vars, placementVars>>
    BY <1>7 DEF ScanStep
  <2>2. Leaf!IteratorInv
    BY <2>1 DEF LoopInv
  <2>3. Leaf!IteratorInv'
    BY <2>1, <2>2, ScanIsOfLeaf, Leaf!IteratorsMoveInOrder
  <2> QED
    BY <1>2, <1>3, <2>1, <2>3 DEF LoopInv
<1>8. CASE UNCHANGED allVars
  <2>1. UNCHANGED <<stage, vars, placementVars>> /\ UNCHANGED scanVars
    BY <1>8 DEF allVars
  <2>2. stage = "scan" => Leaf!IteratorInv'
    <3>1. UNCHANGED Leaf!iteratorVars
      BY <2>1 DEF scanVars, Leaf!iteratorVars, Leaf!vars
    <3> QED
      BY <3>1, Leaf!StutterKeepsIteratorInv DEF LoopInv
  <2> QED
    BY <1>2, <1>3, <2>1, <2>2 DEF LoopInv
<1> QED
  BY <1>4, <1>5, <1>6, <1>7, <1>8 DEF NextLoop

\* All through the loops.
LEMMA LoopInvIsInvariant == SpecLoops => []LoopInv
BY InitGivesLoopInv, NextKeepsLoopInv, PTL DEF SpecLoops

-----------------------------------------------------------------------------
(* What follows of the loops in sequence.                                  *)

\* A search keeps its answer within its bracket also in the array that a
\* placement has just laid out: what it starts from is sorted.
THEOREM AnswersAreNeverLost == SpecLoops => []IInv
<1>1. LoopInv => IInv
  BY DEF LoopInv
<1> QED
  BY <1>1, LoopInvIsInvariant, PTL

\* A search in a fresh array, or in any sorted one, ends with the exact bound.
THEOREM LoopsSearchExactly == SpecLoops => []SearchIsExact
BY AnswersAreNeverLost, IInvGivesExactness, PTL

\* Neither loop of a search reads outside such an array.
THEOREM LoopsReadInArray == SpecLoops => []ReadsStayInArray
BY AnswersAreNeverLost, IInvGivesReadsInArray, PTL

\* Placements have kept their invariant, whatever loops run before and after.
LEMMA PlacementsAreSound == SpecLoops => []PInv
<1>1. LoopInv => PInv
  BY DEF LoopInv
<1> QED
  BY <1>1, LoopInvIsInvariant, PTL

\* They write slots of the array only.
THEOREM LoopsWriteInArray == SpecLoops => []TypeOK
BY PlacementsAreSound, PInvGivesTypeOK, PTL

\* They always have room for the keys that are left.
THEOREM LoopsHaveRoom == SpecLoops => []RestFits
BY PlacementsAreSound, PInvGivesRestFits, PTL

\* They end with a layout.
THEOREM LoopsPlaceProperly == SpecLoops => []EndsWithALayout
BY PlacementsAreSound, PInvGivesALayout, PTL

\* What the scans answer is the same by either name.
LEMMA ScanPropertiesAreOfLeaf ==
    /\ Scan!TypeOK = Leaf!TypeOK
    /\ Scan!NextFilledIsFirst = Leaf!NextFilledIsFirst
    /\ Scan!ClosestGapIsClosest = Leaf!ClosestGapIsClosest
    /\ Scan!CountsRange = Leaf!CountsRange
<1>1. /\ Scan!Words = Leaf!Words /\ Scan!Slots = Leaf!Slots /\ Scan!Bits = Leaf!Bits
      /\ Scan!bitmap_size_ = Leaf!bitmap_size_
  BY Zenon DEF Scan!Words, Leaf!Words, Scan!Slots, Leaf!Slots, Scan!Bits, Leaf!Bits,
     Scan!bitmap_size_, Leaf!bitmap_size_
<1>2. /\ \A S : Scan!Min(S) = Leaf!Min(S)
      /\ \A S : Scan!Max(S) = Leaf!Max(S)
      /\ \A S : Scan!Cardinality(S) = Leaf!Cardinality(S)
  BY Zenon DEF Scan!Min, Leaf!Min, Scan!Max, Leaf!Max, Scan!Cardinality, Leaf!Cardinality
<1>3. Scan!Filled = Leaf!Filled
  BY Zenon DEF Scan!Filled, Leaf!Filled, Scan!Slots, Leaf!Slots, Scan!check_exists, Leaf!check_exists
<1>4. \A word, bit : Scan!BitsFrom(word, bit) = Leaf!BitsFrom(word, bit)
  BY Zenon DEF Scan!BitsFrom, Leaf!BitsFrom
<1>5. \A word, bit : Scan!BitsBefore(word, bit) = Leaf!BitsBefore(word, bit)
  BY Zenon DEF Scan!BitsBefore, Leaf!BitsBefore
<1>6. \A w : Scan!Read(w) = Leaf!Read(w)
  BY <1>1, Zenon DEF Scan!Read, Leaf!Read
<1>7. Scan!TypeOK = Leaf!TypeOK
  BY <1>1, Zenon DEF Scan!TypeOK, Leaf!TypeOK
<1>8. \A pos, exclusive : Scan!get_next_filled_position(pos, exclusive) =
                          Leaf!get_next_filled_position(pos, exclusive)
  BY Zenon DEF Scan!get_next_filled_position, Leaf!get_next_filled_position,
     Scan!BitsFrom, Leaf!BitsFrom, Scan!Read, Leaf!Read, Scan!Words, Leaf!Words,
     Scan!Bits, Leaf!Bits, Scan!bitmap_size_, Leaf!bitmap_size_, Scan!Min, Leaf!Min
<1>9. Scan!NextFilledIsFirst = Leaf!NextFilledIsFirst
  BY Zenon DEF Scan!NextFilledIsFirst, Leaf!NextFilledIsFirst,
     Scan!get_next_filled_position, Leaf!get_next_filled_position, Scan!BitsFrom,
     Leaf!BitsFrom, Scan!Read, Leaf!Read, Scan!Min, Leaf!Min, Scan!Filled,
     Leaf!Filled, Scan!check_exists, Leaf!check_exists, Scan!Words, Leaf!Words,
     Scan!bitmap_size_, Leaf!bitmap_size_, Scan!Bits, Leaf!Bits, Scan!Slots,
     Leaf!Slots
<1>10. \A w : Scan!Zeros(w) = Leaf!Zeros(w)
  BY <1>1, Zenon DEF Scan!Zeros, Leaf!Zeros
<1>11. \A w : /\ Scan!HasZero(w) = Leaf!HasZero(w)
              /\ Scan!FirstZero(w) = Leaf!FirstZero(w)
              /\ Scan!LastZero(w) = Leaf!LastZero(w)
  BY <1>2, <1>10, Zenon DEF Scan!HasZero, Leaf!HasZero, Scan!FirstZero, Leaf!FirstZero,
     Scan!LastZero, Leaf!LastZero
<1>12. \A pos, left, right : Scan!Nearer(pos, left, right) = Leaf!Nearer(pos, left, right)
  BY Zenon DEF Scan!Nearer, Leaf!Nearer
<1>13. \A pos : Scan!GapInWord(pos) = Leaf!GapInWord(pos)
  BY Zenon DEF Scan!GapInWord, Leaf!GapInWord, Scan!Zeros, Leaf!Zeros, Scan!HasZero,
     Leaf!HasZero, Scan!FirstZero, Leaf!FirstZero, Scan!LastZero, Leaf!LastZero,
     Scan!Min, Leaf!Min, Scan!Max, Leaf!Max, Scan!Words, Leaf!Words,
     Scan!bitmap_size_, Leaf!bitmap_size_, Scan!Bits, Leaf!Bits, Scan!Slots,
     Leaf!Slots
<1>14. \A pos, d : Scan!GapInWordsAt(pos, d) = Leaf!GapInWordsAt(pos, d)
  <2> SUFFICES ASSUME NEW pos, NEW d PROVE Scan!GapInWordsAt(pos, d) = Leaf!GapInWordsAt(pos, d)
    OBVIOUS
  <2> QED
    BY <1>1, <1>11, <1>12, SMT DEF Scan!GapInWordsAt, Leaf!GapInWordsAt
<1>15. \A w, distance : Scan!GapOnOneSide(w, distance) = Leaf!GapOnOneSide(w, distance)
  BY <1>1, <1>2, <1>11, Zenon DEF Scan!GapOnOneSide, Leaf!GapOnOneSide
<1>16. \A p : Scan!closest_gap(p) = Leaf!closest_gap(p)
  <2> SUFFICES ASSUME NEW p PROVE Scan!closest_gap(p) = Leaf!closest_gap(p)
    OBVIOUS
  <2> DEFINE pos == IF p < capacity THEN p ELSE capacity - 1
             w == pos \div word_bits
             scan == {d \in 1 .. Scan!Min({w, Scan!bitmap_size_ - 1 - w}) :
                        \/ Scan!HasZero(w - d)
                        \/ Scan!HasZero(w + d) /\ Scan!FirstZero(w + d) < capacity}
             leaf == {d \in 1 .. Leaf!Min({w, Leaf!bitmap_size_ - 1 - w}) :
                        \/ Leaf!HasZero(w - d)
                        \/ Leaf!HasZero(w + d) /\ Leaf!FirstZero(w + d) < capacity}
  <2>1. scan = leaf
    BY <1>1, <1>2, <1>11
  <2>2. Scan!closest_gap(p) =
            IF ~( \/ ~Scan!HasZero(w)
                \/ /\ w = Scan!bitmap_size_ - 1
                   /\ Scan!Cardinality(words[w]) =
                          capacity - (Scan!bitmap_size_ - 1) * word_bits)
             THEN Scan!GapInWord(pos)
             ELSE IF scan # {} THEN Scan!GapInWordsAt(pos, Scan!Min(scan))
             ELSE Scan!GapOnOneSide(w, Scan!Min({w, Scan!bitmap_size_ - 1 - w}) + 1)
    BY Zenon DEF Scan!closest_gap
  <2>3. Leaf!closest_gap(p) =
            IF ~( \/ ~Leaf!HasZero(w)
                \/ /\ w = Leaf!bitmap_size_ - 1
                   /\ Leaf!Cardinality(words[w]) =
                          capacity - (Leaf!bitmap_size_ - 1) * word_bits)
             THEN Leaf!GapInWord(pos)
             ELSE IF leaf # {} THEN Leaf!GapInWordsAt(pos, Leaf!Min(leaf))
             ELSE Leaf!GapOnOneSide(w, Leaf!Min({w, Leaf!bitmap_size_ - 1 - w}) + 1)
    BY Zenon DEF Leaf!closest_gap
  <2> HIDE DEF scan, leaf, w, pos
  <2> QED
    BY <1>1, <1>2, <1>11, <1>13, <1>14, <1>15, <2>1, <2>2, <2>3
<1>17. Scan!ClosestGapIsClosest = Leaf!ClosestGapIsClosest
  BY <1>1, <1>3, <1>16, Zenon DEF Scan!ClosestGapIsClosest, Leaf!ClosestGapIsClosest
<1>18. Scan!CountsRange = Leaf!CountsRange
  BY Zenon DEF Scan!CountsRange, Leaf!CountsRange, Scan!Slots, Leaf!Slots, Scan!Bits, Leaf!Bits,
     Scan!Words, Leaf!Words, Scan!bitmap_size_, Leaf!bitmap_size_,
     Scan!num_keys_in_range, Leaf!num_keys_in_range, Scan!Filled, Leaf!Filled,
     Scan!check_exists, Leaf!check_exists, Scan!BitsFrom, Leaf!BitsFrom,
     Scan!BitsBefore, Leaf!BitsBefore, Scan!Read, Leaf!Read,
     Scan!MapThenSumSet, Leaf!MapThenSumSet, Scan!MapThenFoldSet, Leaf!MapThenFoldSet,
     Scan!Cardinality, Leaf!Cardinality
<1> QED
  BY <1>7, <1>9, <1>17, <1>18

\* In the stage of the scans only bits of slots are ever one.
THEOREM ScannedWordsStayWellFormed == SpecLoops => []ScanTypeOK
<1>1. LoopInv => ScanTypeOK
  BY ScanPropertiesAreOfLeaf DEF LoopInv, ScanTypeOK, Leaf!IteratorInv, Leaf!Sound
<1> QED
  BY <1>1, LoopInvIsInvariant, PTL

\* The scan for the next filled slot finds the first one from a position on,
\* over empty words.
THEOREM ScansFindNextFilled == SpecLoops => []NextFilledIsFirst
<1>1. LoopInv => NextFilledIsFirst
  BY ScanPropertiesAreOfLeaf, Leaf!NextFilledInSound DEF LoopInv, NextFilledIsFirst, Leaf!IteratorInv
<1> QED
  BY <1>1, LoopInvIsInvariant, PTL

\* The scan for a gap finds a closest one, comparing words from the middle
\* outwards.
THEOREM ScansFindClosestGap == SpecLoops => []ClosestGapIsClosest
<1>1. LoopInv => ClosestGapIsClosest
  BY ScanPropertiesAreOfLeaf, Leaf!ClosestGapInSound DEF LoopInv, ClosestGapIsClosest, Leaf!IteratorInv
<1> QED
  BY <1>1, LoopInvIsInvariant, PTL

\* The scan that counts the keys of a range counts those of exactly its slots.
THEOREM ScansCountRange == SpecLoops => []CountsRange
<1>1. LoopInv => CountsRange
  BY ScanPropertiesAreOfLeaf, Leaf!CountsInSound DEF LoopInv, CountsRange, Leaf!IteratorInv
<1> QED
  BY <1>1, LoopInvIsInvariant, PTL

\* Iterators of either way pass over no key and stop at nothing else, from word
\* to word and from leaf to leaf, wherever they start and however often they are
\* turned round.
THEOREM IteratorsPassOverNoKey == SpecLoops => IteratesInOrder
<1>1. LoopInv /\ [NextLoop]_allVars => [Scan!MovesInOrder]_it
  <2> SUFFICES ASSUME LoopInv, [NextLoop]_allVars, it' # it PROVE Scan!MovesInOrder
    OBVIOUS
  <2>1. ScanStep
    BY DEF NextLoop, allVars, scanVars, PlacementStep, StartSearch, SearchStep
  <2>2. stage = "scan" /\ Scan!NextIterators
    BY <2>1 DEF ScanStep
  <2>3. Leaf!IteratorInv /\ Leaf!NextIterators
    BY <2>2, ScanIsOfLeaf DEF LoopInv
  <2>4. Leaf!MovesInOrder
    BY <2>3, ScanIsOfLeaf, Leaf!IteratorsMoveInOrder
  <2> QED
    BY <2>4, ScanIsOfLeaf
<1> QED
  BY <1>1, LoopInvIsInvariant, PTL DEF SpecLoops, IteratesInOrder, Scan!IteratesInOrder
=============================================================================
