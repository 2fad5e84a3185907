------------------------- MODULE LeafIteratorsProofs -------------------------
(***************************************************************************)
(* Theorems about the bitmap of a leaf and the iterators over leaves, for  *)
(* all shapes of bitmaps and chains: the scans of a bitmap find the slots  *)
(* that its bits say, and iterators visit the keys in order.               *)
(***************************************************************************)
EXTENDS LeafIterators, FiniteSetTheorems, FunctionTheorems, SequenceTheorems, TLAPS

\* Slots by word and bit.
LEMMA WordAndBit ==
    ASSUME NEW n \in Nat, n > 0, NEW x \in Nat
    PROVE  /\ x \div n \in Nat /\ x % n \in 0 .. (n - 1)
           /\ x = (x \div n) * n + (x % n)
OBVIOUS

\* Bits of an earlier word come before those of a later one.
LEMMA WordsInOrder ==
    ASSUME NEW n \in Nat, n > 0, NEW u \in Nat, NEW v \in Nat,
           NEW a \in 0 .. (n - 1), NEW b \in 0 .. (n - 1)
    PROVE  /\ u < v => u * n + a < v * n + b
           /\ u = v /\ a <= b => u * n + a <= v * n + b
           /\ u * n + a = v * n + b => u = v /\ a = b
           /\ u * n + a \in Nat
<1>1. u * n \in Nat /\ v * n \in Nat
  OBVIOUS
<1>2. ASSUME u < v PROVE u * n + n <= v * n
  <2>1. (v - u) * n >= 1 * n
    BY <1>2
  <2>2. (v - u) * n = v * n - u * n
    OBVIOUS
  <2> QED
    BY <1>1, <2>1, <2>2
<1>3. ASSUME v < u PROVE v * n + n <= u * n
  <2>1. (u - v) * n >= 1 * n
    BY <1>3
  <2>2. (u - v) * n = u * n - v * n
    OBVIOUS
  <2> QED
    BY <1>1, <2>1, <2>2
<1>4. u < v \/ v < u \/ u = v
  OBVIOUS
<1>5. u = v => u * n = v * n
  OBVIOUS
<1> DEFINE un == u * n
           vn == v * n
<1>6. un \in Nat /\ vn \in Nat
  BY <1>1
<1>7. (u < v => un + n <= vn) /\ (v < u => vn + n <= un) /\ (u = v => un = vn)
  BY <1>2, <1>3, <1>5
<1> HIDE DEF un, vn
<1>8. /\ u < v => un + a < vn + b
      /\ u = v /\ a <= b => un + a <= vn + b
      /\ un + a = vn + b => u = v /\ a = b
      /\ un + a \in Nat
  BY <1>4, <1>6, <1>7
<1> QED
  BY <1>8 DEF un, vn

\* Bit b of word v belongs to word v, at b.
LEMMA WordOfSlot ==
    ASSUME NEW n \in Nat, n > 0, NEW v \in Nat, NEW b \in 0 .. (n - 1)
    PROVE  (v * n + b) \div n = v /\ (v * n + b) % n = b
<1> DEFINE x == v * n + b
<1>1. x \in Nat
  BY WordsInOrder
<1>2. x \div n \in Nat /\ x % n \in 0 .. (n - 1) /\ x = (x \div n) * n + (x % n)
  BY <1>1, WordAndBit
<1>3. (x \div n) * n + (x % n) = v * n + b
  BY <1>2
<1>4. \A q \in Nat, r \in 0 .. (n - 1) : q * n + r = v * n + b => q = v /\ r = b
  BY WordsInOrder
<1> HIDE DEF x
<1>5. x \div n = v /\ x % n = b
  BY <1>2, <1>3, <1>4
<1> QED
  BY <1>5 DEF x

\* The least and the greatest of a finite set of natural numbers.
LEMMA LeastOfNaturals ==
    ASSUME NEW S \in SUBSET Nat, S # {}
    PROVE  Min(S) \in S /\ \A i \in S : Min(S) <= i
<1>1. PICK m \in S : \A i \in S : ~(<<i, m>> \in OpToRel(<, Nat))
  BY NatLessThanWellFounded, WFMin
<1>2. \A i \in S : m <= i
  <2> SUFFICES ASSUME NEW i \in S, i < m PROVE FALSE
    OBVIOUS
  <2>1. i \in Nat /\ m \in Nat
    OBVIOUS
  <2>2. <<i, m>> \in OpToRel(<, Nat)
    BY <2>1 DEF OpToRel
  <2> QED
    BY <1>1, <2>2
<1> QED
  BY <1>2 DEF Min

-----------------------------------------------------------------------------
(* The words.                                                              *)

\* A leaf as the calls leave it.
Sound ==
    /\ W \in Nat /\ W > 0 /\ W % 2 = 0
    /\ data_capacity_ \in Nat /\ data_capacity_ > 0
    /\ TypeOK

\* There are as many words as the slots need.
LEMMA SizeFacts ==
    ASSUME NEW n \in Nat, n > 0, NEW cap \in Nat, cap > 0,
           NEW size, size = (cap + n - 1) \div n
    PROVE  /\ size \in Nat /\ size > 0
           /\ \A w \in Nat : w \in 0 .. (size - 1) <=> w * n < cap
           /\ \A pos \in 0 .. (cap - 1) :
                  pos \div n \in 0 .. (size - 1) /\ pos % n \in 0 .. (n - 1)
<1> DEFINE x == cap + n - 1
<1>1. x \in Nat
  OBVIOUS
<1>2. size \in Nat /\ x % n \in 0 .. (n - 1) /\ x = size * n + (x % n)
  BY <1>1, WordAndBit
<1>3. size * n \in Nat /\ size * n <= x /\ x < size * n + n
  BY <1>1, <1>2
<1>4. ASSUME NEW w \in Nat PROVE w < size <=> w * n < cap
  <2>1. w * n \in Nat
    OBVIOUS
  <2>2. ASSUME w < size PROVE w * n + n <= size * n
    <3>1. (size - w) * n >= 1 * n
      BY <1>2, <2>2
    <3>2. (size - w) * n = size * n - w * n
      BY <1>2
    <3> QED
      BY <1>3, <2>1, <3>1, <3>2
  <2>3. ASSUME size <= w PROVE size * n <= w * n
    <3>1. (w - size) * n >= 0
      BY <1>2, <2>3
    <3>2. (w - size) * n = w * n - size * n
      BY <1>2
    <3> QED
      BY <1>3, <2>1, <3>1, <3>2
  <2> QED
    BY <1>2, <1>3, <2>1, <2>2, <2>3
<1>5. size > 0
  <2>1. 0 * n = 0
    OBVIOUS
  <2> QED
    BY <1>2, <1>4, <2>1
<1>6. ASSUME NEW pos \in 0 .. (cap - 1)
      PROVE  pos \div n \in 0 .. (size - 1) /\ pos % n \in 0 .. (n - 1)
  <2>1. pos \in Nat /\ pos < cap
    OBVIOUS
  <2>2. /\ pos \div n \in Nat /\ pos % n \in 0 .. (n - 1)
        /\ pos = (pos \div n) * n + (pos % n)
    BY <2>1, WordAndBit
  <2>3. (pos \div n) * n \in Nat
    BY <2>2
  <2>4. (pos \div n) * n < cap
    BY <2>1, <2>2, <2>3
  <2> QED
    BY <1>2, <1>4, <2>2, <2>4
<1> QED
  BY <1>2, <1>4, <1>5, <1>6

\* So it is of the leaf.
LEMMA WordFacts ==
    ASSUME Sound
    PROVE  /\ bitmap_size_ \in Nat /\ bitmap_size_ > 0
           /\ \A w \in Nat : w \in Words <=> w * W < data_capacity_
           /\ \A pos \in Slots : pos \div W \in Words /\ pos % W \in Bits
           /\ \A w \in Words, b \in Bits : w * W + b \in Nat
<1>1. /\ W \in Nat /\ W > 0 /\ data_capacity_ \in Nat /\ data_capacity_ > 0
      /\ bitmap_size_ = (data_capacity_ + W - 1) \div W
  BY DEF Sound, bitmap_size_
<1>2. /\ bitmap_size_ \in Nat /\ bitmap_size_ > 0
      /\ \A w \in Nat : w \in Words <=> w * W < data_capacity_
      /\ \A pos \in Slots : pos \div W \in Words /\ pos % W \in Bits
  BY <1>1, SizeFacts, Zenon DEF Words, Slots, Bits
<1>3. \A w \in Words : w \in Nat
  BY <1>2 DEF Words
<1>4. \A w \in Words, b \in Bits : w * W + b \in Nat
  BY <1>1, <1>3, WordsInOrder DEF Bits
<1> QED
  BY <1>2, <1>4

\* Setting and clearing a bit of a slot, and the scans, keep the words sound.
LEMMA NextKeepsSound == Sound /\ [Next]_vars => Sound'
<1> SUFFICES ASSUME Sound, [Next]_vars PROVE Sound'
  OBVIOUS
<1>1. CASE UNCHANGED vars
  BY <1>1 DEF vars, Sound, TypeOK, Words, Bits, Slots, bitmap_size_
<1>2. ASSUME NEW pos \in Slots, NEW bits, bits = bitmap_[pos \div W] \cup {pos % W}
                                          \/ bits = bitmap_[pos \div W] \ {pos % W},
             bitmap_' = [bitmap_ EXCEPT ![pos \div W] = bits],
             UNCHANGED <<W, data_capacity_>>
      PROVE  Sound'
  <2>1. /\ W \in Nat /\ W > 0 /\ W % 2 = 0
        /\ data_capacity_ \in Nat /\ data_capacity_ > 0
        /\ <<W, data_capacity_>> \in Shape
        /\ bitmap_ \in [Words -> SUBSET Bits]
        /\ \A w \in Words : \A b \in bitmap_[w] : w * W + b \in Slots
    BY DEF Sound, TypeOK
  <2>2. pos \div W \in Words /\ pos % W \in Bits
    BY WordFacts
  <2>3. pos = (pos \div W) * W + (pos % W)
    BY <2>1, WordAndBit DEF Slots
  <2>4. Words' = Words /\ Bits' = Bits /\ Slots' = Slots
    BY <1>2 DEF Words, Bits, Slots, bitmap_size_
  <2>5. bitmap_' \in [Words -> SUBSET Bits]
    <3>1. bits \in SUBSET Bits
      BY <1>2, <2>1, <2>2
    <3> QED
      BY <1>2, <2>1, <3>1
  <2>6. ASSUME NEW w \in Words, NEW b \in bitmap_'[w]
        PROVE  w * W + b \in Slots
    <3>1. w # pos \div W => bitmap_'[w] = bitmap_[w]
      BY <1>2, <2>1
    <3>2. w = pos \div W => bitmap_'[w] = bits
      BY <1>2, <2>1
    <3>3. b \in bitmap_[w] \/ (w = pos \div W /\ b = pos % W)
      BY <1>2, <2>6, <3>1, <3>2
    <3>4. w = pos \div W /\ b = pos % W => w * W + b = pos
      BY <2>3
    <3> QED
      BY <2>1, <3>3, <3>4
  <2>7. TypeOK'
    BY <1>2, <2>1, <2>4, <2>5, <2>6 DEF TypeOK
  <2> QED
    BY <1>2, <2>1, <2>7 DEF Sound
<1>3. CASE Next
  <2>1. PICK pos \in Slots : set_bit(pos) \/ unset_bit(pos)
    BY <1>3 DEF Next
  <2>2. CASE set_bit(pos)
    BY <1>2, <2>2 DEF set_bit
  <2>3. CASE unset_bit(pos)
    BY <1>2, <2>3 DEF unset_bit
  <2> QED
    BY <2>1, <2>2, <2>3
<1> QED
  BY <1>1, <1>3

\* The words of a new bitmap hold bits of slots only.
LEMMA InitIsSound == ASSUME ShapesAreSound PROVE Init => Sound
<1> SUFFICES ASSUME Init PROVE Sound
  OBVIOUS
<1>1. PICK shape \in Shape : W = shape[1] /\ data_capacity_ = shape[2]
  BY DEF Init
<1>2. /\ shape \in (Nat \ {0}) \X (Nat \ {0}) /\ shape[1] % 2 = 0
  BY DEF ShapesAreSound
<1>3. <<W, data_capacity_>> \in Shape
  BY <1>1, <1>2
<1>4. bitmap_ = [w \in Words |-> {}]
  BY DEF Init
<1> QED
  BY <1>1, <1>2, <1>3, <1>4 DEF Sound, TypeOK

\* Sound is an invariant.
LEMMA SoundIsInvariant == ASSUME ShapesAreSound PROVE Spec => []Sound
<1>1. Init => Sound
  BY InitIsSound
<1>2. Sound /\ [Next]_vars => Sound'
  BY NextKeepsSound
<1> QED
  BY <1>1, <1>2, PTL DEF Spec

\* The words stay such that only bits of slots are ever one: what all the scans
\* take for granted of the last word (set_bit and unset_bit,
\* alex_nodes.h 661-682).
THEOREM WordsStayWellFormed == ASSUME ShapesAreSound PROVE Spec => []TypeOK
<1>1. Sound => TypeOK
  BY DEF Sound
<1> QED
  BY <1>1, SoundIsInvariant, PTL

-----------------------------------------------------------------------------
(* The first filled slot.                                                  *)

\* The filled slots are those of the bits that are one.
LEMMA FilledFacts ==
    ASSUME Sound
    PROVE  /\ \A w \in Words, b \in Bits :
                  w * W + b \in Filled <=> b \in bitmap_[w]
           /\ \A f \in Filled : /\ f \div W \in Words /\ f % W \in Bits
                                /\ f % W \in bitmap_[f \div W]
                                /\ f = (f \div W) * W + (f % W)
           /\ Filled \in SUBSET Nat
<1>1. /\ W \in Nat /\ W > 0 /\ data_capacity_ \in Nat /\ TypeOK
      /\ Words \in SUBSET Nat
  BY WordFacts DEF Sound, Words
<1>2. ASSUME NEW w \in Words, NEW b \in Bits
      PROVE  w * W + b \in Filled <=> b \in bitmap_[w]
  <2>1. (w * W + b) \div W = w /\ (w * W + b) % W = b
    BY <1>1, WordOfSlot DEF Bits
  <2>2. w * W + b \in Filled <=> w * W + b \in Slots /\ b \in bitmap_[w]
    BY <2>1, Zenon DEF Filled, check_exists
  <2> QED
    BY <1>1, <2>2 DEF TypeOK
<1>3. ASSUME NEW f \in Filled
      PROVE  /\ f \div W \in Words /\ f % W \in Bits /\ f \in Nat
             /\ f % W \in bitmap_[f \div W] /\ f = (f \div W) * W + (f % W)
  <2>1. f \in Slots /\ f % W \in bitmap_[f \div W] /\ f \in Nat
    BY <1>1 DEF Filled, check_exists, Slots
  <2> QED
    BY <1>1, <2>1, WordFacts, WordAndBit
<1> QED
  BY <1>2, <1>3

\* The filled slots from a slot on.
FilledFrom(from) == {f \in Filled : f >= from}

LaterWords(w) == {v \in Words : v > w /\ bitmap_[v] # {}}

\* The least of the filled slots from a position on, found word by word.
LEMMA FirstFilledFrom ==
    ASSUME Sound, NEW from \in Slots
    PROVE  /\ BitsFrom(bitmap_[from \div W], from % W) # {} =>
                  /\ FilledFrom(from) # {}
                  /\ Min(FilledFrom(from)) =
                         (from \div W) * W
                             + Min(BitsFrom(bitmap_[from \div W], from % W))
           /\ /\ BitsFrom(bitmap_[from \div W], from % W) = {}
              /\ LaterWords(from \div W) # {}
              => /\ FilledFrom(from) # {}
                 /\ Min(FilledFrom(from)) =
                        Min(LaterWords(from \div W)) * W
                            + Min(bitmap_[Min(LaterWords(from \div W))])
           /\ /\ BitsFrom(bitmap_[from \div W], from % W) = {}
              /\ LaterWords(from \div W) = {}
              => FilledFrom(from) = {}
<1> DEFINE w == from \div W
           bit == from % W
           bits == BitsFrom(bitmap_[w], bit)
           later == LaterWords(w)
<1>1. /\ W \in Nat /\ W > 0 /\ data_capacity_ \in Nat /\ TypeOK
      /\ Words \in SUBSET Nat /\ Bits = 0 .. (W - 1)
      /\ \A v \in Words : bitmap_[v] \in SUBSET Bits
  BY WordFacts DEF Sound, Words, Bits, TypeOK
<1>2. w \in Words /\ w \in Nat /\ bit \in Bits /\ bit \in Nat /\ from = w * W + bit
  BY <1>1, WordFacts, WordAndBit DEF Slots
<1>3. ASSUME NEW S \in SUBSET Nat, NEW m \in S, \A i \in S : m <= i
      PROVE  S # {} /\ Min(S) = m
  <2>1. Min(S) \in S /\ \A i \in S : Min(S) <= i
    BY <1>3, LeastOfNaturals
  <2>2. Min(S) <= m /\ m <= Min(S)
    BY <1>3, <2>1
  <2>3. Min(S) \in Nat /\ m \in Nat
    BY <2>1
  <2> QED
    BY <2>2, <2>3
<1>4. FilledFrom(from) \in SUBSET Nat
  BY FilledFacts DEF FilledFrom
<1> HIDE DEF w, bit
\* A filled slot from there on is in the word itself, or in a later one.
<1>5. ASSUME NEW f \in FilledFrom(from)
      PROVE  \/ f \div W = w /\ f % W \in bits
             \/ f \div W \in later
  <2>1. /\ f \in Filled /\ f >= from /\ f \div W \in Words /\ f % W \in Bits
        /\ f % W \in bitmap_[f \div W] /\ f = (f \div W) * W + (f % W)
    BY FilledFacts DEF FilledFrom
  <2>2. /\ f \div W < w => (f \div W) * W + (f % W) < w * W + bit
        /\ f % W < bit /\ f \div W = w => (f \div W) * W + (f % W) < w * W + bit
    <3>1. f \div W \in Nat /\ f % W \in 0 .. (W - 1) /\ bit \in 0 .. (W - 1)
      BY <1>1, <1>2, <2>1
    <3>2. f \div W < w => (f \div W) * W + (f % W) < w * W + bit
      BY <1>1, <1>2, <3>1, WordsInOrder
    <3>3. w * W \in Nat
      BY <1>1, <1>2
    <3> QED
      BY <1>1, <1>2, <3>1, <3>2, <3>3
  <2>3. f \in Nat /\ from \in Nat /\ f \div W \in Nat /\ f % W \in Nat
    <3>1. f \in Nat
      BY <2>1, FilledFacts
    <3>2. from \in Nat
      BY <1>1 DEF Slots
    <3> QED
      BY <1>1, <2>1, <3>1, <3>2
  <2>4. f \div W > w \/ (f \div W = w /\ f % W >= bit)
    BY <1>2, <2>1, <2>2, <2>3
  <2> QED
    BY <2>1, <2>4 DEF BitsFrom, LaterWords
<1>6. ASSUME bits # {}
      PROVE  FilledFrom(from) # {} /\ Min(FilledFrom(from)) = w * W + Min(bits)
  <2>1. bits \in SUBSET Nat /\ bits \in SUBSET Bits
    BY <1>1, <1>2 DEF BitsFrom
  <2>2. Min(bits) \in bits /\ \A b \in bits : Min(bits) <= b
    BY <1>6, <2>1, LeastOfNaturals
  <2>3. Min(bits) \in Bits /\ Min(bits) \in bitmap_[w] /\ Min(bits) >= bit
    BY <2>1, <2>2 DEF BitsFrom
  <2>4. w * W + Min(bits) \in FilledFrom(from)
    <3>1. w * W + Min(bits) \in Filled
      BY <1>2, <2>3, FilledFacts
    <3>2. w * W + bit <= w * W + Min(bits) /\ w * W + Min(bits) \in Nat
      BY <1>1, <1>2, <2>3, WordsInOrder
    <3> QED
      BY <1>1, <1>2, <3>1, <3>2 DEF FilledFrom, Slots
  <2>5. ASSUME NEW f \in FilledFrom(from)
        PROVE  w * W + Min(bits) <= f
    <3>1. /\ f = (f \div W) * W + (f % W) /\ f \div W \in Words /\ f % W \in Bits
          /\ f \in Nat
      BY FilledFacts DEF FilledFrom
    <3>2. CASE f \div W = w /\ f % W \in bits
      <4>1. Min(bits) <= f % W /\ Min(bits) \in Nat /\ f % W \in Nat /\ w * W \in Nat
        BY <1>1, <1>2, <2>1, <2>2, <3>1, <3>2
      <4> QED
        BY <3>1, <3>2, <4>1
    <3>3. CASE f \div W \in later
      <4>1. f \div W \in Nat /\ w < f \div W
        BY <1>1, <1>2, <3>3 DEF LaterWords
      <4>2. w * W + Min(bits) < (f \div W) * W + (f % W)
        <5>1. Min(bits) \in 0 .. (W - 1) /\ f % W \in 0 .. (W - 1)
          BY <1>1, <2>3, <3>1
        <5>2. \A v \in Nat, a \in 0 .. (W - 1), b \in 0 .. (W - 1) :
                  w < v => w * W + a < v * W + b
          BY <1>1, <1>2, WordsInOrder
        <5> QED
          BY <4>1, <5>1, <5>2
      <4>3. w * W + Min(bits) \in Nat
        BY <1>4, <2>4
      <4> QED
        BY <3>1, <4>2, <4>3
    <3> QED
      BY <1>5, <3>2, <3>3
  <2> QED
    BY <1>3, <1>4, <2>4, <2>5
<1>7. ASSUME bits = {}, later # {}
      PROVE  /\ FilledFrom(from) # {}
             /\ Min(FilledFrom(from)) = Min(later) * W + Min(bitmap_[Min(later)])
  <2> DEFINE v == Min(later)
  <2>1. later \in SUBSET Nat
    BY <1>1 DEF LaterWords
  <2>2. v \in later /\ \A u \in later : v <= u
    BY <1>7, <2>1, LeastOfNaturals
  <2>3. v \in Words /\ v > w /\ bitmap_[v] # {} /\ v \in Nat
    BY <2>1, <2>2 DEF LaterWords
  <2> HIDE DEF v, later
  <2>4. /\ bitmap_[v] \in SUBSET Nat /\ Min(bitmap_[v]) \in bitmap_[v]
        /\ \A b \in bitmap_[v] : Min(bitmap_[v]) <= b
    <3>1. bitmap_[v] \in SUBSET Nat
      BY <1>1, <2>3
    <3> QED
      BY <2>3, <3>1, LeastOfNaturals
  <2>5. Min(bitmap_[v]) \in Bits
    BY <1>1, <2>3, <2>4
  <2>6. v * W + Min(bitmap_[v]) \in FilledFrom(from)
    <3>1. v * W + Min(bitmap_[v]) \in Filled
      BY <2>3, <2>4, <2>5, FilledFacts
    <3>2. w * W + bit < v * W + Min(bitmap_[v]) /\ v * W + Min(bitmap_[v]) \in Nat
      BY <1>1, <1>2, <2>3, <2>5, WordsInOrder
    <3> QED
      BY <1>1, <1>2, <3>1, <3>2 DEF FilledFrom, Slots
  <2>7. ASSUME NEW f \in FilledFrom(from)
        PROVE  v * W + Min(bitmap_[v]) <= f
    <3>1. /\ f = (f \div W) * W + (f % W) /\ f \div W \in Words /\ f % W \in Bits
          /\ f \in Nat /\ f % W \in bitmap_[f \div W]
      BY FilledFacts DEF FilledFrom
    <3>2. f \div W \in later
      BY <1>5, <1>7
    <3>3. v <= f \div W /\ f \div W \in Nat
      BY <1>1, <2>2, <3>1, <3>2
    <3>4. CASE v = f \div W
      <4>1. Min(bitmap_[v]) <= f % W
        BY <2>4, <3>1, <3>4
      <4>2. v * W + Min(bitmap_[v]) <= (f \div W) * W + (f % W)
        BY <1>1, <2>3, <2>5, <3>1, <3>3, <3>4, <4>1, WordsInOrder
      <4> QED
        BY <3>1, <4>2
    <3>5. CASE v < f \div W
      <4>1. v * W + Min(bitmap_[v]) < (f \div W) * W + (f % W)
        BY <1>1, <2>3, <2>5, <3>1, <3>3, <3>5, WordsInOrder
      <4>2. v * W + Min(bitmap_[v]) \in Nat
        BY <1>4, <2>6
      <4> QED
        BY <3>1, <4>1, <4>2
    <3> QED
      BY <2>3, <3>3, <3>4, <3>5
  <2>8. FilledFrom(from) # {} /\ Min(FilledFrom(from)) = v * W + Min(bitmap_[v])
    BY <1>3, <1>4, <2>6, <2>7
  <2> QED
    BY <2>8 DEF v
<1>8. ASSUME bits = {}, later = {} PROVE FilledFrom(from) = {}
  BY <1>5, <1>8
<1> QED
  BY <1>6, <1>7, <1>8 DEF w, bit

\* In any such bitmap.
LEMMA NextFilledInSound == Sound => NextFilledIsFirst
<1>1. ASSUME Sound, NEW pos \in Slots, NEW exclusive \in BOOLEAN,
             NEW later, later = {f \in Filled : f >= pos /\ (exclusive => f # pos)}
      PROVE  get_next_filled_position(pos, exclusive) =
                 {IF later = {} THEN data_capacity_ ELSE Min(later)}
  <2> DEFINE from == IF exclusive THEN pos + 1 ELSE pos
             w == from \div W
             word == bitmap_[w]
             bits == BitsFrom(word, from % W)
             answer == IF bits # {} THEN w * W + Min(bits)
                       ELSE IF LaterWords(w) # {}
                       THEN Min(LaterWords(w)) * W + Min(bitmap_[Min(LaterWords(w))])
                       ELSE data_capacity_
  <2>1. pos \in Nat /\ pos < data_capacity_ /\ data_capacity_ \in Nat
    BY <1>1 DEF Sound, Slots
  <2>2. later = FilledFrom(from)
    <3>1. \A f \in Filled : f \in Nat
      BY <1>1, FilledFacts
    <3>2. \A f \in Filled : f >= pos /\ (exclusive => f # pos) <=> f >= from
      BY <2>1, <3>1
    <3> QED
      BY <1>1, <3>2 DEF FilledFrom
  <2>3. CASE exclusive /\ from = data_capacity_
    <3>1. get_next_filled_position(pos, exclusive) = {data_capacity_}
      BY <2>3 DEF get_next_filled_position
    <3>2. FilledFrom(from) = {}
      <4>1. \A f \in Filled : f \in Nat /\ f < data_capacity_
        BY <2>1 DEF Filled, Slots
      <4> QED
        BY <2>1, <2>3, <4>1 DEF FilledFrom
    <3> QED
      BY <2>2, <3>1, <3>2
  <2>4. CASE ~(exclusive /\ from = data_capacity_)
    <3>1. from \in Slots
      BY <2>1, <2>4 DEF Slots
    <3>2. w \in Words
      BY <1>1, <3>1, WordFacts
    <3>3. get_next_filled_position(pos, exclusive) = {answer}
      <4>1. Read(w) = {word}
        BY <3>2 DEF Read
      <4>2. get_next_filled_position(pos, exclusive) =
                {(IF BitsFrom(v, from % W) # {} THEN w * W + Min(BitsFrom(v, from % W))
                  ELSE IF LaterWords(w) # {}
                  THEN Min(LaterWords(w)) * W + Min(bitmap_[Min(LaterWords(w))])
                  ELSE data_capacity_) : v \in Read(w)}
        BY <2>4 DEF get_next_filled_position, LaterWords
      <4> QED
        BY <4>1, <4>2
    <3>4. answer = IF FilledFrom(from) = {} THEN data_capacity_
                   ELSE Min(FilledFrom(from))
      BY <1>1, <3>1, FirstFilledFrom
    <3> QED
      BY <2>2, <3>3, <3>4
  <2> QED
    BY <2>3, <2>4
<1> QED
  BY <1>1 DEF NextFilledIsFirst

\* get_next_filled_position (alex_nodes.h 1690-1718) finds the first filled slot
\* from a slot on, or behind it, however many empty words lie between: what
\* GappedArray takes it to find.
THEOREM NextFilledIsFound == ASSUME ShapesAreSound PROVE Spec => []NextFilledIsFirst
BY NextFilledInSound, SoundIsInvariant, PTL

-----------------------------------------------------------------------------
(* The closest gap.                                                        *)

\* The greatest of a finite set of natural numbers.
LEMMA GreatestOfNaturals ==
    ASSUME NEW n \in Nat, NEW S \in SUBSET (0 .. n), S # {}
    PROVE  Max(S) \in S /\ \A i \in S : Max(S) >= i
<1> DEFINE T == {j \in 0 .. n : \A i \in S : i <= j}
<1>1. T \in SUBSET Nat /\ n \in T
  OBVIOUS
<1> HIDE DEF T
<1>2. Min(T) \in T /\ \A j \in T : Min(T) <= j
  BY <1>1, LeastOfNaturals
<1> DEFINE m == Min(T)
<1>3. m \in 0 .. n /\ \A i \in S : i <= m
  BY <1>2 DEF T
<1>4. m \in S
  <2> SUFFICES ASSUME m \notin S PROVE FALSE
    OBVIOUS
  <2>1. m # 0
    <3>1. PICK i \in S : TRUE
      OBVIOUS
    <3>2. i \in 0 .. n /\ i <= m /\ i # m
      BY <1>3
    <3> QED
      BY <1>3, <3>2
  <2>2. m - 1 \in T
    <3>1. m - 1 \in 0 .. n
      BY <1>3, <2>1
    <3>2. \A i \in S : i <= m - 1
      <4> SUFFICES ASSUME NEW i \in S PROVE i <= m - 1
        OBVIOUS
      <4>1. i \in 0 .. n /\ i <= m /\ i # m
        BY <1>3
      <4> QED
        BY <1>3, <4>1
    <3> QED
      BY <3>1, <3>2 DEF T
  <2>3. m <= m - 1
    BY <1>2, <2>2
  <2> QED
    BY <1>3, <2>3
<1> HIDE DEF m
<1>5. \A i \in S : i \in 0 .. n /\ m \in 0 .. n /\ i <= m
  BY <1>3
<1>6. m \in S /\ \A i \in S : m >= i
  BY <1>4, <1>5
<1> QED
  BY <1>6 DEF Max

\* Numbers are equal or differ by at least one.
LEMMA Apart == \A v, w \in Nat : v = w \/ v < w \/ v >= w + 1
OBVIOUS

\* The word of a slot, and its bit there.
Word(pos) == pos \div W
Bit(pos) == pos % W

\* The empty slots.
GapSlots == Slots \ Filled

\* How far it is from a slot to another.
Far(p, g) == IF g < p THEN p - g ELSE g - p

\* What closest_gap is to find.
Nearest(pos, gap) ==
    /\ gap \in GapSlots
    /\ \A g \in GapSlots : \/ Far(pos, gap) < Far(pos, g)
                           \/ Far(pos, gap) = Far(pos, g) /\ gap <= g

\* No gap lies between lo and hi.
NoneBetween(pos, lo, hi) ==
    /\ lo \in Int /\ hi \in Int /\ lo < pos /\ pos <= hi
    /\ \A g \in GapSlots : g <= lo \/ hi <= g

\* Gaps are slots.
LEMMA GapSlotsAreSlots ==
    ASSUME Sound
    PROVE  \A g \in GapSlots : g \in Nat /\ g < data_capacity_
BY DEF GapSlots, Slots, Sound

\* With no gap between two positions, the left one is the nearest gap if it is
\* one and the right one, or any gap there, is no nearer.
LEMMA LeftIsNearest ==
    ASSUME Sound, NEW pos \in Slots, NEW lo, NEW hi, NoneBetween(pos, lo, hi),
           lo \in GapSlots, pos - lo <= hi - pos \/ hi >= data_capacity_
    PROVE  Nearest(pos, lo)
<1>1. /\ pos \in Nat /\ lo \in Int /\ hi \in Int /\ lo < pos /\ pos <= hi
      /\ data_capacity_ \in Int
      /\ \A g \in GapSlots : g \in Nat /\ g < data_capacity_ /\ (g <= lo \/ hi <= g)
  BY GapSlotsAreSlots DEF Sound, Slots, NoneBetween
<1>2. ASSUME NEW g \in GapSlots
      PROVE  \/ Far(pos, lo) < Far(pos, g)
             \/ Far(pos, lo) = Far(pos, g) /\ lo <= g
  <2>1. g \in Nat /\ g < data_capacity_ /\ (g <= lo \/ hi <= g)
    BY <1>1
  <2> QED
    BY <1>1, <2>1 DEF Far
<1> QED
  BY <1>2 DEF Nearest

\* The right one is the nearest if it is a gap and nearer than the left one, or
\* there is none to the left.
LEMMA RightIsNearest ==
    ASSUME Sound, NEW pos \in Slots, NEW lo, NEW hi, NoneBetween(pos, lo, hi),
           hi \in GapSlots, hi - pos < pos - lo \/ lo < 0
    PROVE  Nearest(pos, hi)
<1>1. /\ pos \in Nat /\ lo \in Int /\ hi \in Int /\ lo < pos /\ pos <= hi
      /\ data_capacity_ \in Int
      /\ \A g \in GapSlots : g \in Nat /\ g < data_capacity_ /\ (g <= lo \/ hi <= g)
  BY GapSlotsAreSlots DEF Sound, Slots, NoneBetween
<1>2. ASSUME NEW g \in GapSlots
      PROVE  \/ Far(pos, hi) < Far(pos, g)
             \/ Far(pos, hi) = Far(pos, g) /\ hi <= g
  <2>1. g \in Nat /\ g < data_capacity_ /\ (g <= lo \/ hi <= g)
    BY <1>1
  <2> QED
    BY <1>1, <2>1 DEF Far
<1> QED
  BY <1>2 DEF Nearest

\* The gaps by word and bit.
LEMMA GapFacts ==
    ASSUME Sound
    PROVE  /\ \A g \in GapSlots : /\ Word(g) \in Words /\ Word(g) \in Nat
                                   /\ Bit(g) \in Bits /\ Bit(g) \in Zeros(Word(g))
                                   /\ g = Word(g) * W + Bit(g)
           /\ \A w \in Words : \A b \in Zeros(w) :
                  w * W + b < data_capacity_ => w * W + b \in GapSlots
           /\ \A w \in Words : w + 1 \in Words =>
                  \A b \in Bits : w * W + b < data_capacity_
           /\ \A w \in Words : Zeros(w) \in SUBSET (0 .. (W - 1))
<1>1. /\ W \in Nat /\ W > 0 /\ data_capacity_ \in Nat /\ TypeOK
      /\ Words \in SUBSET Nat /\ Bits = 0 .. (W - 1)
  BY WordFacts DEF Sound, Words, Bits
<1>2. ASSUME NEW g \in GapSlots
      PROVE  /\ Word(g) \in Words /\ Bit(g) \in Bits /\ Bit(g) \in Zeros(Word(g))
             /\ g = Word(g) * W + Bit(g)
  <2>1. g \in Slots /\ g \notin Filled /\ g \in Nat
    BY <1>1 DEF GapSlots, Slots
  <2>2. /\ Word(g) \in Words /\ Bit(g) \in Bits
        /\ g = Word(g) * W + Bit(g)
    BY <1>1, <2>1, WordFacts, WordAndBit DEF Word, Bit
  <2>3. Bit(g) \notin bitmap_[Word(g)]
    BY <2>1 DEF Filled, check_exists, Word, Bit
  <2> QED
    BY <2>2, <2>3 DEF Zeros
<1>3. ASSUME NEW w \in Words, NEW b \in Zeros(w), w * W + b < data_capacity_
      PROVE  w * W + b \in GapSlots
  <2>1. b \in Bits /\ b \notin bitmap_[w]
    BY DEF Zeros
  <2>2. w * W + b \in Slots
    <3>1. w * W + b \in Nat
      BY <2>1, WordFacts
    <3> QED
      BY <1>1, <1>3, <3>1 DEF Slots
  <2>3. w * W + b \notin Filled
    BY <2>1, FilledFacts
  <2> QED
    BY <2>2, <2>3 DEF GapSlots
<1>4. ASSUME NEW w \in Words, w + 1 \in Words, NEW b \in Bits
      PROVE  w * W + b < data_capacity_
  <2>1. (w + 1) * W < data_capacity_
    BY <1>1, <1>4, WordFacts
  <2>2. (w + 1) * W = w * W + W /\ w * W \in Nat
    BY <1>1
  <2> QED
    BY <1>1, <2>1, <2>2
<1>5. \A g \in GapSlots : Word(g) \in Nat
  BY <1>1, <1>2
<1>6. \A w \in Words : Zeros(w) \in SUBSET (0 .. (W - 1))
  BY <1>1 DEF Zeros
<1> QED
  BY <1>2, <1>3, <1>4, <1>5, <1>6, Zenon

\* The gaps on either side of a word.
LEMMA GapsByWord ==
    ASSUME Sound, NEW g \in GapSlots, NEW u \in Int
    PROVE  /\ Word(g) < u => g < u * W
           /\ Word(g) >= u => g >= u * W
           /\ u * W \in Int
<1>1. /\ W \in Nat /\ W > 0 /\ Word(g) \in Nat /\ Bit(g) \in 0 .. (W - 1)
      /\ g = Word(g) * W + Bit(g)
  BY GapFacts DEF Sound, Bits
<1> DEFINE v == Word(g)
<1>2. v \in Nat
  BY <1>1
<1> HIDE DEF v
<1>3. u * W \in Int /\ v * W \in Int
  BY <1>1, <1>2
<1>4. ASSUME v < u PROVE v * W + W <= u * W
  <2>1. (u - v) * W >= 1 * W
    BY <1>1, <1>2, <1>4
  <2>2. (u - v) * W = u * W - v * W
    BY <1>1, <1>2
  <2> QED
    BY <1>1, <1>3, <2>1, <2>2
<1>5. ASSUME v >= u PROVE v * W >= u * W
  <2>1. (v - u) * W >= 0
    BY <1>1, <1>2, <1>5
  <2>2. (v - u) * W = v * W - u * W
    BY <1>1, <1>2
  <2> QED
    BY <1>1, <1>3, <2>1, <2>2
<1> DEFINE b == Bit(g)
<1>6. W \in Nat /\ b \in 0 .. (W - 1) /\ g = v * W + b
  BY <1>1 DEF v
<1> HIDE DEF b
<1>7. (v < u => g < u * W) /\ (v >= u => g >= u * W)
  BY <1>2, <1>3, <1>4, <1>5, <1>6
<1> QED
  BY <1>3, <1>7 DEF v

\* The last zero of a word that has one is behind all gaps up to the word.
LEMMA LastZeroFacts ==
    ASSUME Sound, NEW w \in Words, HasZero(w)
    PROVE  /\ LastZero(w) = w * W + Max(Zeros(w)) /\ Max(Zeros(w)) \in 0 .. (W - 1)
           /\ \A g \in GapSlots : Word(g) <= w => g <= LastZero(w)
           /\ LastZero(w) < data_capacity_ => LastZero(w) \in GapSlots
<1>1. /\ W \in Nat /\ W > 0 /\ w \in Nat
  BY DEF Sound, Words
<1>2. Zeros(w) \in SUBSET (0 .. (W - 1)) /\ Zeros(w) # {} /\ W - 1 \in Nat
  BY <1>1, GapFacts DEF HasZero
<1>3. Max(Zeros(w)) \in Zeros(w) /\ \A b \in Zeros(w) : Max(Zeros(w)) >= b
  BY <1>2, GreatestOfNaturals
<1> DEFINE z == Max(Zeros(w))
<1>4. z \in 0 .. (W - 1)
  BY <1>2, <1>3
<1>5. ASSUME NEW g \in GapSlots, Word(g) <= w PROVE g <= w * W + z
  <2>1. /\ Word(g) \in Nat /\ Bit(g) \in 0 .. (W - 1)
        /\ g = Word(g) * W + Bit(g) /\ Bit(g) \in Zeros(Word(g))
    BY GapFacts DEF Bits
  <2>2. CASE Word(g) = w
    <3>1. Bit(g) <= z
      BY <1>2, <1>3, <1>4, <2>1, <2>2
    <3>2. w * W \in Nat
      BY <1>1
    <3>3. g = w * W + Bit(g)
      BY <2>1, <2>2
    <3> QED
      BY <1>4, <2>1, <3>1, <3>2, <3>3
  <2>3. CASE Word(g) < w
    <3>1. g < w * W /\ w * W \in Int
      BY <1>1, <2>3, GapsByWord
    <3>2. g \in Int
      BY GapSlotsAreSlots
    <3> QED
      BY <1>4, <3>1, <3>2
  <2> QED
    BY <1>1, <1>5, <2>1, <2>2, <2>3
<1>6. w * W + z < data_capacity_ => w * W + z \in GapSlots
  BY <1>3, GapFacts
<1> QED
  BY <1>4, <1>5, <1>6 DEF LastZero

\* The first zero of a word that has one is before all gaps from the word on.
LEMMA FirstZeroFacts ==
    ASSUME Sound, NEW w \in Words, HasZero(w)
    PROVE  /\ FirstZero(w) = w * W + Min(Zeros(w)) /\ Min(Zeros(w)) \in 0 .. (W - 1)
           /\ \A g \in GapSlots : Word(g) >= w => g >= FirstZero(w)
           /\ FirstZero(w) < data_capacity_ => FirstZero(w) \in GapSlots
<1>1. /\ W \in Nat /\ W > 0 /\ w \in Nat
  BY DEF Sound, Words
<1>2. /\ Zeros(w) \in SUBSET (0 .. (W - 1)) /\ Zeros(w) # {}
      /\ Zeros(w) \in SUBSET Nat
  <2>1. Zeros(w) \in SUBSET (0 .. (W - 1)) /\ Zeros(w) # {}
    BY <1>1, GapFacts DEF HasZero
  <2> QED
    BY <1>1, <2>1
<1>3. Min(Zeros(w)) \in Zeros(w) /\ \A b \in Zeros(w) : Min(Zeros(w)) <= b
  BY <1>2, LeastOfNaturals
<1> DEFINE z == Min(Zeros(w))
<1>4. z \in 0 .. (W - 1)
  BY <1>2, <1>3
<1>5. ASSUME NEW g \in GapSlots, Word(g) >= w PROVE g >= w * W + z
  <2>1. /\ Word(g) \in Nat /\ Bit(g) \in 0 .. (W - 1)
        /\ g = Word(g) * W + Bit(g) /\ Bit(g) \in Zeros(Word(g))
    BY GapFacts DEF Bits
  <2>2. CASE Word(g) = w
    <3>1. z <= Bit(g)
      BY <1>2, <1>3, <1>4, <2>1, <2>2
    <3>2. w * W \in Nat
      BY <1>1
    <3>3. g = w * W + Bit(g)
      BY <2>1, <2>2
    <3> QED
      BY <1>4, <2>1, <3>1, <3>2, <3>3
  <2>3. CASE Word(g) >= w + 1
    <3>1. g >= (w + 1) * W
      <4>1. w + 1 \in Int
        BY <1>1
      <4> QED
        BY <2>3, <4>1, GapsByWord
    <3>2. g \in Int /\ (w + 1) * W = w * W + W /\ w * W \in Int
      BY <1>1, GapSlotsAreSlots
    <3> QED
      BY <1>1, <1>4, <3>1, <3>2
  <2>4. \A v \in Nat : v >= w => v = w \/ v >= w + 1
    BY <1>1
  <2> QED
    BY <1>5, <2>1, <2>2, <2>3, <2>4
<1>6. w * W + z < data_capacity_ => w * W + z \in GapSlots
  BY <1>3, GapFacts
<1> QED
  BY <1>4, <1>5, <1>6 DEF FirstZero

\* A slot by word and bit, among the words there are.
LEMMA SlotFacts ==
    ASSUME Sound, NEW pos \in Slots
    PROVE  /\ Word(pos) \in Words /\ Word(pos) \in Nat /\ Bit(pos) \in 0 .. (W - 1)
           /\ pos = Word(pos) * W + Bit(pos) /\ Word(pos) * W \in Nat
           /\ W \in Nat /\ W > 0 /\ pos \in Nat /\ pos < data_capacity_
           /\ data_capacity_ \in Nat
           /\ bitmap_size_ \in Nat /\ Word(pos) <= bitmap_size_ - 1
<1>1. /\ W \in Nat /\ W > 0 /\ data_capacity_ \in Nat /\ pos \in Nat
      /\ pos < data_capacity_
  BY DEF Sound, Slots
<1>2. Word(pos) \in Words /\ Bit(pos) \in Bits /\ bitmap_size_ \in Nat
  BY WordFacts DEF Word, Bit
<1>3. /\ Word(pos) \in Nat /\ Bit(pos) \in 0 .. (W - 1)
      /\ pos = Word(pos) * W + Bit(pos)
  BY <1>1, WordAndBit DEF Word, Bit
<1>4. Word(pos) <= bitmap_size_ - 1
  BY <1>2 DEF Words
<1>5. Word(pos) * W \in Nat
  BY <1>1, <1>3
<1> QED
  BY <1>1, <1>2, <1>3, <1>4, <1>5, Zenon

\* The zeros of the word of a slot, from the slot on and before it.
After(pos) == {b \in Zeros(Word(pos)) : b >= Bit(pos)}
Ahead(pos) == {b \in Zeros(Word(pos)) : b < Bit(pos)}

\* How far closest_gap takes a gap to be on either side, looking no further
\* than the next word.
RightFar(pos) ==
    LET w == Word(pos)
    IN  IF After(pos) # {} THEN Min(After(pos)) - Bit(pos)
        ELSE IF w + 1 < bitmap_size_
             THEN W - Bit(pos) + IF HasZero(w + 1) THEN Min(Zeros(w + 1)) ELSE W
        ELSE W

LeftFar(pos) ==
    LET w == Word(pos)
    IN  IF Ahead(pos) # {} THEN Bit(pos) - Max(Ahead(pos))
        ELSE IF w > 0
             THEN Bit(pos) + 1 + IF HasZero(w - 1) THEN W - 1 - Max(Zeros(w - 1)) ELSE W
        ELSE W

\* A gap of the word of a slot, relative to the slot.
LEMMA GapOfTheWord ==
    ASSUME Sound, NEW pos \in Slots, NEW g \in GapSlots, Word(g) = Word(pos)
    PROVE  /\ Bit(g) \in 0 .. (W - 1) /\ g - pos = Bit(g) - Bit(pos)
           /\ g >= pos => Bit(g) \in After(pos)
           /\ g < pos => Bit(g) \in Ahead(pos)
<1> DEFINE w == Word(pos)
           bit == Bit(pos)
           b == Bit(g)
<1>1. w \in Nat /\ bit \in 0 .. (W - 1) /\ pos = w * W + bit /\ W \in Nat
      /\ w * W \in Nat
  BY SlotFacts
<1>2. Word(g) = w /\ Bit(g) = b
  OBVIOUS
<1>3. b \in 0 .. (W - 1) /\ g = Word(g) * W + b /\ b \in Zeros(Word(g))
  BY GapFacts DEF Bits
<1> HIDE DEF w, bit, b
<1>4. b \in 0 .. (W - 1) /\ g = w * W + b /\ b \in Zeros(w)
  BY <1>2, <1>3
<1>5. g - pos = b - bit /\ (g >= pos => b >= bit) /\ (g < pos => b < bit)
  BY <1>1, <1>4
<1> QED
  BY <1>4, <1>5 DEF After, Ahead, w, bit, b

\* No gap from a slot on is nearer than RightFar says.
LEMMA RightFacts ==
    ASSUME Sound, NEW pos \in Slots
    PROVE  /\ RightFar(pos) \in Nat
           /\ \A g \in GapSlots : g >= pos => g >= pos + RightFar(pos)
           /\ After(pos) # {} => RightFar(pos) < W
           /\ \/ pos + RightFar(pos) < data_capacity_ => pos + RightFar(pos) \in GapSlots
              \/ RightFar(pos) >= W
<1> DEFINE w == Word(pos)
           bit == Bit(pos)
           R == RightFar(pos)
<1>1. /\ w \in Words /\ w \in Nat /\ bit \in 0 .. (W - 1) /\ pos = w * W + bit
      /\ w * W \in Nat /\ W \in Nat /\ W > 0 /\ data_capacity_ \in Nat
      /\ pos \in Nat /\ bitmap_size_ \in Nat
  BY SlotFacts
<1>2. \A g \in GapSlots : /\ g \in Nat /\ g < data_capacity_
                          /\ Word(g) \in Words /\ Word(g) \in Nat
  BY GapSlotsAreSlots, GapFacts
<1>3. CASE After(pos) # {}
  <2> DEFINE z == Min(After(pos))
  <2>1. R = z - bit
    BY <1>3 DEF RightFar
  <2>2. z \in After(pos) /\ \A b \in After(pos) : z <= b
    <3>1. Zeros(w) \in SUBSET (0 .. (W - 1))
      BY <1>1, GapFacts
    <3>2. After(pos) \in SUBSET Nat
      BY <3>1 DEF After
    <3> QED
      BY <1>3, <3>2, LeastOfNaturals
  <2>3. z \in Zeros(w) /\ z >= bit /\ z \in 0 .. (W - 1)
    BY <1>1, <2>2, GapFacts DEF After
  <2>4. pos + R = w * W + z
    BY <1>1, <2>1, <2>3
  <2>5. ASSUME NEW g \in GapSlots, g >= pos PROVE g >= w * W + z
    <3>1. CASE Word(g) = w
      <4>1. Bit(g) \in After(pos) /\ g - pos = Bit(g) - bit /\ Bit(g) \in 0 .. (W - 1)
        BY <2>5, <3>1, GapOfTheWord
      <4>2. z <= Bit(g) /\ g \in Nat
        BY <1>2, <2>2, <4>1
      <4> QED
        BY <1>1, <2>3, <4>1, <4>2
    <3>2. CASE Word(g) < w
      <4>1. g < w * W
        BY <1>1, <3>2, GapsByWord
      <4> QED
        BY <1>1, <1>2, <2>5, <4>1
    <3>3. CASE Word(g) >= w + 1
      <4>1. g >= (w + 1) * W /\ (w + 1) * W = w * W + W
        BY <1>1, <3>3, GapsByWord
      <4> QED
        BY <1>1, <1>2, <2>3, <4>1
    <3>4. \A v \in Nat : v = w \/ v < w \/ v >= w + 1
      BY <1>1, Apart
    <3> QED
      BY <1>2, <3>1, <3>2, <3>3, <3>4
  <2>6. w * W + z < data_capacity_ => w * W + z \in GapSlots
    BY <1>1, <2>3, GapFacts
  <2>7. R \in Nat /\ R < W
    BY <1>1, <2>1, <2>3
  <2> QED
    BY <2>4, <2>5, <2>6, <2>7
<1>4. ASSUME After(pos) = {}, NEW g \in GapSlots, g >= pos PROVE Word(g) >= w + 1
  <2>1. Word(g) # w
    BY <1>4, GapOfTheWord
  <2>2. ~(Word(g) < w)
    <3> SUFFICES ASSUME Word(g) < w PROVE FALSE
      OBVIOUS
    <3>1. g < w * W
      BY <1>1, GapsByWord
    <3> QED
      BY <1>1, <1>2, <1>4, <3>1
  <2>3. \A v \in Nat : v = w \/ v < w \/ v >= w + 1
    BY <1>1, Apart
  <2> QED
    BY <1>2, <2>1, <2>2, <2>3
<1>5. CASE After(pos) = {} /\ w + 1 < bitmap_size_ /\ HasZero(w + 1)
  <2>1. w + 1 \in Words
    BY <1>1, <1>5 DEF Words
  <2> DEFINE z == Min(Zeros(w + 1))
  <2>2. /\ FirstZero(w + 1) = (w + 1) * W + z /\ z \in 0 .. (W - 1)
        /\ \A g \in GapSlots : Word(g) >= w + 1 => g >= FirstZero(w + 1)
        /\ FirstZero(w + 1) < data_capacity_ => FirstZero(w + 1) \in GapSlots
    BY <1>5, <2>1, FirstZeroFacts
  <2>3. R = W - bit + z
    BY <1>5 DEF RightFar
  <2>4. (w + 1) * W = w * W + W
    BY <1>1
  <2> HIDE DEF z
  <2>5. R \in Nat /\ pos + R = FirstZero(w + 1)
    BY <1>1, <2>2, <2>3, <2>4
  <2> QED
    BY <1>4, <1>5, <2>2, <2>5
<1>6. CASE After(pos) = {} /\ w + 1 < bitmap_size_ /\ ~HasZero(w + 1)
  <2>1. R = W - bit + W
    BY <1>6 DEF RightFar
  <2>2. R \in Nat /\ R >= W
    BY <1>1, <2>1
  <2>3. ASSUME NEW g \in GapSlots, g >= pos PROVE g >= pos + R
    <3>1. Word(g) >= w + 1
      BY <1>4, <1>6, <2>3
    <3>2. Word(g) # w + 1
      BY <1>6, GapFacts DEF HasZero
    <3>3. Word(g) >= w + 2
      <4>1. \A v \in Nat : v >= w + 1 /\ v # w + 1 => v >= w + 2
        BY <1>1
      <4> QED
        BY <1>2, <3>1, <3>2, <4>1
    <3>4. g >= (w + 2) * W /\ (w + 2) * W = w * W + 2 * W
      BY <1>1, <3>3, GapsByWord
    <3> QED
      BY <1>1, <1>2, <2>1, <3>4
  <2> QED
    BY <1>6, <2>2, <2>3
<1>7. CASE After(pos) = {} /\ ~(w + 1 < bitmap_size_)
  <2>1. R = W
    BY <1>7 DEF RightFar
  <2>2. ASSUME NEW g \in GapSlots, g >= pos PROVE FALSE
    <3>1. Word(g) >= w + 1 /\ Word(g) \in Words /\ Word(g) \in Nat
      BY <1>2, <1>4, <1>7, <2>2
    <3>2. \A v \in Words : v < bitmap_size_
      BY <1>1 DEF Words
    <3>3. \A v \in Nat : v >= w + 1 => ~(v < bitmap_size_)
      BY <1>1, <1>7
    <3> QED
      BY <3>1, <3>2, <3>3
  <2> QED
    BY <1>1, <1>7, <2>1, <2>2
<1> QED
  BY <1>3, <1>5, <1>6, <1>7

\* No gap before a slot is nearer than LeftFar says.
LEMMA LeftFacts ==
    ASSUME Sound, NEW pos \in Slots
    PROVE  /\ LeftFar(pos) \in Nat /\ LeftFar(pos) > 0
           /\ \A g \in GapSlots : g < pos => g <= pos - LeftFar(pos)
           /\ Ahead(pos) # {} => LeftFar(pos) < W /\ pos - LeftFar(pos) \in GapSlots
           /\ pos - LeftFar(pos) \in GapSlots \/ LeftFar(pos) >= W
<1> DEFINE w == Word(pos)
           bit == Bit(pos)
           L == LeftFar(pos)
<1>1. /\ w \in Words /\ w \in Nat /\ bit \in 0 .. (W - 1) /\ pos = w * W + bit
      /\ w * W \in Nat /\ W \in Nat /\ W > 0 /\ data_capacity_ \in Nat
      /\ pos \in Nat /\ bitmap_size_ \in Nat /\ pos < data_capacity_
      /\ w <= bitmap_size_ - 1
  BY SlotFacts
<1>2. \A g \in GapSlots : /\ g \in Nat /\ g < data_capacity_
                          /\ Word(g) \in Words /\ Word(g) \in Nat
  BY GapSlotsAreSlots, GapFacts
<1>3. CASE Ahead(pos) # {}
  <2> DEFINE z == Max(Ahead(pos))
  <2>1. L = bit - z
    BY <1>3 DEF LeftFar
  <2>2. z \in Ahead(pos) /\ \A b \in Ahead(pos) : z >= b
    <3>1. Zeros(w) \in SUBSET (0 .. (W - 1))
      BY <1>1, GapFacts
    <3>2. Ahead(pos) \in SUBSET (0 .. (W - 1)) /\ W - 1 \in Nat
      BY <1>1, <3>1 DEF Ahead
    <3> QED
      BY <1>3, <3>2, GreatestOfNaturals
  <2>3. z \in Zeros(w) /\ z < bit /\ z \in 0 .. (W - 1)
    BY <1>1, <2>2, GapFacts DEF Ahead
  <2>4. pos - L = w * W + z /\ w * W + z < data_capacity_
    BY <1>1, <2>1, <2>3
  <2>5. ASSUME NEW g \in GapSlots, g < pos PROVE g <= w * W + z
    <3>1. CASE Word(g) = w
      <4>1. Bit(g) \in Ahead(pos) /\ g - pos = Bit(g) - bit /\ Bit(g) \in 0 .. (W - 1)
        BY <2>5, <3>1, GapOfTheWord
      <4>2. z >= Bit(g) /\ g \in Nat
        BY <1>2, <2>2, <4>1
      <4> QED
        BY <1>1, <2>3, <4>1, <4>2
    <3>2. CASE Word(g) < w
      <4>1. g < w * W
        BY <1>1, <3>2, GapsByWord
      <4> QED
        BY <1>1, <1>2, <2>3, <4>1
    <3>3. CASE Word(g) >= w + 1
      <4>1. g >= (w + 1) * W /\ (w + 1) * W = w * W + W
        BY <1>1, <3>3, GapsByWord
      <4> QED
        BY <1>1, <1>2, <2>5, <4>1
    <3>4. \A v \in Nat : v = w \/ v < w \/ v >= w + 1
      BY <1>1, Apart
    <3> QED
      BY <1>2, <3>1, <3>2, <3>3, <3>4
  <2>6. w * W + z \in GapSlots
    BY <1>1, <2>3, <2>4, GapFacts
  <2>7. L \in Nat /\ L > 0 /\ L < W
    BY <1>1, <2>1, <2>3
  <2> QED
    BY <2>4, <2>5, <2>6, <2>7
<1>4. ASSUME Ahead(pos) = {}, NEW g \in GapSlots, g < pos PROVE Word(g) < w
  <2>1. Word(g) # w
    BY <1>4, GapOfTheWord
  <2>2. ~(Word(g) >= w + 1)
    <3> SUFFICES ASSUME Word(g) >= w + 1 PROVE FALSE
      OBVIOUS
    <3>1. g >= (w + 1) * W /\ (w + 1) * W = w * W + W
      BY <1>1, GapsByWord
    <3> QED
      BY <1>1, <1>2, <1>4, <3>1
  <2>3. \A v \in Nat : v = w \/ v < w \/ v >= w + 1
    BY <1>1, Apart
  <2> QED
    BY <1>2, <2>1, <2>2, <2>3
<1>5. CASE Ahead(pos) = {} /\ w > 0 /\ HasZero(w - 1)
  <2>1. w - 1 \in Words /\ w - 1 \in Nat
    BY <1>1, <1>5 DEF Words
  <2> DEFINE z == Max(Zeros(w - 1))
  <2>2. /\ LastZero(w - 1) = (w - 1) * W + z /\ z \in 0 .. (W - 1)
        /\ \A g \in GapSlots : Word(g) <= w - 1 => g <= LastZero(w - 1)
        /\ LastZero(w - 1) < data_capacity_ => LastZero(w - 1) \in GapSlots
    BY <1>5, <2>1, LastZeroFacts
  <2>3. L = bit + 1 + (W - 1 - z)
    BY <1>5 DEF LeftFar
  <2>4. (w - 1) * W = w * W - W
    BY <1>1
  <2> HIDE DEF z
  <2>5. L \in Nat /\ L > 0 /\ pos - L = LastZero(w - 1) /\ LastZero(w - 1) < data_capacity_
    BY <1>1, <2>2, <2>3, <2>4
  <2>6. \A g \in GapSlots : g < pos => Word(g) <= w - 1
    BY <1>1, <1>2, <1>4, <1>5
  <2> QED
    BY <1>5, <2>2, <2>5, <2>6
<1>6. CASE Ahead(pos) = {} /\ w > 0 /\ ~HasZero(w - 1)
  <2>1. L = bit + 1 + W
    BY <1>6 DEF LeftFar
  <2>2. L \in Nat /\ L > 0 /\ L >= W
    BY <1>1, <2>1
  <2>3. ASSUME NEW g \in GapSlots, g < pos PROVE g <= pos - L
    <3>1. Word(g) < w
      BY <1>4, <1>6, <2>3
    <3>2. Word(g) # w - 1
      BY <1>6, GapFacts DEF HasZero
    <3>3. Word(g) < w - 1
      BY <1>1, <1>2, <3>1, <3>2
    <3>4. g < (w - 1) * W /\ (w - 1) * W = w * W - W
      BY <1>1, <3>3, GapsByWord
    <3> QED
      BY <1>1, <1>2, <2>1, <3>4
  <2> QED
    BY <1>6, <2>2, <2>3
<1>7. CASE Ahead(pos) = {} /\ ~(w > 0)
  <2>1. L = W
    BY <1>7 DEF LeftFar
  <2>2. ASSUME NEW g \in GapSlots, g < pos PROVE FALSE
    BY <1>1, <1>2, <1>4, <1>7, <2>2
  <2> QED
    BY <1>1, <1>7, <2>1, <2>2
<1> QED
  BY <1>3, <1>5, <1>6, <1>7

\* In a word with a gap, GapInWord finds the nearest, though it looks no further
\* than the next words.
LEMMA GapInWordIsNearest ==
    ASSUME Sound, NEW pos \in Slots, NEW own \in GapSlots, Word(own) = Word(pos)
    PROVE  Nearest(pos, GapInWord(pos))
<1> DEFINE R == RightFar(pos)
           L == LeftFar(pos)
<1>1. GapInWord(pos) = IF R < L /\ pos + R < data_capacity_ THEN pos + R ELSE pos - L
  BY Zenon DEF GapInWord, RightFar, LeftFar, After, Ahead, Word, Bit
<1>2. /\ R \in Nat /\ L \in Nat /\ L > 0 /\ pos \in Nat /\ W \in Nat
      /\ data_capacity_ \in Nat /\ own \in Nat /\ own < data_capacity_
  BY RightFacts, LeftFacts, SlotFacts, GapSlotsAreSlots
<1>3. NoneBetween(pos, pos - L, pos + R)
  <2>1. ASSUME NEW g \in GapSlots PROVE g <= pos - L \/ pos + R <= g
    <3>1. g \in Nat
      BY GapSlotsAreSlots
    <3>2. g < pos => g <= pos - L
      BY LeftFacts
    <3>3. g >= pos => g >= pos + R
      BY RightFacts
    <3> QED
      BY <1>2, <3>1, <3>2, <3>3
  <2> QED
    BY <1>2, <2>1 DEF NoneBetween
<1>4. After(pos) # {} \/ Ahead(pos) # {}
  BY <1>2, GapOfTheWord
<1>5. After(pos) # {} => R < W
  BY RightFacts
<1>6. Ahead(pos) # {} => L < W /\ pos - L \in GapSlots
  BY LeftFacts
<1>7. CASE R < L /\ pos + R < data_capacity_
  <2>1. pos + R \in GapSlots \/ R >= W
    BY <1>7, RightFacts
  <2>2. ~(R >= W)
    BY <1>2, <1>4, <1>5, <1>6, <1>7
  <2>3. (pos + R) - pos < pos - (pos - L)
    BY <1>2, <1>7
  <2>4. Nearest(pos, pos + R)
    BY <1>3, <2>1, <2>2, <2>3, RightIsNearest
  <2> QED
    BY <1>1, <1>7, <2>4
<1>8. CASE ~(R < L /\ pos + R < data_capacity_)
  <2>1. pos - L \in GapSlots
    <3> SUFFICES ASSUME pos - L \notin GapSlots PROVE FALSE
      OBVIOUS
    <3>1. L >= W /\ Ahead(pos) = {}
      BY <1>6, LeftFacts
    <3>2. After(pos) # {} /\ R < W
      BY <1>4, <1>5, <3>1
    <3>3. own >= pos
      BY <1>2, <3>1, GapOfTheWord
    <3>4. own >= pos + R
      BY <3>3, RightFacts
    <3> QED
      BY <1>2, <1>8, <3>1, <3>2, <3>4
  <2>2. pos - (pos - L) <= (pos + R) - pos \/ pos + R >= data_capacity_
    BY <1>2, <1>8
  <2>3. Nearest(pos, pos - L)
    BY <1>3, <2>1, <2>2, LeftIsNearest
  <2> QED
    BY <1>1, <1>8, <2>3
<1> QED
  BY <1>7, <1>8

\* A word is full exactly when none of its slots is a gap: in the last word, when
\* it has as many ones as slots.
LEMMA FullWord ==
    ASSUME Sound, NEW pos \in Slots, NEW w, w = Word(pos)
    PROVE  (\/ ~HasZero(w)
            \/ /\ w = bitmap_size_ - 1
               /\ Cardinality(bitmap_[w]) = data_capacity_ - (bitmap_size_ - 1) * W)
           <=> \A g \in GapSlots : Word(g) # w
<1>1. /\ w \in Words /\ w \in Nat /\ W \in Nat /\ W > 0 /\ data_capacity_ \in Nat
      /\ w * W \in Nat /\ bitmap_size_ \in Nat /\ w <= bitmap_size_ - 1
      /\ pos < data_capacity_ /\ pos \in Nat /\ pos >= w * W
  <2>1. pos = w * W + Bit(pos) /\ Bit(pos) \in 0 .. (W - 1)
    BY SlotFacts
  <2> QED
    BY <2>1, SlotFacts
<1> DEFINE n == data_capacity_ - w * W
<1>2. n \in Nat /\ n > 0
  BY <1>1
<1>3. ~HasZero(w) => \A g \in GapSlots : Word(g) # w
  BY GapFacts DEF HasZero
<1>4. ASSUME NEW b \in Zeros(w), w * W + b < data_capacity_
      PROVE  \E g \in GapSlots : Word(g) = w
  <2>1. w * W + b \in GapSlots
    BY <1>1, <1>4, GapFacts
  <2>2. b \in 0 .. (W - 1)
    BY <1>1, GapFacts
  <2>3. Word(w * W + b) = w
    BY <1>1, <2>2, WordOfSlot DEF Word
  <2> QED
    BY <2>1, <2>3
<1>5. CASE w # bitmap_size_ - 1
  <2>1. w + 1 \in Words
    BY <1>1, <1>5 DEF Words
  <2>2. ASSUME HasZero(w) PROVE \E g \in GapSlots : Word(g) = w
    <3>1. PICK b \in Zeros(w) : TRUE
      BY <2>2 DEF HasZero
    <3>2. b \in Bits
      BY <3>1 DEF Zeros
    <3>3. w * W + b < data_capacity_
      BY <1>1, <2>1, <3>2, GapFacts
    <3> QED
      BY <1>4, <3>1, <3>3
  <2> QED
    BY <1>3, <1>5, <2>2
<1>6. CASE w = bitmap_size_ - 1
  <2>1. n <= W
    <3>1. w + 1 \notin Words /\ w + 1 \in Nat
      BY <1>1, <1>6 DEF Words
    <3>2. ~((w + 1) * W < data_capacity_)
      BY <3>1, WordFacts
    <3>3. (w + 1) * W = w * W + W
      BY <1>1
    <3> QED
      BY <1>1, <3>2, <3>3
  <2>2. bitmap_[w] \in SUBSET (0 .. (n - 1))
    <3> SUFFICES ASSUME NEW b \in bitmap_[w] PROVE b \in 0 .. (n - 1)
      OBVIOUS
    <3>1. w * W + b \in Slots /\ b \in Bits
      BY <1>1 DEF Sound, TypeOK
    <3> QED
      BY <1>1, <3>1 DEF Slots, Bits
  <2>3. IsFiniteSet(0 .. (n - 1)) /\ Cardinality(0 .. (n - 1)) = n
    BY <1>2, FS_Interval
  <2>4. Cardinality(bitmap_[w]) = n <=> bitmap_[w] = 0 .. (n - 1)
    BY <2>2, <2>3, FS_Subset
  <2>5. ASSUME bitmap_[w] = 0 .. (n - 1), NEW g \in GapSlots PROVE Word(g) # w
    <3> SUFFICES ASSUME Word(g) = w PROVE FALSE
      OBVIOUS
    <3>1. Bit(g) \in Zeros(w) /\ g = w * W + Bit(g) /\ Bit(g) \in 0 .. (W - 1)
      BY GapFacts DEF Bits
    <3>2. g < data_capacity_
      BY GapSlotsAreSlots
    <3>3. Bit(g) \in 0 .. (n - 1)
      BY <1>1, <3>1, <3>2
    <3> QED
      BY <2>5, <3>1, <3>3 DEF Zeros
  <2>6. ASSUME bitmap_[w] # 0 .. (n - 1) PROVE \E g \in GapSlots : Word(g) = w
    <3>1. PICK b \in 0 .. (n - 1) : b \notin bitmap_[w]
      BY <2>2, <2>6
    <3>2. b \in Bits
      BY <1>1, <1>2, <2>1, <3>1 DEF Bits
    <3>3. b \in Zeros(w)
      BY <3>1, <3>2 DEF Zeros
    <3>4. w * W + b < data_capacity_
      BY <1>1, <3>1
    <3> QED
      BY <1>4, <3>3, <3>4
  <2>7. data_capacity_ - (bitmap_size_ - 1) * W = n
    BY <1>6
  <2> HIDE DEF n
  <2> QED
    BY <1>3, <1>6, <2>4, <2>5, <2>6, <2>7
<1> QED
  BY <1>5, <1>6

\* No gap lies in a word less than D words from the slot's.
NoneWithin(pos, D) ==
    \A g \in GapSlots : Word(g) <= Word(pos) - D \/ Word(g) >= Word(pos) + D

\* A word holds no gap when it has no zero, or none that is a slot; the last zero
\* of a word before the last is a gap.
LEMMA WordsWithoutGap ==
    ASSUME Sound, NEW v \in Words
    PROVE  /\ ~HasZero(v) \/ FirstZero(v) >= data_capacity_
                  => \A g \in GapSlots : Word(g) # v
           /\ HasZero(v) /\ v + 1 \in Words
                  => LastZero(v) \in GapSlots
           /\ v \in Nat /\ v <= bitmap_size_ - 1 /\ bitmap_size_ \in Nat
<1>1. v \in Nat /\ v <= bitmap_size_ - 1 /\ bitmap_size_ \in Nat
  BY WordFacts DEF Words
<1>2. ASSUME ~HasZero(v), NEW g \in GapSlots PROVE Word(g) # v
  BY <1>2, GapFacts DEF HasZero
<1>3. ASSUME HasZero(v), FirstZero(v) >= data_capacity_, NEW g \in GapSlots
      PROVE  Word(g) # v
  <2> SUFFICES ASSUME Word(g) = v PROVE FALSE
    OBVIOUS
  <2>1. Word(g) >= v
    BY <1>1
  <2>2. g >= FirstZero(v) /\ FirstZero(v) = v * W + Min(Zeros(v))
        /\ Min(Zeros(v)) \in 0 .. (W - 1)
    BY <1>3, <2>1, FirstZeroFacts
  <2>3. g < data_capacity_ /\ g \in Nat /\ data_capacity_ \in Nat /\ v * W \in Int
    BY <1>1, GapSlotsAreSlots DEF Sound
  <2> QED
    BY <1>3, <2>2, <2>3
<1>4. ASSUME HasZero(v), v + 1 \in Words PROVE LastZero(v) \in GapSlots
  <2>1. LastZero(v) = v * W + Max(Zeros(v)) /\ Max(Zeros(v)) \in 0 .. (W - 1)
        /\ (LastZero(v) < data_capacity_ => LastZero(v) \in GapSlots)
    BY <1>4, LastZeroFacts
  <2>2. v * W + Max(Zeros(v)) < data_capacity_
    BY <1>4, <2>1, GapFacts DEF Bits
  <2> QED
    BY <2>1, <2>2
<1> QED
  BY <1>1, <1>2, <1>3, <1>4

\* The last zero of an earlier word, the first of a later one.
LEMMA ZerosAround ==
    ASSUME Sound, NEW pos \in Slots, NEW v \in Words, HasZero(v)
    PROVE  /\ v < Word(pos) =>
                  /\ LastZero(v) \in GapSlots /\ LastZero(v) \in Int
                  /\ LastZero(v) < Word(pos) * W
                  /\ v * W <= LastZero(v)
                  /\ \A g \in GapSlots : Word(g) <= v => g <= LastZero(v)
           /\ v > Word(pos) =>
                  /\ FirstZero(v) \in Int /\ pos < FirstZero(v)
                  /\ FirstZero(v) <= v * W + W - 1
                  /\ FirstZero(v) < data_capacity_ => FirstZero(v) \in GapSlots
                  /\ \A g \in GapSlots : Word(g) >= v => g >= FirstZero(v)
<1>1. /\ Word(pos) \in Nat /\ Bit(pos) \in 0 .. (W - 1) /\ Word(pos) * W \in Nat
      /\ pos = Word(pos) * W + Bit(pos) /\ W \in Nat /\ W > 0 /\ pos \in Nat
      /\ v \in Nat /\ Word(pos) \in Words /\ v * W \in Nat
  BY SlotFacts, WordsWithoutGap
<1> DEFINE w == Word(pos)
           bit == Bit(pos)
<1>2. w \in Nat /\ bit \in 0 .. (W - 1) /\ pos = w * W + bit
  BY <1>1
<1>3. CASE v < w
  <2>1. v + 1 \in Words
    BY <1>1, <1>3, SlotFacts DEF Words
  <2> DEFINE z == Max(Zeros(v))
  <2>2. LastZero(v) = v * W + z /\ z \in 0 .. (W - 1) /\ LastZero(v) \in GapSlots
        /\ \A g \in GapSlots : Word(g) <= v => g <= LastZero(v)
    BY <2>1, LastZeroFacts, WordsWithoutGap
  <2> HIDE DEF z, w, bit
  <2>3. v * W + W <= w * W
    <3>1. (w - v) * W >= 1 * W
      BY <1>1, <1>2, <1>3
    <3>2. (w - v) * W = w * W - v * W
      BY <1>1, <1>2
    <3>3. w * W \in Nat
      BY <1>1, <1>2
    <3> QED
      BY <1>1, <3>1, <3>2, <3>3
  <2>4. LastZero(v) < w * W /\ v * W <= LastZero(v) /\ LastZero(v) \in Int /\ ~(v > w)
    <3>1. w * W \in Nat
      BY <1>1, <1>2
    <3> QED
      BY <1>1, <1>2, <1>3, <2>2, <2>3, <3>1
  <2> QED
    BY <2>2, <2>4 DEF w
<1>4. CASE v > w
  <2> DEFINE z == Min(Zeros(v))
  <2>2. FirstZero(v) = v * W + z /\ z \in 0 .. (W - 1)
        /\ (FirstZero(v) < data_capacity_ => FirstZero(v) \in GapSlots)
        /\ \A g \in GapSlots : Word(g) >= v => g >= FirstZero(v)
    BY FirstZeroFacts
  <2> HIDE DEF z, w, bit
  <2>3. w * W + W <= v * W
    <3>1. (v - w) * W >= 1 * W
      BY <1>1, <1>2, <1>4
    <3>2. (v - w) * W = v * W - w * W
      BY <1>1, <1>2
    <3>3. w * W \in Nat
      BY <1>1, <1>2
    <3> QED
      BY <1>1, <3>1, <3>2, <3>3
  <2>4. pos < FirstZero(v) /\ FirstZero(v) <= v * W + W - 1 /\ FirstZero(v) \in Int
        /\ ~(v < w)
    <3>1. w * W \in Nat
      BY <1>1, <1>2
    <3> QED
      BY <1>1, <1>2, <1>4, <2>2, <2>3, <3>1
  <2> QED
    BY <2>2, <2>4 DEF w
<1>5. (~(v < w) /\ ~(v > w)) \/ v < w \/ v > w
  OBVIOUS
<1> QED
  BY <1>3, <1>4, <1>5

\* Nearer chooses the nearest of the gaps on both sides.
LEMMA NearerIsNearest ==
    ASSUME Sound, NEW pos \in Slots, NEW lo, NEW hi, NoneBetween(pos, lo, hi),
           lo \in GapSlots, hi < data_capacity_ => hi \in GapSlots
    PROVE  Nearest(pos, Nearer(pos, lo, hi))
<1>1. pos \in Int /\ lo \in Int /\ hi \in Int /\ data_capacity_ \in Int
  BY DEF NoneBetween, Slots, Sound
<1>2. CASE pos - lo <= hi - pos \/ hi >= data_capacity_
  <2>1. Nearest(pos, lo)
    BY <1>2, LeftIsNearest
  <2> QED
    BY <1>2, <2>1 DEF Nearer
<1>3. CASE ~(pos - lo <= hi - pos \/ hi >= data_capacity_)
  <2>1. hi - pos < pos - lo /\ hi \in GapSlots
    BY <1>1, <1>3
  <2>2. Nearest(pos, hi)
    BY <2>1, RightIsNearest
  <2> QED
    BY <1>3, <2>2 DEF Nearer
<1> QED
  BY <1>2, <1>3

\* In the words d away on both sides, the first with a gap, the nearest is found:
\* when only one side has a gap, the word behind the other is asked as far as it
\* could be nearer.
LEMMA GapInWordsAtIsNearest ==
    ASSUME Sound, NEW pos \in Slots, NEW d \in Nat, d > 0, NoneWithin(pos, d),
           Word(pos) - d \in Words, Word(pos) + d \in Words,
           \/ HasZero(Word(pos) - d)
           \/ HasZero(Word(pos) + d) /\ FirstZero(Word(pos) + d) < data_capacity_
    PROVE  Nearest(pos, GapInWordsAt(pos, d))
<1> DEFINE w == Word(pos)
           bit == Bit(pos)
           half == W \div 2
           ww == w * W
           dw == d * W
           lft == w - d
           rgt == w + d
<1>1. /\ w \in Nat /\ bit \in 0 .. (W - 1) /\ ww \in Nat /\ dw \in Nat
      /\ pos = ww + bit /\ W \in Nat /\ W > 0 /\ pos \in Nat
      /\ half \in Nat /\ half + half = W
      /\ data_capacity_ \in Nat /\ bitmap_size_ \in Nat /\ pos < data_capacity_
  <2>1. W \div 2 \in Nat /\ W \div 2 + W \div 2 = W
    <3>1. W % 2 = 0 /\ W \in Nat
      BY DEF Sound
    <3>2. W = (W \div 2) * 2 + (W % 2) /\ W \div 2 \in Nat
      BY <3>1, WordAndBit
    <3> QED
      BY <3>1, <3>2
  <2>2. d * W \in Nat
    BY SlotFacts
  <2> QED
    BY <2>1, <2>2, SlotFacts
<1>2. /\ lft * W = ww - dw /\ (lft - 1) * W = ww - dw - W
      /\ rgt * W = ww + dw /\ (rgt + 1) * W = ww + dw + W
      /\ (rgt + 2) * W = ww + dw + W + W
  BY <1>1
<1>3. GapInWordsAt(pos, d) =
          IF HasZero(lft)
          THEN IF HasZero(rgt)
               THEN Nearer(pos, LastZero(lft), FirstZero(rgt))
               ELSE IF /\ bit > half
                       /\ rgt + 1 < bitmap_size_ /\ HasZero(rgt + 1)
                    THEN Nearer(pos, LastZero(lft), FirstZero(rgt + 1))
                    ELSE LastZero(lft)
          ELSE IF bit < half /\ lft > 0 /\ HasZero(lft - 1)
               THEN Nearer(pos, LastZero(lft - 1), FirstZero(rgt))
               ELSE FirstZero(rgt)
  BY Zenon DEF GapInWordsAt, Word, Bit
<1>4. /\ lft \in Words /\ rgt \in Words /\ lft \in Nat /\ rgt \in Nat
      /\ lft < w /\ rgt > w
  BY <1>1, WordsWithoutGap
<1>5. \A g \in GapSlots : /\ g \in Nat /\ Word(g) \in Nat /\ g < data_capacity_
                          /\ Word(g) <= lft \/ Word(g) >= rgt
  BY GapFacts, GapSlotsAreSlots DEF NoneWithin
<1>6. HasZero(lft) =>
          /\ LastZero(lft) \in GapSlots /\ LastZero(lft) \in Int
          /\ LastZero(lft) < ww /\ ww - dw <= LastZero(lft)
          /\ \A g \in GapSlots : Word(g) <= lft => g <= LastZero(lft)
  BY <1>2, <1>4, ZerosAround
<1>7. HasZero(rgt) =>
          /\ FirstZero(rgt) \in Int /\ pos < FirstZero(rgt)
          /\ FirstZero(rgt) <= ww + dw + W - 1
          /\ FirstZero(rgt) < data_capacity_ => FirstZero(rgt) \in GapSlots
          /\ \A g \in GapSlots : Word(g) >= rgt => g >= FirstZero(rgt)
  BY <1>2, <1>4, ZerosAround
<1>8. ~HasZero(rgt) => \A g \in GapSlots : Word(g) # rgt
  BY <1>4, WordsWithoutGap
<1>9. ~HasZero(lft) => \A g \in GapSlots : Word(g) # lft
  BY <1>4, WordsWithoutGap
<1>10. HasZero(lft) \/ (HasZero(rgt) /\ FirstZero(rgt) < data_capacity_)
  OBVIOUS
<1>11. \A g \in GapSlots : /\ Word(g) >= rgt + 1 => g >= ww + dw + W
                           /\ Word(g) >= rgt + 2 => g >= ww + dw + W + W
                           /\ Word(g) <= lft - 1 => g < ww - dw
                           /\ Word(g) <= lft - 2 => g < ww - dw - W
  <2> SUFFICES ASSUME NEW g \in GapSlots
               PROVE  /\ Word(g) >= rgt + 1 => g >= (rgt + 1) * W
                      /\ Word(g) >= rgt + 2 => g >= (rgt + 2) * W
                      /\ Word(g) < lft => g < lft * W
                      /\ Word(g) < lft - 1 => g < (lft - 1) * W
    BY <1>2, <1>4, <1>5
  <2>1. rgt + 1 \in Int /\ rgt + 2 \in Int /\ lft \in Int /\ lft - 1 \in Int
    BY <1>4
  <2> QED
    BY <2>1, GapsByWord
<1>12. rgt + 1 < bitmap_size_ => rgt + 1 \in Words
  BY <1>1, <1>4 DEF Words
<1>13. ~(rgt + 1 < bitmap_size_) => \A g \in GapSlots : ~(Word(g) >= rgt + 1)
  <2> SUFFICES ASSUME ~(rgt + 1 < bitmap_size_), NEW g \in GapSlots
               PROVE  ~(Word(g) >= rgt + 1)
    OBVIOUS
  <2>1. Word(g) \in Nat /\ Word(g) <= bitmap_size_ - 1
    BY GapFacts, WordsWithoutGap
  <2> QED
    BY <1>1, <1>4, <2>1
<1>14. lft > 0 => lft - 1 \in Words /\ lft - 1 < w
  BY <1>1, <1>4 DEF Words
<1>15. \A g \in GapSlots : Word(g) # rgt => Word(g) <= lft \/ Word(g) >= rgt + 1
  <2> SUFFICES ASSUME NEW g \in GapSlots, Word(g) # rgt
               PROVE  Word(g) <= lft \/ Word(g) >= rgt + 1
    OBVIOUS
  <2> QED
    BY <1>4, <1>5
<1>16. \A g \in GapSlots : Word(g) # lft => Word(g) <= lft - 1 \/ Word(g) >= rgt
  <2> SUFFICES ASSUME NEW g \in GapSlots, Word(g) # lft
               PROVE  Word(g) <= lft - 1 \/ Word(g) >= rgt
    OBVIOUS
  <2> QED
    BY <1>4, <1>5
<1>17. ASSUME NEW u \in Words, HasZero(u)
       PROVE  /\ u < w => /\ LastZero(u) \in GapSlots /\ LastZero(u) \in Int
                          /\ LastZero(u) < ww
                          /\ \A g \in GapSlots : Word(g) <= u => g <= LastZero(u)
              /\ u > w => /\ FirstZero(u) \in Int /\ pos < FirstZero(u)
                          /\ FirstZero(u) < data_capacity_ => FirstZero(u) \in GapSlots
                          /\ \A g \in GapSlots : Word(g) >= u => g >= FirstZero(u)
  BY <1>17, ZerosAround
<1> HIDE DEF w, bit, half, ww, dw, lft, rgt
<1>18. CASE HasZero(lft) /\ HasZero(rgt)
  <2>1. NoneBetween(pos, LastZero(lft), FirstZero(rgt))
    BY <1>1, <1>5, <1>6, <1>7, <1>18 DEF NoneBetween
  <2>2. Nearest(pos, Nearer(pos, LastZero(lft), FirstZero(rgt)))
    BY <1>6, <1>7, <1>18, <2>1, NearerIsNearest
  <2> QED
    BY <1>3, <1>18, <2>2
<1>19. CASE HasZero(lft) /\ ~HasZero(rgt)
  <2>1. CASE bit > half /\ rgt + 1 < bitmap_size_ /\ HasZero(rgt + 1)
    <3>1. /\ FirstZero(rgt + 1) \in Int /\ pos < FirstZero(rgt + 1)
          /\ FirstZero(rgt + 1) < data_capacity_ => FirstZero(rgt + 1) \in GapSlots
          /\ \A g \in GapSlots : Word(g) >= rgt + 1 => g >= FirstZero(rgt + 1)
      <4>1. rgt + 1 \in Words /\ rgt + 1 > w
        BY <1>1, <1>4, <1>12, <2>1
      <4> QED
        BY <1>17, <2>1, <4>1
    <3>2. NoneBetween(pos, LastZero(lft), FirstZero(rgt + 1))
      BY <1>1, <1>6, <1>8, <1>15, <1>19, <3>1 DEF NoneBetween
    <3>3. Nearest(pos, Nearer(pos, LastZero(lft), FirstZero(rgt + 1)))
      BY <1>6, <1>19, <3>1, <3>2, NearerIsNearest
    <3> QED
      BY <1>3, <1>19, <2>1, <3>3
  <2>2. CASE ~(bit > half /\ rgt + 1 < bitmap_size_ /\ HasZero(rgt + 1))
    <3>1. ASSUME NEW hi \in Int, pos <= hi,
                 \A g \in GapSlots : Word(g) >= rgt + 1 => g >= hi,
                 pos - LastZero(lft) <= hi - pos \/ hi >= data_capacity_
          PROVE  Nearest(pos, LastZero(lft))
      <4>1. NoneBetween(pos, LastZero(lft), hi)
        BY <1>1, <1>6, <1>8, <1>15, <1>19, <3>1 DEF NoneBetween
      <4> QED
        BY <1>6, <1>19, <3>1, <4>1, LeftIsNearest
    <3>2. ASSUME ~(bit > half) PROVE Nearest(pos, LastZero(lft))
      <4> DEFINE hi == ww + dw + W
      <4>1. hi \in Int /\ pos <= hi /\ pos - LastZero(lft) <= hi - pos
        BY <1>1, <1>6, <1>19, <3>2
      <4> QED
        BY <1>11, <3>1, <4>1
    <3>3. ASSUME ~(rgt + 1 < bitmap_size_) PROVE Nearest(pos, LastZero(lft))
      <4>1. pos <= data_capacity_ /\ data_capacity_ >= data_capacity_
            /\ data_capacity_ \in Int
        BY <1>1
      <4> QED
        BY <1>13, <3>1, <3>3, <4>1
    <3>4. ASSUME rgt + 1 < bitmap_size_ /\ ~HasZero(rgt + 1) PROVE Nearest(pos, LastZero(lft))
      <4> DEFINE hi == ww + dw + W + W
      <4>1. hi \in Int /\ pos <= hi /\ pos - LastZero(lft) <= hi - pos
        BY <1>1, <1>6, <1>19
      <4>2. \A g \in GapSlots : Word(g) # rgt + 1
        BY <1>12, <3>4, WordsWithoutGap
      <4>3. \A g \in GapSlots : Word(g) >= rgt + 1 => Word(g) >= rgt + 2
        <5> SUFFICES ASSUME NEW g \in GapSlots, Word(g) >= rgt + 1
                     PROVE  Word(g) >= rgt + 2
          OBVIOUS
        <5>1. Word(g) # rgt + 1 /\ Word(g) \in Nat
          BY <1>5, <4>2
        <5> QED
          BY <1>4, <5>1
      <4> QED
        BY <1>11, <3>1, <4>1, <4>3
    <3>5. Nearest(pos, LastZero(lft))
      BY <2>2, <3>2, <3>3, <3>4
    <3> QED
      BY <1>3, <1>19, <2>2, <3>5
  <2> QED
    BY <2>1, <2>2
<1>20. CASE ~HasZero(lft)
  <2>1. HasZero(rgt) /\ FirstZero(rgt) \in GapSlots /\ pos < FirstZero(rgt)
        /\ FirstZero(rgt) \in Int /\ FirstZero(rgt) <= ww + dw + W - 1
        /\ \A g \in GapSlots : Word(g) >= rgt => g >= FirstZero(rgt)
    BY <1>7, <1>10, <1>20
  <2>2. CASE bit < half /\ lft > 0 /\ HasZero(lft - 1)
    <3>1. /\ LastZero(lft - 1) \in GapSlots /\ LastZero(lft - 1) \in Int
          /\ LastZero(lft - 1) < ww
          /\ \A g \in GapSlots : Word(g) <= lft - 1 => g <= LastZero(lft - 1)
      BY <1>14, <1>17, <2>2
    <3>2. NoneBetween(pos, LastZero(lft - 1), FirstZero(rgt))
      BY <1>1, <1>9, <1>16, <1>20, <2>1, <3>1 DEF NoneBetween
    <3>3. Nearest(pos, Nearer(pos, LastZero(lft - 1), FirstZero(rgt)))
      BY <2>1, <3>1, <3>2, NearerIsNearest
    <3> QED
      BY <1>3, <1>20, <2>2, <3>3
  <2>3. CASE ~(bit < half /\ lft > 0 /\ HasZero(lft - 1))
    <3>1. ASSUME NEW lo \in Int, lo < pos,
                 \A g \in GapSlots : Word(g) <= lft - 1 => g <= lo,
                 FirstZero(rgt) - pos < pos - lo \/ lo < 0
          PROVE  Nearest(pos, FirstZero(rgt))
      <4>1. NoneBetween(pos, lo, FirstZero(rgt))
        BY <1>1, <1>9, <1>16, <1>20, <2>1, <3>1 DEF NoneBetween
      <4> QED
        BY <2>1, <3>1, <4>1, RightIsNearest
    <3>2. ASSUME ~(bit < half) PROVE Nearest(pos, FirstZero(rgt))
      <4> DEFINE lo == ww - dw - 1
      <4>1. lo \in Int /\ lo < pos /\ FirstZero(rgt) - pos < pos - lo
        BY <1>1, <2>1, <3>2
      <4>2. \A g \in GapSlots : Word(g) <= lft - 1 => g <= lo
        BY <1>1, <1>5, <1>11
      <4> HIDE DEF lo
      <4> QED
        BY <3>1, <4>1, <4>2
    <3>3. ASSUME ~(lft > 0) PROVE Nearest(pos, FirstZero(rgt))
      <4> DEFINE lo == 0 - 1
      <4>1. lo \in Int /\ lo < pos /\ lo < 0
        BY <1>1
      <4>2. \A g \in GapSlots : ~(Word(g) <= lft - 1)
        BY <1>4, <1>5, <3>3
      <4> HIDE DEF lo
      <4> QED
        BY <3>1, <4>1, <4>2
    <3>4. ASSUME lft > 0 /\ ~HasZero(lft - 1) PROVE Nearest(pos, FirstZero(rgt))
      <4> DEFINE lo == ww - dw - W - 1
      <4>1. lo \in Int /\ lo < pos /\ FirstZero(rgt) - pos < pos - lo
        BY <1>1, <2>1
      <4>2. \A g \in GapSlots : Word(g) # lft - 1
        BY <1>14, <3>4, WordsWithoutGap
      <4>3. \A g \in GapSlots : Word(g) <= lft - 1 => g <= lo
        <5> SUFFICES ASSUME NEW g \in GapSlots, Word(g) <= lft - 1 PROVE g <= lo
          OBVIOUS
        <5>1. Word(g) # lft - 1 /\ Word(g) \in Nat
          BY <1>5, <4>2
        <5>2. Word(g) <= lft - 2
          BY <1>4, <5>1
        <5>3. g < ww - dw - W /\ g \in Nat
          BY <1>5, <1>11, <5>2
        <5> QED
          BY <1>1, <5>3
      <4> HIDE DEF lo
      <4> QED
        BY <3>1, <4>1, <4>3
    <3>5. Nearest(pos, FirstZero(rgt))
      BY <2>3, <3>2, <3>3, <3>4
    <3> QED
      BY <1>3, <1>20, <2>3, <3>5
  <2> QED
    BY <2>2, <2>3
<1> QED
  BY <1>18, <1>19, <1>20

\* Once one side has no more words, the first gap on the other side is found.
LEMMA GapOnOneSideIsNearest ==
    ASSUME Sound, NEW pos \in Slots, NEW D \in Nat, D > 0, NoneWithin(pos, D),
           NEW maxRight, maxRight = bitmap_size_ - 1 - Word(pos),
           D = (IF Word(pos) > maxRight THEN maxRight ELSE Word(pos)) + 1
    PROVE  /\ GapSlots = {} => GapOnOneSide(Word(pos), D) = -1
           /\ GapSlots # {} => Nearest(pos, GapOnOneSide(Word(pos), D))
<1> DEFINE w == Word(pos)
           left == {v \in 0 .. (w - D) : HasZero(v)}
           right == {v \in (w + D) .. (bitmap_size_ - 1) : HasZero(v)}
<1>1. GapOnOneSide(w, D) =
          IF w > maxRight
          THEN IF left = {} THEN -1 ELSE LastZero(Max(left))
          ELSE IF right = {} \/ FirstZero(Min(right)) >= data_capacity_
               THEN -1 ELSE FirstZero(Min(right))
  BY Zenon DEF GapOnOneSide
<1>2. /\ w \in Nat /\ bitmap_size_ \in Nat /\ w <= bitmap_size_ - 1 /\ w * W \in Nat
      /\ Bit(pos) \in 0 .. (W - 1) /\ pos = w * W + Bit(pos) /\ pos \in Nat
      /\ data_capacity_ \in Nat /\ pos < data_capacity_ /\ W \in Nat
      /\ maxRight \in Int
  BY SlotFacts
<1>3. ASSUME NEW g \in GapSlots
      PROVE  /\ g \in Nat /\ g < data_capacity_
             /\ Word(g) \in Words /\ Word(g) \in Nat /\ Word(g) <= bitmap_size_ - 1
             /\ HasZero(Word(g))
             /\ Word(g) <= w - D \/ Word(g) >= w + D
  <2>1. HasZero(Word(g))
    BY GapFacts DEF HasZero
  <2>2. Word(g) <= w - D \/ Word(g) >= w + D
    BY DEF NoneWithin
  <2>3. Word(g) \in Words /\ Word(g) \in Nat
    BY GapFacts
  <2> QED
    BY <2>1, <2>2, <2>3, GapSlotsAreSlots, WordsWithoutGap
<1>4. CASE w > maxRight
  <2>1. w + D = bitmap_size_ /\ w - D <= w - 1
    BY <1>2, <1>4
  <2>2. \A g \in GapSlots : Word(g) \in left
    <3> SUFFICES ASSUME NEW g \in GapSlots PROVE Word(g) \in 0 .. (w - D)
      BY <1>3
    <3> QED
      BY <1>2, <1>3, <2>1
  <2>3. CASE left = {}
    <3>1. GapSlots = {}
      BY <2>2, <2>3
    <3> QED
      BY <1>1, <1>4, <2>3, <3>1
  <2>4. CASE left # {}
    <3> DEFINE m == Max(left)
    <3>1. left \in SUBSET (0 .. (bitmap_size_ - 1)) /\ bitmap_size_ - 1 \in Nat
      BY <1>2, <2>1
    <3>2. m \in left /\ \A v \in left : m >= v
      <4> HIDE DEF left
      <4> QED
        BY <2>4, <3>1, GreatestOfNaturals
    <3>3. m \in Words /\ HasZero(m) /\ m < w /\ m \in Nat
      BY <1>2, <2>1, <3>2 DEF Words
    <3> HIDE DEF m
    <3>4. /\ LastZero(m) \in GapSlots /\ LastZero(m) \in Int /\ LastZero(m) < w * W
          /\ \A g \in GapSlots : Word(g) <= m => g <= LastZero(m)
      BY <3>3, ZerosAround
    <3>5. \A g \in GapSlots : Word(g) <= m
      BY <1>3, <2>2, <3>2, <3>3
    <3>6. NoneBetween(pos, LastZero(m), data_capacity_)
      <4>1. LastZero(m) < pos /\ pos <= data_capacity_
        BY <1>2, <3>4
      <4> QED
        BY <1>2, <3>4, <3>5, <4>1 DEF NoneBetween
    <3>7. Nearest(pos, LastZero(m))
      BY <1>2, <3>4, <3>6, LeftIsNearest
    <3>8. GapOnOneSide(w, D) = LastZero(m)
      BY <1>1, <1>4, <2>4 DEF m
    <3> QED
      BY <3>4, <3>7, <3>8
  <2> QED
    BY <2>3, <2>4
<1>5. CASE ~(w > maxRight)
  <2>1. w - D = 0 - 1 /\ w + D > w
    BY <1>2, <1>5
  <2>2. \A g \in GapSlots : Word(g) \in right
    <3> SUFFICES ASSUME NEW g \in GapSlots
                 PROVE  Word(g) \in (w + D) .. (bitmap_size_ - 1)
      BY <1>3
    <3> QED
      BY <1>2, <1>3, <2>1
  <2>3. CASE right = {}
    <3>1. GapSlots = {}
      BY <2>2, <2>3
    <3> QED
      BY <1>1, <1>5, <2>3, <3>1
  <2>4. CASE right # {}
    <3> DEFINE m == Min(right)
    <3>1. right \in SUBSET Nat
      BY <1>2, <2>1
    <3>2. m \in right /\ \A v \in right : m <= v
      <4> HIDE DEF right
      <4> QED
        BY <2>4, <3>1, LeastOfNaturals
    <3>3. m \in Words /\ HasZero(m) /\ m > w /\ m \in Nat
      BY <1>2, <2>1, <3>2 DEF Words
    <3> HIDE DEF m
    <3>4. /\ FirstZero(m) \in Int /\ pos < FirstZero(m)
          /\ FirstZero(m) < data_capacity_ => FirstZero(m) \in GapSlots
          /\ \A g \in GapSlots : Word(g) >= m => g >= FirstZero(m)
      BY <3>3, ZerosAround
    <3>5. \A g \in GapSlots : Word(g) >= m
      <4> SUFFICES ASSUME NEW g \in GapSlots PROVE Word(g) >= m
        OBVIOUS
      <4>1. m <= Word(g) /\ Word(g) \in Nat
        BY <1>3, <2>2, <3>2
      <4> QED
        BY <3>3, <4>1
    <3>6. GapOnOneSide(w, D) =
              IF FirstZero(m) >= data_capacity_ THEN -1 ELSE FirstZero(m)
      BY <1>1, <1>5, <2>4 DEF m
    <3>7. CASE FirstZero(m) >= data_capacity_
      <4>1. GapSlots = {}
        <5> SUFFICES ASSUME NEW g \in GapSlots PROVE FALSE
          OBVIOUS
        <5>1. g >= FirstZero(m) /\ g \in Nat /\ g < data_capacity_
          BY <1>3, <3>4, <3>5
        <5> QED
          BY <1>2, <3>4, <3>7, <5>1
      <4> QED
        BY <3>6, <3>7, <4>1
    <3>8. CASE ~(FirstZero(m) >= data_capacity_)
      <4>1. FirstZero(m) \in GapSlots
        BY <1>2, <3>4, <3>8
      <4> DEFINE lo == 0 - 1
      <4>2. lo \in Int /\ lo < pos /\ lo < 0
        BY <1>2
      <4> HIDE DEF lo
      <4>3. NoneBetween(pos, lo, FirstZero(m))
        BY <1>2, <3>4, <3>5, <4>2 DEF NoneBetween
      <4>4. Nearest(pos, FirstZero(m))
        BY <4>1, <4>2, <4>3, RightIsNearest
      <4> QED
        BY <3>6, <3>8, <4>1, <4>4
    <3> QED
      BY <3>7, <3>8
  <2> QED
    BY <2>3, <2>4
<1> QED
  BY <1>4, <1>5

\* closest_gap finds a nearest gap, and says so when there is none.
LEMMA ClosestGapIsNearest ==
    ASSUME Sound, NEW pos \in Slots
    PROVE  /\ GapSlots = {} => closest_gap(pos) = -1
           /\ GapSlots # {} => Nearest(pos, closest_gap(pos))
<1> DEFINE w == Word(pos)
           full == \/ ~HasZero(w)
                   \/ /\ w = bitmap_size_ - 1
                      /\ Cardinality(bitmap_[w]) =
                             data_capacity_ - (bitmap_size_ - 1) * W
           maxRight == bitmap_size_ - 1 - w
           maxBoth == Min({w, maxRight})
           hits == {d \in 1 .. maxBoth :
                       \/ HasZero(w - d)
                       \/ HasZero(w + d) /\ FirstZero(w + d) < data_capacity_}
<1>1. closest_gap(pos) =
          IF ~full THEN GapInWord(pos)
          ELSE IF hits # {} THEN GapInWordsAt(pos, Min(hits))
          ELSE GapOnOneSide(w, maxBoth + 1)
  <2>1. (IF pos < data_capacity_ THEN pos ELSE data_capacity_ - 1) = pos
    BY SlotFacts
  <2> QED
    BY Zenon, <2>1 DEF closest_gap, Word
<1>2. /\ w \in Nat /\ w \in Words /\ bitmap_size_ \in Nat /\ w <= bitmap_size_ - 1
      /\ maxRight \in Nat
  BY SlotFacts
<1>3. full <=> \A g \in GapSlots : Word(g) # w
  BY FullWord
<1> HIDE DEF full
<1>4. maxBoth = IF w > maxRight THEN maxRight ELSE w
  <2>1. {w, maxRight} \in SUBSET Nat /\ {w, maxRight} # {}
    BY <1>2
  <2>2. maxBoth \in {w, maxRight} /\ \A i \in {w, maxRight} : maxBoth <= i
    BY <2>1, LeastOfNaturals
  <2> HIDE DEF maxBoth, w, maxRight
  <2> QED
    BY <1>2, <2>2
<1>5. maxBoth \in Nat /\ maxBoth <= w /\ maxBoth <= maxRight
  BY <1>2, <1>4
<1> HIDE DEF maxBoth
<1>6. CASE ~full
  <2>1. PICK own \in GapSlots : Word(own) = w
    BY <1>3, <1>6
  <2>2. Nearest(pos, GapInWord(pos))
    BY <2>1, GapInWordIsNearest
  <2> QED
    BY <1>1, <1>6, <2>1, <2>2
<1>7. ASSUME full, NEW d \in Nat, d <= maxBoth + 1,
             \A e \in hits : e >= d
      PROVE  NoneWithin(pos, d)
  <2>1. ASSUME NEW g \in GapSlots
        PROVE  Word(g) <= w - d \/ Word(g) >= w + d
    <3> DEFINE v == Word(g)
    <3>1. v \in Words /\ v \in Nat /\ v # w /\ HasZero(v) /\ g \in Nat
          /\ g < data_capacity_ /\ v <= bitmap_size_ - 1
      <4>1. HasZero(v)
        BY GapFacts DEF HasZero
      <4> QED
        BY <1>3, <1>7, <4>1, GapFacts, GapSlotsAreSlots, WordsWithoutGap
    <3>2. ~(HasZero(v) /\ FirstZero(v) >= data_capacity_)
      BY <3>1, WordsWithoutGap
    <3> HIDE DEF v
    <3>3. SUFFICES ASSUME v > w - d, v < w + d PROVE FALSE
      BY <1>2, <3>1 DEF v
    <3>4. CASE v < w
      <4> DEFINE e == w - v
      <4>1. e \in 1 .. maxBoth /\ e < d /\ w - e = v
        BY <1>2, <1>5, <1>7, <3>1, <3>3, <3>4
      <4>2. HasZero(w - e)
        BY <3>1, <4>1
      <4> HIDE DEF e
      <4>3. e \in hits
        BY <4>1, <4>2
      <4> QED
        BY <1>5, <1>7, <4>1, <4>3
    <3>5. CASE v > w
      <4> DEFINE e == v - w
      <4>1. e \in 1 .. maxBoth /\ e < d /\ w + e = v
        BY <1>2, <1>5, <1>7, <3>1, <3>3, <3>5
      <4>2. FirstZero(v) < data_capacity_
        <5>1. FirstZero(v) \in Int /\ data_capacity_ \in Int
          BY <3>1, <3>5, ZerosAround DEF Sound
        <5> QED
          BY <3>1, <3>2, <5>1
      <4>3. HasZero(w + e) /\ FirstZero(w + e) < data_capacity_
        BY <3>1, <4>1, <4>2
      <4> HIDE DEF e
      <4>4. e \in hits
        BY <4>1, <4>3
      <4> QED
        BY <1>5, <1>7, <4>1, <4>4
    <3> QED
      BY <1>2, <3>1, <3>4, <3>5
  <2> QED
    BY <2>1 DEF NoneWithin
<1>8. CASE full /\ hits # {}
  <2> DEFINE d == Min(hits)
  <2>1. hits \in SUBSET Nat
    BY <1>5
  <2>2. d \in hits /\ \A e \in hits : d <= e
    <3> HIDE DEF hits
    <3> QED
      BY <1>8, <2>1, LeastOfNaturals
  <2>3. d \in 1 .. maxBoth
        /\ (HasZero(w - d) \/ (HasZero(w + d) /\ FirstZero(w + d) < data_capacity_))
    <3> HIDE DEF d
    <3> QED
      BY <2>2
  <2>4. GapInWordsAt(pos, d) = closest_gap(pos)
    BY <1>1, <1>8
  <2> HIDE DEF d
  <2>5. d \in Nat /\ d > 0 /\ d <= maxBoth + 1
    BY <1>5, <2>3
  <2>6. \A e \in hits : e >= d
    BY <2>1, <2>2, <2>5
  <2>7. NoneWithin(pos, d)
    BY <1>7, <1>8, <2>5, <2>6
  <2>8. w - d \in Words /\ w + d \in Words
    BY <1>2, <1>5, <2>3 DEF Words
  <2>9. Nearest(pos, GapInWordsAt(pos, d))
    <3> HIDE DEF hits
    <3> QED
      BY <2>3, <2>5, <2>7, <2>8, GapInWordsAtIsNearest
  <2> QED
    BY <2>4, <2>9 DEF Nearest
<1>9. CASE full /\ hits = {}
  <2> DEFINE D == maxBoth + 1
  <2>1. D \in Nat /\ D > 0 /\ D <= maxBoth + 1
        /\ D = (IF w > maxRight THEN maxRight ELSE w) + 1
    BY <1>4, <1>5
  <2>2. closest_gap(pos) = GapOnOneSide(w, D)
    BY <1>1, <1>9
  <2> HIDE DEF D
  <2>3. NoneWithin(pos, D)
    BY <1>7, <1>9, <2>1
  <2> HIDE DEF hits
  <2> QED
    BY <2>1, <2>2, <2>3, GapOnOneSideIsNearest
<1> QED
  BY <1>6, <1>8, <1>9

\* For every slot of such a bitmap.
LEMMA ClosestGapInSound == Sound => ClosestGapIsClosest
<1>1. ASSUME Sound PROVE ClosestGapIsClosest
  <2> SUFFICES ASSUME NEW gaps, gaps = Slots \ Filled, NEW pos \in Slots,
                      NEW gap, gap = closest_gap(pos)
               PROVE  IF gaps = {} THEN gap = -1
                      ELSE /\ gap \in gaps
                           /\ \A g \in gaps :
                                  \/ Far(pos, gap) < Far(pos, g)
                                  \/ /\ Far(pos, gap) = Far(pos, g)
                                     /\ gap <= g
    BY Zenon DEF ClosestGapIsClosest, Far
  <2>1. gaps = GapSlots
    BY DEF GapSlots
  <2> QED
    BY <1>1, <2>1, ClosestGapIsNearest DEF Nearest
<1> QED
  BY <1>1

\* Finding an insert position (alex_nodes.h 2109-2255): however the words hold
\* the bits, the gap closest_gap returns is one nearest to the slot asked about,
\* the left one of two, and -1 only if there is none.
THEOREM GapFoundIsClosest == ASSUME ShapesAreSound PROVE Spec => []ClosestGapIsClosest
BY ClosestGapInSound, SoundIsInvariant, PTL

-----------------------------------------------------------------------------
(* Counting the keys of a range.                                           *)

\* The filled slots by word and bit; there are finitely many.
LEMMA FilledByWord ==
    ASSUME Sound
    PROVE  /\ \A f \in Filled : /\ Word(f) \in Words /\ Word(f) \in Nat
                                /\ Bit(f) \in 0 .. (W - 1)
                                /\ Bit(f) \in bitmap_[Word(f)]
                                /\ f = Word(f) * W + Bit(f)
                                /\ f \in Nat /\ f < data_capacity_
           /\ \A w \in Words : \A b \in bitmap_[w] :
                  /\ b \in 0 .. (W - 1) /\ w * W + b \in Filled
                  /\ Word(w * W + b) = w /\ Bit(w * W + b) = b
           /\ IsFiniteSet(Filled)
           /\ \A w \in Words : IsFiniteSet(bitmap_[w])
<1>1. /\ W \in Nat /\ W > 0 /\ data_capacity_ \in Nat /\ TypeOK
      /\ Words \in SUBSET Nat
  BY WordFacts DEF Sound, Words
<1>2. ASSUME NEW f \in Filled
      PROVE  /\ Word(f) \in Words /\ Word(f) \in Nat /\ Bit(f) \in 0 .. (W - 1)
             /\ Bit(f) \in bitmap_[Word(f)] /\ f = Word(f) * W + Bit(f)
             /\ f \in Nat /\ f < data_capacity_
  <2>1. f \in Slots
    BY DEF Filled
  <2>2. f \in Nat /\ f < data_capacity_
    BY <1>1, <2>1 DEF Slots
  <2>3. /\ Word(f) \in Words /\ Bit(f) \in Bits /\ Bit(f) \in bitmap_[Word(f)]
        /\ f = Word(f) * W + Bit(f)
    BY Zenon, FilledFacts DEF Word, Bit
  <2> QED
    BY <1>1, <2>2, <2>3 DEF Bits
<1>3. ASSUME NEW w \in Words, NEW b \in bitmap_[w]
      PROVE  /\ b \in 0 .. (W - 1) /\ w * W + b \in Filled
             /\ Word(w * W + b) = w /\ Bit(w * W + b) = b
  <2>1. b \in Bits /\ b \in 0 .. (W - 1) /\ w \in Nat
    BY <1>1 DEF TypeOK, Bits
  <2>2. w * W + b \in Filled
    BY <2>1, FilledFacts
  <2> QED
    BY <1>1, <2>1, <2>2, WordOfSlot DEF Word, Bit
<1>4. IsFiniteSet(Filled)
  <2>1. IsFiniteSet(Slots)
    BY <1>1, FS_Interval DEF Slots
  <2>2. Filled \in SUBSET Slots
    BY DEF Filled
  <2> QED
    BY <2>1, <2>2, FS_Subset
<1>5. ASSUME NEW w \in Words PROVE IsFiniteSet(bitmap_[w])
  <2>1. IsFiniteSet(0 .. (W - 1))
    BY <1>1, FS_Interval
  <2>2. bitmap_[w] \in SUBSET (0 .. (W - 1))
    BY <1>1 DEF TypeOK, Bits
  <2> QED
    BY <2>1, <2>2, FS_Subset
<1> QED
  BY <1>2, <1>3, <1>4, <1>5, Zenon

\* The filled slots of a word whose bits are in a set, as many as the bits.
PartOf(w, P) == {f \in Filled : Word(f) = w /\ Bit(f) \in P}

LEMMA PartOfWord ==
    ASSUME Sound, NEW w \in Words, NEW P \in SUBSET bitmap_[w]
    PROVE  /\ IsFiniteSet(PartOf(w, P)) /\ IsFiniteSet(P)
           /\ Cardinality(PartOf(w, P)) = Cardinality(P)
           /\ Cardinality(P) \in Nat
<1>1. IsFiniteSet(P)
  BY FilledByWord, FS_Subset
<1> DEFINE T == PartOf(w, P)
           F == [b \in P |-> w * W + b]
<1>2. ASSUME NEW b \in P
      PROVE  /\ w * W + b \in T /\ Bit(w * W + b) = b
  BY FilledByWord DEF PartOf
<1>3. ASSUME NEW f \in T PROVE Bit(f) \in P /\ f = w * W + Bit(f)
  BY FilledByWord DEF PartOf
<1> HIDE DEF T
<1>4. F \in [P -> T]
  BY <1>2
<1>5. \A a, b \in P : F[a] = F[b] => a = b
  BY <1>2
<1>6. \A f \in T : \E b \in P : F[b] = f
  BY <1>3
<1>7. ExistsBijection(P, T)
  <2>1. F \in Bijection(P, T)
    BY <1>4, <1>5, <1>6, Fun_IsBij
  <2> QED
    BY <2>1, Fun_ExistsBij
<1>8. IsFiniteSet(T) /\ Cardinality(T) = Cardinality(P)
  BY <1>1, <1>7, FS_Bijection
<1> QED
  BY <1>1, <1>8, FS_CardinalityType DEF T

\* The ones of some words, as the fold num_keys_in_range uses adds them up.
OnesOf(S) == LET Count(v) == Cardinality(bitmap_[v]) IN MapThenSumSet(Count, S)

\* The filled slots of some words.
FilledIn(S) == {f \in Filled : Word(f) \in S}

\* With a word more, as many more as the word has ones.
LEMMA OneWordMore ==
    ASSUME Sound, NEW S \in SUBSET Words, NEW x \in S
    PROVE  Cardinality(FilledIn(S)) =
               Cardinality(bitmap_[x]) + Cardinality(FilledIn(S \ {x}))
<1> DEFINE A == PartOf(x, bitmap_[x])
           B == FilledIn(S \ {x})
<1>1. IsFiniteSet(A) /\ Cardinality(A) = Cardinality(bitmap_[x])
      /\ Cardinality(bitmap_[x]) \in Nat
  BY PartOfWord
<1>2. IsFiniteSet(B) /\ Cardinality(B) \in Nat
  <2>1. B \in SUBSET Filled
    BY DEF FilledIn
  <2> QED
    BY <2>1, FilledByWord, FS_Subset, FS_CardinalityType
<1>3. FilledIn(S) = A \cup B /\ A \cap B = {}
  BY FilledByWord DEF FilledIn, PartOf
<1> HIDE DEF A, B
<1>4. Cardinality(A \cup B) = Cardinality(A) + Cardinality(B) - Cardinality({})
  BY <1>1, <1>2, <1>3, FS_Union
<1>5. Cardinality({}) = 0
  BY FS_EmptySet
<1> QED
  BY <1>1, <1>2, <1>3, <1>4, <1>5 DEF B

\* The words are finitely many.
LEMMA WordsAreFinite == ASSUME Sound PROVE IsFiniteSet(Words)
<1>1. bitmap_size_ \in Nat
  BY WordFacts
<1> QED
  BY <1>1, FS_Interval DEF Words

\* The fold adds up the filled slots of the words: whichever word it takes next.
LEMMA OnesAreFilled ==
    ASSUME Sound, NEW S \in SUBSET Words
    PROVE  OnesOf(S) = Cardinality(FilledIn(S))
<1> DEFINE Pick(s) == CHOOSE x \in s : TRUE
           Sums(sums) == sums = [s \in SUBSET S |->
                                    IF s = {} THEN 0
                                    ELSE Cardinality(bitmap_[Pick(s)]) + sums[s \ {Pick(s)}]]
           iter == CHOOSE sums : Sums(sums)
           h == [s \in SUBSET S |-> Cardinality(FilledIn(s))]
<1>1. OnesOf(S) = iter[S]
  BY Zenon DEF OnesOf, MapThenSumSet, MapThenFoldSet
<1>2. ASSUME NEW s \in SUBSET S, s # {}
      PROVE  Pick(s) \in s /\ s \ {Pick(s)} \in SUBSET S
  BY <1>2
<1>3. ASSUME NEW s \in SUBSET S
      PROVE  h[s] = IF s = {} THEN 0
                    ELSE Cardinality(bitmap_[Pick(s)]) + h[s \ {Pick(s)}]
  <2>1. CASE s = {}
    <3>1. FilledIn(s) = {}
      BY <2>1 DEF FilledIn
    <3> QED
      BY <2>1, <3>1, FS_EmptySet
  <2>2. CASE s # {}
    <3>1. Pick(s) \in s /\ s \ {Pick(s)} \in SUBSET S
      BY <1>2, <2>2
    <3>2. Cardinality(FilledIn(s)) = Cardinality(bitmap_[Pick(s)])
              + Cardinality(FilledIn(s \ {Pick(s)}))
      <4> HIDE DEF Pick
      <4> QED
        BY <3>1, OneWordMore
    <3>3. h[s] = Cardinality(FilledIn(s))
          /\ h[s \ {Pick(s)}] = Cardinality(FilledIn(s \ {Pick(s)}))
      <4> HIDE DEF Pick
      <4> QED
        BY <3>1
    <3> HIDE DEF Pick, h
    <3> QED
      BY <2>2, <3>2, <3>3
  <2> QED
    BY <2>1, <2>2
<1>4. Sums(h)
  <2>1. \A s \in SUBSET S : h[s] =
            [t \in SUBSET S |->
                IF t = {} THEN 0
                ELSE Cardinality(bitmap_[Pick(t)]) + h[t \ {Pick(t)}]][s]
    <3> HIDE DEF Pick, h
    <3> QED
      BY <1>3
  <2>2. h = [s \in SUBSET S |-> h[s]]
    OBVIOUS
  <2> HIDE DEF Pick, h
  <2> QED
    BY <2>1, <2>2
<1>5. Sums(iter)
  <2> HIDE DEF Sums, h
  <2> QED
    BY <1>4
<1>6. ASSUME NEW s \in SUBSET S
      PROVE  iter[s] = IF s = {} THEN 0
                       ELSE Cardinality(bitmap_[Pick(s)]) + iter[s \ {Pick(s)}]
  <2> HIDE DEF iter, Pick
  <2> QED
    BY <1>5, <1>6
<1> HIDE DEF iter, h, Sums
<1> DEFINE Wrong == {n \in Nat : \E s \in SUBSET S :
                                     Cardinality(s) = n /\ iter[s] # h[s]}
<1>7. Wrong = {}
  <2> SUFFICES ASSUME Wrong # {} PROVE FALSE
    OBVIOUS
  <2> DEFINE n == Min(Wrong)
  <2>1. n \in Wrong /\ \A i \in Wrong : n <= i
    <3>1. Wrong \in SUBSET Nat
      OBVIOUS
    <3> HIDE DEF Wrong
    <3> QED
      BY <3>1, LeastOfNaturals
  <2>2. PICK s \in SUBSET S : Cardinality(s) = n /\ iter[s] # h[s]
    BY <2>1
  <2>3. n \in Nat
    BY <2>1
  <2> HIDE DEF n
  <2>4. s # {}
    BY <1>3, <1>6, <2>2
  <2> DEFINE t == s \ {Pick(s)}
  <2>5. Pick(s) \in s /\ t \in SUBSET S
    BY <1>2, <2>4
  <2>6. Cardinality(t) = n - 1 /\ n - 1 \in Nat
    <3>1. IsFiniteSet(s)
      BY WordsAreFinite, FS_Subset
    <3>2. IsFiniteSet(t) /\ Cardinality(t) = Cardinality(s) - 1
      <4> HIDE DEF Pick
      <4> QED
        BY <2>5, <3>1, FS_RemoveElement
    <3>3. Cardinality(t) \in Nat
      BY <3>2, FS_CardinalityType
    <3> HIDE DEF t, Pick
    <3> QED
      BY <2>2, <2>3, <3>2, <3>3
  <2>7. iter[t] # h[t]
    <3>1. iter[s] = Cardinality(bitmap_[Pick(s)]) + iter[t]
      <4> HIDE DEF Pick
      <4> QED
        BY <1>6, <2>4
    <3>2. h[s] = Cardinality(bitmap_[Pick(s)]) + h[t]
      <4> HIDE DEF Pick
      <4> QED
        BY <1>3, <2>4
    <3> HIDE DEF Pick, t
    <3> QED
      BY <2>2, <3>1, <3>2
  <2>8. n - 1 \in Wrong
    <3> HIDE DEF t, Pick
    <3> QED
      BY <2>5, <2>6, <2>7
  <2>9. n <= n - 1
    <3> HIDE DEF Wrong
    <3> QED
      BY <2>1, <2>8
  <2> QED
    BY <2>3, <2>9
<1>8. iter[S] = h[S]
  <2>1. IsFiniteSet(S)
    BY WordsAreFinite, FS_Subset
  <2>2. Cardinality(S) \in Nat
    BY <2>1, FS_CardinalityType
  <2> QED
    BY <1>7, <2>2
<1>9. h[S] = Cardinality(FilledIn(S))
  BY DEF h
<1> QED
  BY <1>1, <1>8, <1>9

\* The order of filled slots and positions, by word and bit.
LEMMA FilledInOrder ==
    ASSUME Sound, NEW f \in Filled, NEW x \in Nat
    PROVE  /\ f < x <=> Word(f) < Word(x) \/ (Word(f) = Word(x) /\ Bit(f) < Bit(x))
           /\ Word(x) \in Nat /\ Bit(x) \in 0 .. (W - 1)
           /\ x = Word(x) * W + Bit(x)
<1>1. W \in Nat /\ W > 0
  BY DEF Sound
<1>2. Word(x) \in Nat /\ Bit(x) \in 0 .. (W - 1) /\ x = Word(x) * W + Bit(x)
  BY <1>1, WordAndBit DEF Word, Bit
<1>3. /\ Word(f) \in Nat /\ Bit(f) \in 0 .. (W - 1) /\ f \in Nat
      /\ f = Word(f) * W + Bit(f)
  BY FilledByWord
<1> DEFINE u == Word(f)
           a == Bit(f)
           v == Word(x)
           b == Bit(x)
<1>4. u \in Nat /\ a \in 0 .. (W - 1) /\ v \in Nat /\ b \in 0 .. (W - 1)
      /\ f = u * W + a /\ x = v * W + b
  BY <1>2, <1>3
<1> HIDE DEF u, a, v, b
<1>5. /\ u < v => f < x
      /\ v < u => x < f
      /\ u = v /\ b <= a => x <= f
      /\ u = v /\ a <= b => f <= x
      /\ f = x => u = v /\ a = b
  BY <1>1, <1>4, WordsInOrder
<1>6. f < x <=> u < v \/ (u = v /\ a < b)
  BY <1>3, <1>4, <1>5
<1> QED
  BY <1>2, <1>6 DEF u, a, v, b

\* The filled slots of a range.
FilledBetween(left, right) == {pos \in Filled : left <= pos /\ pos < right}

\* A range within a word.
LEMMA RangeInWord ==
    ASSUME Sound, NEW left \in Nat, NEW right \in Nat, Word(left) = Word(right),
           Word(left) \in Words
    PROVE  Cardinality(FilledBetween(left, right)) =
               Cardinality(BitsBefore(BitsFrom(bitmap_[Word(left)], Bit(left)),
                                      Bit(right)))
<1> DEFINE w == Word(left)
           P == BitsBefore(BitsFrom(bitmap_[w], Bit(left)), Bit(right))
<1>1. P \in SUBSET bitmap_[w]
  BY DEF BitsBefore, BitsFrom
<1>2. FilledBetween(left, right) = PartOf(w, P)
  <2>1. ASSUME NEW f \in Filled
        PROVE  left <= f /\ f < right <=> Word(f) = w /\ Bit(f) \in P
    <3>1. /\ f < left <=> Word(f) < w \/ (Word(f) = w /\ Bit(f) < Bit(left))
          /\ f < right <=> Word(f) < w \/ (Word(f) = w /\ Bit(f) < Bit(right))
          /\ w \in Nat /\ Bit(left) \in Int /\ Bit(right) \in Int
      BY FilledInOrder
    <3>2. f \in Nat /\ Word(f) \in Nat /\ Bit(f) \in Nat /\ Bit(f) \in bitmap_[Word(f)]
      BY FilledByWord
    <3>3. Bit(f) \in P <=> Bit(f) \in bitmap_[w] /\ Bit(f) >= Bit(left)
                           /\ Bit(f) < Bit(right)
      BY DEF BitsBefore, BitsFrom
    <3> HIDE DEF P, w
    <3> QED
      BY <3>1, <3>2, <3>3
  <2> QED
    BY <2>1 DEF FilledBetween, PartOf
<1> QED
  BY <1>1, <1>2, PartOfWord

\* A range over several words: the end of the first, the words between, and the
\* beginning of the last, if there is one.
LEMMA RangeOverWords ==
    ASSUME Sound, NEW left \in Nat, NEW right \in Nat, right <= data_capacity_,
           Word(left) < Word(right)
    PROVE  /\ Word(left) \in Words
           /\ Word(right) # bitmap_size_ => Word(right) \in Words
           /\ Cardinality(FilledBetween(left, right)) =
                  Cardinality(BitsFrom(bitmap_[Word(left)], Bit(left)))
                    + OnesOf((Word(left) + 1) .. (Word(right) - 1))
                    + IF Word(right) = bitmap_size_ THEN 0
                      ELSE Cardinality(BitsBefore(bitmap_[Word(right)], Bit(right)))
<1> DEFINE lw == Word(left)
           rw == Word(right)
           between == (lw + 1) .. (rw - 1)
           P == BitsFrom(bitmap_[lw], Bit(left))
           Q == IF rw = bitmap_size_ THEN {} ELSE BitsBefore(bitmap_[rw], Bit(right))
           A == PartOf(lw, P)
           B == FilledIn(between)
           C == PartOf(rw, Q)
<1>1. /\ W \in Nat /\ W > 0 /\ data_capacity_ \in Nat /\ bitmap_size_ \in Nat
      /\ \A w \in Nat : w \in Words <=> w * W < data_capacity_
      /\ lw \in Nat /\ rw \in Nat /\ lw < rw
      /\ Bit(left) \in 0 .. (W - 1) /\ Bit(right) \in 0 .. (W - 1)
      /\ left = lw * W + Bit(left) /\ right = rw * W + Bit(right)
  <2>1. ASSUME NEW x \in Nat
        PROVE  Word(x) \in Nat /\ Bit(x) \in 0 .. (W - 1) /\ x = Word(x) * W + Bit(x)
    BY WordAndBit DEF Sound, Word, Bit
  <2> QED
    BY <2>1, WordFacts DEF Sound
<1>2. rw <= bitmap_size_
  <2> SUFFICES ASSUME rw >= bitmap_size_ + 1 PROVE FALSE
    BY <1>1
  <2>1. ~(bitmap_size_ * W < data_capacity_)
    <3>1. bitmap_size_ \notin Words
      BY <1>1 DEF Words
    <3> QED
      BY <1>1, <3>1
  <2>2. rw * W >= bitmap_size_ * W + W
    <3>1. (rw - bitmap_size_) * W >= 1 * W
      BY <1>1
    <3>2. (rw - bitmap_size_) * W = rw * W - bitmap_size_ * W
      BY <1>1
    <3>3. rw * W \in Nat /\ bitmap_size_ * W \in Nat
      BY <1>1
    <3> QED
      BY <1>1, <3>1, <3>2, <3>3
  <2> DEFINE x == rw * W
             y == bitmap_size_ * W
  <2>3. x \in Nat /\ y \in Nat /\ x >= y + W /\ ~(y < data_capacity_)
        /\ right = x + Bit(right)
    BY <1>1, <2>1, <2>2
  <2> HIDE DEF x, y
  <2> QED
    BY <1>1, <2>3
<1>3. lw \in Words /\ (rw # bitmap_size_ => rw \in Words) /\ between \in SUBSET Words
  BY <1>1, <1>2 DEF Words
<1>4. /\ P \in SUBSET bitmap_[lw]
      /\ rw # bitmap_size_ => Q \in SUBSET bitmap_[rw]
  BY DEF BitsFrom, BitsBefore
<1>5. IsFiniteSet(A) /\ Cardinality(A) = Cardinality(P) /\ Cardinality(P) \in Nat
  BY <1>3, <1>4, PartOfWord
<1>6. IsFiniteSet(B) /\ Cardinality(B) \in Nat /\ OnesOf(between) = Cardinality(B)
  <2>1. B \in SUBSET Filled
    BY DEF FilledIn
  <2>2. IsFiniteSet(B) /\ Cardinality(B) \in Nat
    <3> HIDE DEF B
    <3> QED
      BY <2>1, FilledByWord, FS_Subset, FS_CardinalityType
  <2>3. OnesOf(between) = Cardinality(B)
    <3> HIDE DEF between
    <3> QED
      BY <1>3, OnesAreFilled
  <2> QED
    BY <2>2, <2>3
<1>7. IsFiniteSet(C) /\ Cardinality(C) = Cardinality(Q) /\ Cardinality(Q) \in Nat
  <2>1. CASE rw = bitmap_size_
    <3>1. Q = {} /\ C = {}
      BY <2>1 DEF PartOf
    <3> QED
      BY <3>1, FS_EmptySet
  <2>2. CASE rw # bitmap_size_
    <3>1. rw \in Words /\ Q \in SUBSET bitmap_[rw]
      BY <1>3, <1>4, <2>2
    <3> HIDE DEF Q
    <3> QED
      BY <3>1, PartOfWord
  <2> QED
    BY <2>1, <2>2
<1>8. ASSUME NEW f \in Filled
      PROVE  /\ left <= f /\ f < right <=> f \in A \/ f \in B \/ f \in C
             /\ ~(f \in A /\ f \in B) /\ ~(f \in A /\ f \in C) /\ ~(f \in B /\ f \in C)
  <2>1. /\ f < left <=> Word(f) < lw \/ (Word(f) = lw /\ Bit(f) < Bit(left))
        /\ f < right <=> Word(f) < rw \/ (Word(f) = rw /\ Bit(f) < Bit(right))
    BY FilledInOrder
  <2>2. f \in Nat /\ Word(f) \in Nat /\ Bit(f) \in Nat /\ Bit(f) \in bitmap_[Word(f)]
        /\ Word(f) # bitmap_size_
    BY <1>1, FilledByWord DEF Words
  <2>3. f \in A <=> Word(f) = lw /\ Bit(f) >= Bit(left)
    BY <2>2 DEF PartOf, BitsFrom
  <2>4. f \in B <=> Word(f) >= lw + 1 /\ Word(f) <= rw - 1
    BY <1>1, <2>2 DEF FilledIn
  <2>5. f \in C <=> Word(f) = rw /\ Bit(f) < Bit(right)
    BY <2>2 DEF PartOf, BitsBefore
  <2> HIDE DEF A, B, C, lw, rw
  <2> QED
    BY <1>1, <2>1, <2>2, <2>3, <2>4, <2>5
<1>9. FilledBetween(left, right) = (A \cup B) \cup C
      /\ A \cap B = {} /\ (A \cup B) \cap C = {}
  <2>1. A \in SUBSET Filled /\ B \in SUBSET Filled /\ C \in SUBSET Filled
    BY DEF PartOf, FilledIn
  <2> HIDE DEF A, B, C
  <2> QED
    BY <1>8, <2>1 DEF FilledBetween
<1> HIDE DEF A, B, C, P, Q
<1>10. Cardinality(A \cup B) = Cardinality(A) + Cardinality(B)
       /\ IsFiniteSet(A \cup B)
  <2>1. Cardinality(A \cup B) = Cardinality(A) + Cardinality(B) - Cardinality(A \cap B)
        /\ IsFiniteSet(A \cup B)
    BY <1>5, <1>6, FS_Union
  <2>2. Cardinality(A \cap B) = 0 /\ Cardinality(A) \in Nat
    BY <1>5, <1>9, FS_EmptySet
  <2> QED
    BY <1>6, <2>1, <2>2
<1>11. Cardinality((A \cup B) \cup C) = Cardinality(A \cup B) + Cardinality(C)
  <2>1. Cardinality((A \cup B) \cup C) =
            Cardinality(A \cup B) + Cardinality(C) - Cardinality((A \cup B) \cap C)
    BY <1>7, <1>10, FS_Union
  <2>2. Cardinality((A \cup B) \cap C) = 0
    BY <1>9, FS_EmptySet
  <2>3. Cardinality(A \cup B) \in Nat /\ Cardinality(C) \in Nat
    BY <1>7, <1>10, FS_CardinalityType
  <2> QED
    BY <2>1, <2>2, <2>3
<1>12. Cardinality(Q) = IF rw = bitmap_size_ THEN 0
                        ELSE Cardinality(BitsBefore(bitmap_[rw], Bit(right)))
  BY FS_EmptySet DEF Q
<1>13. Cardinality(FilledBetween(left, right)) =
           Cardinality(P) + OnesOf(between) + Cardinality(Q)
  BY <1>5, <1>6, <1>7, <1>9, <1>10, <1>11
<1> QED
  BY <1>3, <1>12, <1>13 DEF P

\* For every range of such a bitmap.
LEMMA CountsInSound == Sound => CountsRange
<1>1. ASSUME Sound, NEW left \in 0 .. data_capacity_, NEW right \in 0 .. data_capacity_,
             left <= right
      PROVE  num_keys_in_range(left, right) =
                 {Cardinality(FilledBetween(left, right))}
  <2> DEFINE lw == Word(left)
             rw == Word(right)
  <2>1. num_keys_in_range(left, right) =
            IF lw = rw
            THEN {Cardinality(BitsBefore(BitsFrom(word, Bit(left)), Bit(right))) :
                      word \in Read(lw)}
            ELSE {Cardinality(BitsFrom(bitmap_[lw], Bit(left)))
                    + OnesOf((lw + 1) .. (rw - 1))
                    + IF rw = bitmap_size_ THEN 0
                      ELSE Cardinality(BitsBefore(bitmap_[rw], Bit(right)))}
    BY Zenon DEF num_keys_in_range, OnesOf, Word, Bit
  <2>2. /\ left \in Nat /\ right \in Nat /\ right <= data_capacity_
        /\ W \in Nat /\ W > 0 /\ data_capacity_ \in Nat /\ left <= data_capacity_
    BY <1>1 DEF Sound
  <2>3. /\ lw \in Nat /\ Bit(left) \in 0 .. (W - 1) /\ left = lw * W + Bit(left)
        /\ rw \in Nat /\ Bit(right) \in 0 .. (W - 1) /\ right = rw * W + Bit(right)
    BY <2>2, WordAndBit DEF Word, Bit
  <2>4. CASE lw = rw /\ lw \in Words
    <3>1. Read(lw) = {bitmap_[lw]}
      BY <2>4 DEF Read
    <3>2. Cardinality(FilledBetween(left, right)) =
              Cardinality(BitsBefore(BitsFrom(bitmap_[lw], Bit(left)), Bit(right)))
      BY <1>1, <2>2, <2>4, RangeInWord
    <3> QED
      BY <2>1, <2>4, <3>1, <3>2
  <2>5. CASE lw = rw /\ lw \notin Words
    <3>1. ~(lw * W < data_capacity_)
      BY <1>1, <2>3, <2>5, WordFacts
    <3>2. Bit(left) = 0 /\ Bit(right) = 0 /\ left = right
      <4> DEFINE x == lw * W
      <4>1. x \in Nat /\ ~(x < data_capacity_) /\ left = x + Bit(left)
            /\ right = x + Bit(right)
        BY <2>2, <2>3, <2>5, <3>1
      <4>2. Bit(left) \in Nat /\ Bit(right) \in Nat
        BY <2>2, <2>3
      <4> HIDE DEF x
      <4> QED
        BY <1>1, <2>2, <4>1, <4>2
    <3>3. \A word \in SUBSET Bits : BitsBefore(BitsFrom(word, Bit(left)), Bit(right)) = {}
      <4> SUFFICES ASSUME NEW word \in SUBSET Bits,
                          NEW b \in BitsBefore(BitsFrom(word, Bit(left)), Bit(right))
                   PROVE  FALSE
        OBVIOUS
      <4>1. b \in Bits /\ b < Bit(right)
        BY DEF BitsBefore, BitsFrom
      <4> QED
        BY <2>2, <3>2, <4>1 DEF Bits
    <3>4. FilledBetween(left, right) = {}
      BY <1>1, <2>2, <3>2, FilledFacts DEF FilledBetween
    <3>5. Read(lw) = SUBSET Bits
      BY <2>5 DEF Read
    <3>6. {} \in SUBSET Bits
      OBVIOUS
    <3>7. {Cardinality(BitsBefore(BitsFrom(word, Bit(left)), Bit(right))) :
                      word \in Read(lw)} = {Cardinality({})}
      BY <3>3, <3>5, <3>6
    <3> QED
      BY <2>1, <2>5, <3>4, <3>7
  <2>6. CASE lw # rw
    <3>1. lw < rw
      <4> SUFFICES ASSUME rw + 1 <= lw PROVE FALSE
        BY <2>3, <2>6
      <4>1. rw * W + W <= lw * W /\ rw * W \in Nat /\ lw * W \in Nat
        <5>1. (lw - rw) * W >= 1 * W
          BY <2>2, <2>3
        <5>2. (lw - rw) * W = lw * W - rw * W
          BY <2>2, <2>3
        <5>3. rw * W \in Nat /\ lw * W \in Nat
          BY <2>2, <2>3
        <5> QED
          BY <2>2, <5>1, <5>2, <5>3
      <4> DEFINE x == lw * W
                 y == rw * W
      <4>2. x \in Nat /\ y \in Nat /\ y + W <= x /\ left = x + Bit(left)
            /\ right = y + Bit(right)
        BY <2>3, <4>1
      <4> HIDE DEF x, y, lw, rw
      <4> QED
        BY <1>1, <2>2, <2>3, <4>2
    <3> QED
      BY <1>1, <2>1, <2>2, <2>6, <3>1, RangeOverWords
  <2> QED
    BY <2>4, <2>5, <2>6
<1> QED
  BY <1>1 DEF CountsRange, FilledBetween

\* Counting keys (alex_nodes.h 716-750): the ones num_keys_in_range adds up, by
\* parts of words and by whole words, are the keys of exactly the slots asked
\* about.
THEOREM KeysOfRangeAreCounted == ASSUME ShapesAreSound PROVE Spec => []CountsRange
BY CountsInSound, SoundIsInvariant, PTL

-----------------------------------------------------------------------------
\* The bitmap of the leaf is sound at first.
LEMMA InitIteratorsIsSound == ASSUME ShapesAreSound PROVE InitIterators => Sound
BY InitIsSound DEF InitIterators

\* It stays so: it changes only as long as there is no iterator.
LEMMA IteratorsKeepSound == Sound /\ [NextIterators]_iteratorVars => Sound'
<1>1. [NextIterators]_iteratorVars => [Next]_vars
  BY DEF NextIterators, iteratorVars, Link, Start, Advance, TurnRound
<1> QED
  BY <1>1, NextKeepsSound

-----------------------------------------------------------------------------
(* Places in their order.                                                  *)

\* A set of places, by leaf and number.
Places(S) == \A q \in S : \E l, n \in Nat : q = <<l, n>>

\* A place before all the others of its set is the first of them.
LEMMA FirstIsFirst ==
    ASSUME NEW S, Places(S), NEW p \in S, \A q \in S : q = p \/ Before(p, q)
    PROVE  FirstOf(S) = p
<1>1. \A q \in S : q[1] \in Nat /\ q[2] \in Nat
  BY DEF Places
<1>2. \A q \in S : ~Before(q, p)
  BY <1>1 DEF Before
<1>3. \A x \in S : (\A q \in S : ~Before(q, x)) => x = p
  OBVIOUS
<1>4. (CHOOSE x \in S : \A q \in S : ~Before(q, x)) = p
  BY <1>2, <1>3
<1> QED
  BY <1>4 DEF FirstOf

\* And one after all the others is the last.
LEMMA LastIsLast ==
    ASSUME NEW S, Places(S), NEW p \in S, \A q \in S : q = p \/ Before(q, p)
    PROVE  LastOf(S) = p
<1>1. \A q \in S : q[1] \in Nat /\ q[2] \in Nat
  BY DEF Places
<1>2. \A q \in S : ~Before(p, q)
  BY <1>1 DEF Before
<1>3. \A x \in S : (\A q \in S : ~Before(x, q)) => x = p
  OBVIOUS
<1>4. (CHOOSE x \in S : \A q \in S : ~Before(x, q)) = p
  BY <1>2, <1>3
<1> QED
  BY <1>4 DEF LastOf

\* There is a first place.
LEMMA FirstPlace ==
    ASSUME NEW S, Places(S), S # {}
    PROVE  FirstOf(S) \in S /\ \A q \in S : q = FirstOf(S) \/ Before(FirstOf(S), q)
<1> DEFINE L == {q[1] : q \in S}
           l == Min(L)
           N == {n \in Nat : <<l, n>> \in S}
           n == Min(N)
<1>1. \A q \in S : q[1] \in Nat /\ q[2] \in Nat /\ q = <<q[1], q[2]>>
  BY DEF Places
<1>2. L \in SUBSET Nat /\ L # {}
  BY <1>1
<1>3. l \in L /\ \A i \in L : l <= i
  BY <1>2, LeastOfNaturals
<1>4. PICK q0 \in S : q0[1] = l
  BY <1>3
<1>5. l \in Nat /\ \A q \in S : l <= q[1]
  BY <1>2, <1>3
<1> HIDE DEF L, l
<1>6. N \in SUBSET Nat /\ q0[2] \in N
  BY <1>1, <1>4
<1>7. n \in N /\ \A i \in N : n <= i
  BY <1>6, LeastOfNaturals
<1>8. <<l, n>> \in S /\ n \in Nat
  BY <1>7
<1>9. \A q \in S : q[1] = l => q[2] \in N
  BY <1>1
<1> HIDE DEF N, n
<1>10. ASSUME NEW q \in S PROVE q = <<l, n>> \/ Before(<<l, n>>, q)
  BY <1>1, <1>5, <1>7, <1>8, <1>9 DEF Before
<1>11. FirstOf(S) = <<l, n>>
  BY <1>8, <1>10, FirstIsFirst
<1> QED
  BY <1>8, <1>10, <1>11

\* And a last one, if there are only so many leaves and places in each.
LEMMA LastPlace ==
    ASSUME NEW S, Places(S), S # {}, NEW top \in Nat, NEW size,
           \A q \in S : q[1] <= top /\ size[q[1]] \in Nat /\ q[2] <= size[q[1]]
    PROVE  LastOf(S) \in S /\ \A q \in S : q = LastOf(S) \/ Before(q, LastOf(S))
<1> DEFINE L == {q[1] : q \in S}
           l == Max(L)
           N == {n \in Nat : <<l, n>> \in S}
           n == Max(N)
<1>1. \A q \in S : q[1] \in Nat /\ q[2] \in Nat /\ q = <<q[1], q[2]>>
  BY DEF Places
<1>2. L \in SUBSET (0 .. top) /\ L # {}
  BY <1>1
<1>3. l \in L /\ \A i \in L : l >= i
  BY <1>2, GreatestOfNaturals
<1>4. PICK q0 \in S : q0[1] = l
  BY <1>3
<1>5. l \in Nat /\ \A q \in S : l >= q[1]
  BY <1>2, <1>3
<1>6. size[l] \in Nat
  BY <1>4
<1> HIDE DEF L, l
<1>7. N \in SUBSET (0 .. size[l]) /\ q0[2] \in N
  <2>1. ASSUME NEW i \in N PROVE i \in Nat /\ i <= size[l]
    <3>1. <<l, i>>[1] = l /\ <<l, i>>[2] = i /\ <<l, i>> \in S
      OBVIOUS
    <3> QED
      BY <3>1, <1>6
  <2> QED
    BY <1>1, <1>4, <1>6, <2>1
<1>8. n \in N /\ \A i \in N : n >= i
  BY <1>6, <1>7, GreatestOfNaturals
<1>9. <<l, n>> \in S /\ n \in Nat
  BY <1>8
<1>10. \A q \in S : q[1] = l => q[2] \in N
  BY <1>1
<1> HIDE DEF N, n
<1>11. ASSUME NEW q \in S PROVE q = <<l, n>> \/ Before(q, <<l, n>>)
  BY <1>1, <1>5, <1>8, <1>9, <1>10 DEF Before
<1>12. LastOf(S) = <<l, n>>
  BY <1>9, <1>11, LastIsLast
<1> QED
  BY <1>9, <1>11, <1>12

-----------------------------------------------------------------------------
(* The keys of a chain.                                                    *)

\* A chain of sound leaves.
Chained ==
    /\ W \in Nat /\ W > 0
    /\ Len(chain) \in Nat /\ DOMAIN chain = 1 .. Len(chain)
    /\ \A leaf \in DOMAIN chain : IsLeaf(chain[leaf], W)

WordsOf(leaf) == 0 .. (bitmap_size_of(chain[leaf]) - 1)

SlotAt(w, b) == w * W + b

\* What a leaf of a chain holds.
LEMMA LeafFacts ==
    ASSUME Chained, NEW leaf \in DOMAIN chain
    PROVE  /\ leaf \in Nat /\ leaf >= 1
           /\ chain[leaf].data_capacity_ \in Nat /\ chain[leaf].data_capacity_ > 0
           /\ bitmap_size_of(chain[leaf]) \in Nat
           /\ \A w \in WordsOf(leaf) :
                  /\ w \in Nat /\ chain[leaf].bitmap_[w] \in SUBSET (0 .. (W - 1))
                  /\ \A b \in chain[leaf].bitmap_[w] :
                         SlotAt(w, b) < chain[leaf].data_capacity_
           /\ \A pos \in 0 .. (chain[leaf].data_capacity_ - 1) :
                  Word(pos) \in WordsOf(leaf)
<1> DEFINE cap == chain[leaf].data_capacity_
           size == bitmap_size_of(chain[leaf])
<1>1. /\ W \in Nat /\ W > 0 /\ leaf \in Nat /\ leaf >= 1
      /\ IsLeaf(chain[leaf], W)
  BY DEF Chained
<1>2. /\ cap \in Nat /\ cap > 0
      /\ chain[leaf].bitmap_ \in [WordsOf(leaf) -> SUBSET (0 .. (W - 1))]
      /\ \A w \in WordsOf(leaf) : \A b \in chain[leaf].bitmap_[w] : SlotAt(w, b) < cap
  BY <1>1 DEF IsLeaf, WordsOf, bitmap_size_of, SlotAt
<1>3. size = (cap + W - 1) \div W
  BY DEF bitmap_size_of
<1> HIDE DEF cap, size
<1>4. size \in Nat /\ \A pos \in 0 .. (cap - 1) : pos \div W \in 0 .. (size - 1)
  BY <1>1, <1>2, <1>3, SizeFacts, Zenon
<1>5. \A pos \in 0 .. (cap - 1) : Word(pos) \in WordsOf(leaf)
  BY <1>4, Zenon DEF Word, WordsOf, size
<1>6. \A w \in WordsOf(leaf) :
          /\ w \in Nat /\ chain[leaf].bitmap_[w] \in SUBSET (0 .. (W - 1))
          /\ \A b \in chain[leaf].bitmap_[w] : SlotAt(w, b) < cap
  <2>1. \A w \in WordsOf(leaf) : w \in Nat
    BY <1>4 DEF WordsOf, size
  <2> QED
    BY <1>2, <2>1, Zenon
<1> QED
  BY <1>1, <1>2, <1>4, <1>5, <1>6, Zenon DEF cap, size

\* The places of the keys are those of the words' bits that are one.
LEMMA KeyPlaces ==
    ASSUME Chained
    PROVE  /\ \A q \in KeySlots :
                  /\ q = <<q[1], q[2]>> /\ q[1] \in DOMAIN chain /\ q[2] \in Nat
                  /\ q[2] < chain[q[1]].data_capacity_
                  /\ Word(q[2]) \in WordsOf(q[1])
                  /\ Bit(q[2]) \in chain[q[1]].bitmap_[Word(q[2])]
                  /\ q[2] = SlotAt(Word(q[2]), Bit(q[2]))
           /\ \A leaf \in DOMAIN chain : \A w \in WordsOf(leaf) :
                  \A b \in chain[leaf].bitmap_[w] :
                      /\ SlotAt(w, b) \in Nat
                      /\ Word(SlotAt(w, b)) = w /\ Bit(SlotAt(w, b)) = b
                      /\ SlotAt(w, b) \in FilledOf(leaf)
                      /\ <<leaf, SlotAt(w, b)>> \in KeySlots
           /\ \A leaf \in DOMAIN chain : \A pos \in FilledOf(leaf) :
                  <<leaf, pos>> \in KeySlots
<1>1. W \in Nat /\ W > 0
  BY DEF Chained
<1>2. ASSUME NEW q \in KeySlots
      PROVE  /\ q = <<q[1], q[2]>> /\ q[1] \in DOMAIN chain /\ q[2] \in Nat
             /\ q[2] < chain[q[1]].data_capacity_
             /\ Word(q[2]) \in WordsOf(q[1])
             /\ Bit(q[2]) \in chain[q[1]].bitmap_[Word(q[2])]
             /\ q[2] = SlotAt(Word(q[2]), Bit(q[2]))
  <2>1. PICK leaf \in DOMAIN chain : \E pos \in FilledOf(leaf) : q = <<leaf, pos>>
    BY DEF KeySlots
  <2>2. PICK pos \in FilledOf(leaf) : q = <<leaf, pos>>
    BY <2>1
  <2>3. /\ chain[leaf].data_capacity_ \in Nat
        /\ \A i \in 0 .. (chain[leaf].data_capacity_ - 1) : Word(i) \in WordsOf(leaf)
    BY LeafFacts
  <2>4. /\ pos \in 0 .. (chain[leaf].data_capacity_ - 1)
        /\ Bit(pos) \in chain[leaf].bitmap_[Word(pos)]
    BY DEF FilledOf, Word, Bit
  <2>5. pos \in Nat /\ pos < chain[leaf].data_capacity_
    BY <2>3, <2>4
  <2>6. pos = SlotAt(Word(pos), Bit(pos))
    BY <1>1, <2>5, WordAndBit DEF SlotAt, Word, Bit
  <2> QED
    BY <2>2, <2>3, <2>4, <2>5, <2>6
<1>3. ASSUME NEW leaf \in DOMAIN chain, NEW w \in WordsOf(leaf),
             NEW b \in chain[leaf].bitmap_[w]
      PROVE  /\ SlotAt(w, b) \in Nat
             /\ Word(SlotAt(w, b)) = w /\ Bit(SlotAt(w, b)) = b
             /\ SlotAt(w, b) \in FilledOf(leaf)
             /\ <<leaf, SlotAt(w, b)>> \in KeySlots
  <2>1. /\ w \in Nat /\ b \in 0 .. (W - 1)
        /\ chain[leaf].data_capacity_ \in Nat
        /\ SlotAt(w, b) < chain[leaf].data_capacity_
    BY LeafFacts
  <2>2. SlotAt(w, b) \in Nat
    BY <1>1, <2>1, WordsInOrder DEF SlotAt
  <2>3. Word(SlotAt(w, b)) = w /\ Bit(SlotAt(w, b)) = b
    BY <1>1, <2>1, WordOfSlot DEF SlotAt, Word, Bit
  <2>4. SlotAt(w, b) \in 0 .. (chain[leaf].data_capacity_ - 1)
    BY <2>1, <2>2
  <2>5. SlotAt(w, b) \in FilledOf(leaf)
    BY <2>3, <2>4 DEF FilledOf, Word, Bit
  <2> QED
    BY <2>2, <2>3, <2>5 DEF KeySlots
<1>4. ASSUME NEW leaf \in DOMAIN chain, NEW pos \in FilledOf(leaf)
      PROVE  <<leaf, pos>> \in KeySlots
  BY DEF KeySlots
<1> QED
  BY <1>2, <1>3, <1>4, Zenon

\* Slots are in the order of their words, and within a word of their bits.
LEMMA SlotOrder ==
    ASSUME W \in Nat, W > 0, NEW p \in Nat, NEW q \in Nat
    PROVE  /\ Word(p) \in Nat /\ Bit(p) \in 0 .. (W - 1) /\ p = SlotAt(Word(p), Bit(p))
           /\ p < q <=> (Word(p) < Word(q) \/ (Word(p) = Word(q) /\ Bit(p) < Bit(q)))
           /\ p = q <=> (Word(p) = Word(q) /\ Bit(p) = Bit(q))
<1>1. /\ Word(p) \in Nat /\ Bit(p) \in 0 .. (W - 1) /\ p = SlotAt(Word(p), Bit(p))
      /\ Word(q) \in Nat /\ Bit(q) \in 0 .. (W - 1) /\ q = SlotAt(Word(q), Bit(q))
  BY WordAndBit DEF Word, Bit, SlotAt
<1>2. ASSUME NEW v \in Nat, NEW w \in Nat, NEW b \in 0 .. (W - 1), NEW c \in 0 .. (W - 1)
      PROVE  v < w \/ (v = w /\ b < c) => SlotAt(v, b) < SlotAt(w, c)
  <2>1. SlotAt(v, b) \in Nat /\ SlotAt(w, c) \in Nat
    BY WordsInOrder DEF SlotAt
  <2>2. v < w => SlotAt(v, b) < SlotAt(w, c)
    BY WordsInOrder DEF SlotAt
  <2>3. v = w => SlotAt(v, b) <= SlotAt(w, c) \/ ~(b < c)
    BY WordsInOrder DEF SlotAt
  <2>4. SlotAt(v, b) = SlotAt(w, c) => b = c
    BY WordsInOrder DEF SlotAt
  <2> QED
    BY <2>1, <2>2, <2>3, <2>4
<1>3. Word(p) < Word(q) \/ (Word(p) = Word(q) /\ Bit(p) < Bit(q)) => p < q
  BY <1>1, <1>2
<1>4. Word(q) < Word(p) \/ (Word(p) = Word(q) /\ Bit(q) < Bit(p)) => q < p
  BY <1>1, <1>2
<1>5. Word(p) = Word(q) /\ Bit(p) = Bit(q) => p = q
  BY <1>1
<1> QED
  BY <1>1, <1>3, <1>4, <1>5

-----------------------------------------------------------------------------
(* One step of an iterator.                                                *)

\* The keys from a bit of a word on, and those up to it.
KeysFrom(leaf, w, c) ==
    {q \in KeySlots :
        \/ q[1] > leaf
        \/ q[1] = leaf /\ Word(q[2]) > w
        \/ q[1] = leaf /\ Word(q[2]) = w /\ Bit(q[2]) >= c}

KeysUpTo(leaf, w, c) ==
    {q \in KeySlots :
        \/ q[1] < leaf
        \/ q[1] = leaf /\ Word(q[2]) < w
        \/ q[1] = leaf /\ Word(q[2]) = w /\ Bit(q[2]) <= c}

\* What is left of a word for an iterator that has passed a bit.
RestOf(way, word, bit) ==
    {b \in word : IF way = "forward" THEN b > bit ELSE b < bit}

\* An iterator that stands on a key, and has kept what lies beyond it.
OnKey(i) ==
    /\ i.way \in {"forward", "back"}
    /\ Stand(i) \in KeySlots
    /\ i.cur_bitmap_idx_ = Word(i.cur_idx_)
    /\ i.cur_bitmap_data_ =
           RestOf(i.way, chain[i.cur_leaf_].bitmap_[Word(i.cur_idx_)], Bit(i.cur_idx_))

\* At puts an iterator on a key.
LEMMA AtIsOnKey ==
    ASSUME Chained, NEW leaf \in DOMAIN chain, NEW w \in WordsOf(leaf),
           NEW b \in chain[leaf].bitmap_[w],
           NEW way \in {"forward", "back"}, NEW data,
           data \ {b} = RestOf(way, chain[leaf].bitmap_[w], b)
    PROVE  /\ At(way, <<leaf, w>>, data, b).way = way
           /\ Stand(At(way, <<leaf, w>>, data, b)) = <<leaf, SlotAt(w, b)>>
           /\ OnKey(At(way, <<leaf, w>>, data, b))
<1> DEFINE i == At(way, <<leaf, w>>, data, b)
<1>1. /\ i.way = way /\ i.cur_leaf_ = leaf /\ i.cur_idx_ = SlotAt(w, b)
      /\ i.cur_bitmap_idx_ = w /\ i.cur_bitmap_data_ = data \ {b}
  BY DEF At, SlotAt
<1> HIDE DEF i
<1>2. /\ Word(SlotAt(w, b)) = w /\ Bit(SlotAt(w, b)) = b
      /\ <<leaf, SlotAt(w, b)>> \in KeySlots
  BY KeyPlaces
<1>3. Stand(i) = <<leaf, SlotAt(w, b)>>
  BY <1>1 DEF Stand
<1>4. OnKey(i)
  BY <1>1, <1>2, <1>3, Zenon DEF OnKey
<1> QED
  BY <1>1, <1>3, <1>4 DEF i

\* The word of a key is one that has a key.
LEMMA KeyWords ==
    ASSUME Chained
    PROVE  /\ Places(WordsWithKeys) /\ Places(KeySlots)
           /\ \A q \in WordsWithKeys :
                  /\ q = <<q[1], q[2]>> /\ q[1] \in DOMAIN chain
                  /\ q[2] \in WordsOf(q[1]) /\ chain[q[1]].bitmap_[q[2]] # {}
           /\ \A q \in KeySlots : <<q[1], Word(q[2])>> \in WordsWithKeys
<1>1. ASSUME NEW q \in WordsWithKeys
      PROVE  /\ q = <<q[1], q[2]>> /\ q[1] \in DOMAIN chain
             /\ q[2] \in WordsOf(q[1]) /\ chain[q[1]].bitmap_[q[2]] # {}
             /\ q[1] \in Nat /\ q[2] \in Nat
  <2>1. PICK leaf \in DOMAIN chain :
            \E w \in WordsOf(leaf) : q = <<leaf, w>> /\ chain[leaf].bitmap_[w] # {}
    BY DEF WordsWithKeys, WordsOf
  <2>2. leaf \in Nat /\ \A w \in WordsOf(leaf) : w \in Nat
    BY LeafFacts
  <2> QED
    BY <2>1, <2>2
<1>2. ASSUME NEW q \in KeySlots
      PROVE  <<q[1], Word(q[2])>> \in WordsWithKeys
  <2>1. /\ q[1] \in DOMAIN chain /\ Word(q[2]) \in WordsOf(q[1])
        /\ chain[q[1]].bitmap_[Word(q[2])] # {}
    BY KeyPlaces
  <2> QED
    BY <2>1 DEF WordsWithKeys, WordsOf
<1>3. Places(WordsWithKeys)
  BY <1>1 DEF Places
<1>4. Places(KeySlots)
  <2>1. \A q \in KeySlots : q = <<q[1], q[2]>> /\ q[1] \in DOMAIN chain /\ q[2] \in Nat
    BY KeyPlaces
  <2>2. \A leaf \in DOMAIN chain : leaf \in Nat
    BY LeafFacts
  <2> QED
    BY <2>1, <2>2 DEF Places
<1> QED
  BY <1>1, <1>2, <1>3, <1>4, Zenon

\* advance() goes to the first key from a bit on that the iterator has not
\* passed, over words and leaves that have none, or to the end.
LEMMA AdvanceToFirst ==
    ASSUME Chained, NEW leaf \in DOMAIN chain, NEW w \in WordsOf(leaf), NEW c \in Nat,
           NEW i, i.way = "forward", i.cur_leaf_ = leaf, i.cur_bitmap_idx_ = w,
           i.cur_bitmap_data_ = {b \in chain[leaf].bitmap_[w] : b >= c}
    PROVE  /\ Stand(advance(i)) = FirstOf(KeysFrom(leaf, w, c))
           /\ advance(i).way = "forward"
           /\ OnKey(advance(i)) \/ advance(i) = Ended("forward")
<1> DEFINE S == KeysFrom(leaf, w, c)
           T == {q \in WordsWithKeys : Before(<<leaf, w>>, q)}
           rest == {b \in chain[leaf].bitmap_[w] : b >= c}
           next == FirstOf(T)
           data == chain[next[1]].bitmap_[next[2]]
<1>1. /\ leaf \in Nat /\ w \in Nat /\ W \in Nat /\ W > 0
      /\ chain[leaf].bitmap_[w] \in SUBSET Nat
  <2>1. chain[leaf].bitmap_[w] \in SUBSET (0 .. (W - 1))
    BY LeafFacts
  <2> QED
    BY <2>1, LeafFacts DEF Chained
<1>2. advance(i) = IF rest # {} THEN At("forward", <<leaf, w>>, rest, Min(rest))
                   ELSE IF next = None THEN Ended("forward")
                   ELSE At("forward", next, data, Min(data))
  BY DEF advance, WordOf
<1>3. /\ \A q \in S : /\ q \in KeySlots /\ q[1] \in Nat /\ q[2] \in Nat
                      /\ Word(q[2]) \in Nat /\ Bit(q[2]) \in Nat
                      /\ q = <<q[1], q[2]>>
                      /\ <<q[1], Word(q[2])>> \in WordsWithKeys
                      /\ Bit(q[2]) \in chain[q[1]].bitmap_[Word(q[2])]
                      /\ \/ q[1] > leaf
                         \/ q[1] = leaf /\ Word(q[2]) > w
                         \/ q[1] = leaf /\ Word(q[2]) = w /\ Bit(q[2]) >= c
      /\ Places(S)
  <2>1. \A q \in S : q \in KeySlots
    BY DEF KeysFrom
  <2>2. ASSUME NEW q \in S
        PROVE  /\ q = <<q[1], q[2]>> /\ q[1] \in Nat /\ q[2] \in Nat
               /\ Word(q[2]) \in Nat /\ Bit(q[2]) \in Nat
               /\ <<q[1], Word(q[2])>> \in WordsWithKeys
               /\ Bit(q[2]) \in chain[q[1]].bitmap_[Word(q[2])]
    <3>1. /\ q = <<q[1], q[2]>> /\ q[1] \in DOMAIN chain /\ q[2] \in Nat
          /\ Bit(q[2]) \in chain[q[1]].bitmap_[Word(q[2])]
      BY <2>1, KeyPlaces
    <3>2. Word(q[2]) \in Nat /\ Bit(q[2]) \in 0 .. (W - 1)
      BY <1>1, <3>1, SlotOrder
    <3>3. q[1] \in Nat
      BY <3>1, LeafFacts
    <3> QED
      BY <1>1, <2>1, <3>1, <3>2, <3>3, KeyWords
  <2>3. Places(S)
    BY <2>1, KeyWords DEF Places
  <2>4. \A q \in S : \/ q[1] > leaf
                     \/ q[1] = leaf /\ Word(q[2]) > w
                     \/ q[1] = leaf /\ Word(q[2]) = w /\ Bit(q[2]) >= c
    BY DEF KeysFrom
  <2> QED
    BY <2>1, <2>2, <2>3, <2>4, Zenon
<1>4. CASE rest # {}
  <2> DEFINE b == Min(rest)
  <2>1. b \in rest /\ \A x \in rest : b <= x
    BY <1>1, <1>4, LeastOfNaturals
  <2>2. b \in chain[leaf].bitmap_[w] /\ b >= c /\ b \in Nat
    BY <1>1, <2>1
  <2> HIDE DEF b
  <2>3. rest \ {b} = RestOf("forward", chain[leaf].bitmap_[w], b)
    BY <1>1, <2>1, <2>2 DEF RestOf
  <2>4. /\ SlotAt(w, b) \in Nat /\ Word(SlotAt(w, b)) = w /\ Bit(SlotAt(w, b)) = b
        /\ <<leaf, SlotAt(w, b)>> \in KeySlots
    BY <2>2, KeyPlaces
  <2>5. <<leaf, SlotAt(w, b)>> \in S
    BY <2>2, <2>4 DEF KeysFrom
  <2>6. ASSUME NEW q \in S
        PROVE  q = <<leaf, SlotAt(w, b)>> \/ Before(<<leaf, SlotAt(w, b)>>, q)
    <3>1. /\ q[1] \in Nat /\ q[2] \in Nat /\ Word(q[2]) \in Nat /\ Bit(q[2]) \in Nat
          /\ q = <<q[1], q[2]>>
          /\ Bit(q[2]) \in chain[q[1]].bitmap_[Word(q[2])]
          /\ \/ q[1] > leaf
             \/ q[1] = leaf /\ Word(q[2]) > w
             \/ q[1] = leaf /\ Word(q[2]) = w /\ Bit(q[2]) >= c
      BY <1>3
    <3>2. CASE q[1] = leaf
      <4>1. Word(q[2]) > w \/ (Word(q[2]) = w /\ b <= Bit(q[2]))
        BY <1>1, <2>1, <3>1, <3>2
      <4>2. SlotAt(w, b) < q[2] \/ SlotAt(w, b) = q[2]
        BY <1>1, <2>2, <2>4, <3>1, <4>1, SlotOrder
      <4> QED
        BY <1>1, <3>1, <3>2, <4>2 DEF Before
    <3>3. CASE q[1] > leaf
      BY <1>1, <3>1, <3>3 DEF Before
    <3> QED
      BY <1>1, <3>1, <3>2, <3>3
  <2>7. FirstOf(S) = <<leaf, SlotAt(w, b)>>
    BY <1>3, <2>5, <2>6, FirstIsFirst
  <2>8. advance(i) = At("forward", <<leaf, w>>, rest, b)
    BY <1>2, <1>4 DEF b
  <2> HIDE DEF rest, S
  <2>9. /\ At("forward", <<leaf, w>>, rest, b).way = "forward"
        /\ Stand(At("forward", <<leaf, w>>, rest, b)) = <<leaf, SlotAt(w, b)>>
        /\ OnKey(At("forward", <<leaf, w>>, rest, b))
    BY <2>2, <2>3, AtIsOnKey
  <2> QED
    BY <2>7, <2>8, <2>9 DEF S
<1>5. CASE rest = {} /\ T = {}
  <2>1. ASSUME NEW q \in S PROVE FALSE
    <3>1. /\ q[1] \in Nat /\ Word(q[2]) \in Nat
          /\ <<q[1], Word(q[2])>> \in WordsWithKeys
          /\ Bit(q[2]) \in chain[q[1]].bitmap_[Word(q[2])]
          /\ \/ q[1] > leaf
             \/ q[1] = leaf /\ Word(q[2]) > w
             \/ q[1] = leaf /\ Word(q[2]) = w /\ Bit(q[2]) >= c
      BY <1>3
    <3>2. ~(q[1] = leaf /\ Word(q[2]) = w /\ Bit(q[2]) >= c)
      BY <1>5, <3>1
    <3>3. <<q[1], Word(q[2])>> \in T
      BY <1>1, <3>1, <3>2 DEF Before
    <3> QED
      BY <1>5, <3>3
  <2>2. S = {}
    BY <2>1
  <2>3. next = None
    BY <1>5 DEF FirstOf
  <2>4. advance(i) = Ended("forward")
    BY <1>2, <1>5, <2>3
  <2>5. FirstOf(S) = None
    BY <2>2 DEF FirstOf
  <2>6. Stand(Ended("forward")) = None /\ Ended("forward").way = "forward"
    BY DEF Stand, Ended, None
  <2> QED
    BY <2>4, <2>5, <2>6
<1>6. CASE rest = {} /\ T # {}
  <2>1. Places(T) /\ \A q \in T : q \in WordsWithKeys /\ Before(<<leaf, w>>, q)
    BY KeyWords DEF Places
  <2>2. next \in T /\ \A q \in T : q = next \/ Before(next, q)
    BY <1>6, <2>1, FirstPlace, Zenon
  <2> DEFINE l2 == next[1]
             w2 == next[2]
             b == Min(data)
  <2>3. /\ next = <<l2, w2>> /\ l2 \in DOMAIN chain /\ w2 \in WordsOf(l2) /\ data # {}
        /\ l2 > leaf \/ (l2 = leaf /\ w2 > w)
    <3>1. next \in WordsWithKeys /\ Before(<<leaf, w>>, next)
      BY <2>1, <2>2
    <3>2. next = <<l2, w2>> /\ l2 \in DOMAIN chain /\ w2 \in WordsOf(l2) /\ data # {}
      BY <3>1, KeyWords
    <3>3. l2 > leaf \/ (l2 = leaf /\ w2 > w)
      BY <1>1, <3>1 DEF Before
    <3> QED
      BY <3>2, <3>3
  <2> HIDE DEF next
  <2>4. l2 \in Nat /\ l2 >= 1 /\ w2 \in Nat /\ data \in SUBSET Nat
    <3>1. data \in SUBSET (0 .. (W - 1))
      BY <2>3, LeafFacts
    <3> QED
      BY <1>1, <2>3, <3>1, LeafFacts
  <2>5. b \in data /\ \A x \in data : b <= x
    BY <2>3, <2>4, LeastOfNaturals
  <2>6. b \in Nat /\ b \in chain[l2].bitmap_[w2]
    BY <2>4, <2>5
  <2> HIDE DEF b, data
  <2>7. data \ {b} = RestOf("forward", chain[l2].bitmap_[w2], b)
    BY <2>4, <2>5, <2>6 DEF RestOf, data
  <2> HIDE DEF l2, w2
  <2>8. /\ SlotAt(w2, b) \in Nat /\ Word(SlotAt(w2, b)) = w2 /\ Bit(SlotAt(w2, b)) = b
        /\ <<l2, SlotAt(w2, b)>> \in KeySlots
    BY <2>3, <2>6, KeyPlaces
  <2>9. <<l2, SlotAt(w2, b)>> \in S
    BY <1>1, <2>3, <2>4, <2>8 DEF KeysFrom
  <2>10. ASSUME NEW q \in S
         PROVE  q = <<l2, SlotAt(w2, b)>> \/ Before(<<l2, SlotAt(w2, b)>>, q)
    <3>1. /\ q[1] \in Nat /\ q[2] \in Nat /\ Word(q[2]) \in Nat /\ Bit(q[2]) \in Nat
          /\ q = <<q[1], q[2]>>
          /\ <<q[1], Word(q[2])>> \in WordsWithKeys
          /\ Bit(q[2]) \in chain[q[1]].bitmap_[Word(q[2])]
          /\ \/ q[1] > leaf
             \/ q[1] = leaf /\ Word(q[2]) > w
             \/ q[1] = leaf /\ Word(q[2]) = w /\ Bit(q[2]) >= c
      BY <1>3
    <3>2. ~(q[1] = leaf /\ Word(q[2]) = w /\ Bit(q[2]) >= c)
      BY <1>6, <3>1
    <3>3. <<q[1], Word(q[2])>> \in T
      BY <1>1, <3>1, <3>2 DEF Before
    <3>4. <<q[1], Word(q[2])>> = <<l2, w2>> \/ Before(<<l2, w2>>, <<q[1], Word(q[2])>>)
      BY <2>2, <2>3, <3>3
    <3>5. CASE q[1] = l2 /\ Word(q[2]) = w2
      <4>1. b <= Bit(q[2])
        BY <2>5, <3>1, <3>5 DEF data, l2, w2
      <4>2. /\ SlotAt(w2, b) < q[2] <=> b < Bit(q[2])
            /\ SlotAt(w2, b) = q[2] <=> b = Bit(q[2])
        <5>1. w2 \in Nat /\ ~(w2 < w2)
          BY <2>4
        <5> QED
          BY <1>1, <2>8, <3>1, <3>5, <5>1, SlotOrder
      <4>3. SlotAt(w2, b) < q[2] \/ SlotAt(w2, b) = q[2]
        BY <2>6, <3>1, <4>1, <4>2
      <4> QED
        BY <2>4, <3>1, <3>5, <4>3 DEF Before
    <3>6. CASE q[1] = l2 /\ w2 < Word(q[2])
      <4>1. SlotAt(w2, b) < q[2]
        BY <1>1, <2>4, <2>8, <3>1, <3>6, SlotOrder
      <4> QED
        BY <2>4, <3>1, <3>6, <4>1 DEF Before
    <3>7. CASE l2 < q[1]
      BY <2>4, <3>1, <3>7 DEF Before
    <3> QED
      BY <3>4, <3>5, <3>6, <3>7 DEF Before
  <2>11. FirstOf(S) = <<l2, SlotAt(w2, b)>>
    BY <1>3, <2>9, <2>10, FirstIsFirst
  <2>12. next # None
    BY <2>3, <2>4 DEF None, nullptr
  <2>13. advance(i) = At("forward", <<l2, w2>>, data, b)
    BY <1>2, <1>6, <2>3, <2>12 DEF b, data
  <2> HIDE DEF S
  <2>14. /\ At("forward", <<l2, w2>>, data, b).way = "forward"
         /\ Stand(At("forward", <<l2, w2>>, data, b)) = <<l2, SlotAt(w2, b)>>
         /\ OnKey(At("forward", <<l2, w2>>, data, b))
    BY <2>3, <2>6, <2>7, AtIsOnKey
  <2> QED
    BY <2>11, <2>13, <2>14 DEF S
<1> QED
  BY <1>4, <1>5, <1>6

\* A reverse iterator goes to the last key up to a bit, in the same way.
LEMMA AdvanceToLast ==
    ASSUME Chained, NEW leaf \in DOMAIN chain, NEW w \in WordsOf(leaf), NEW c \in Int,
           NEW i, i.way = "back", i.cur_leaf_ = leaf, i.cur_bitmap_idx_ = w,
           i.cur_bitmap_data_ = {b \in chain[leaf].bitmap_[w] : b <= c}
    PROVE  /\ Stand(advance_back(i)) = LastOf(KeysUpTo(leaf, w, c))
           /\ advance_back(i).way = "back"
           /\ OnKey(advance_back(i)) \/ advance_back(i) = Ended("back")
<1> DEFINE S == KeysUpTo(leaf, w, c)
           T == {q \in WordsWithKeys : Before(q, <<leaf, w>>)}
           rest == {b \in chain[leaf].bitmap_[w] : b <= c}
           next == LastOf(T)
           data == chain[next[1]].bitmap_[next[2]]
<1>1. /\ leaf \in Nat /\ w \in Nat /\ W \in Nat /\ W > 0
      /\ chain[leaf].bitmap_[w] \in SUBSET (0 .. (W - 1)) /\ W - 1 \in Nat
  <2>1. chain[leaf].bitmap_[w] \in SUBSET (0 .. (W - 1))
    BY LeafFacts
  <2> QED
    BY <2>1, LeafFacts DEF Chained
<1>2. advance_back(i) = IF rest # {} THEN At("back", <<leaf, w>>, rest, Max(rest))
                   ELSE IF next = None THEN Ended("back")
                   ELSE At("back", next, data, Max(data))
  BY DEF advance_back, WordOf
<1>3. /\ \A q \in S : /\ q \in KeySlots /\ q[1] \in Nat /\ q[2] \in Nat
                      /\ Word(q[2]) \in Nat /\ Bit(q[2]) \in Nat
                      /\ q = <<q[1], q[2]>>
                      /\ <<q[1], Word(q[2])>> \in WordsWithKeys
                      /\ Bit(q[2]) \in chain[q[1]].bitmap_[Word(q[2])]
                      /\ \/ q[1] < leaf
                         \/ q[1] = leaf /\ Word(q[2]) < w
                         \/ q[1] = leaf /\ Word(q[2]) = w /\ Bit(q[2]) <= c
      /\ Places(S)
  <2>1. \A q \in S : q \in KeySlots
    BY DEF KeysUpTo
  <2>2. ASSUME NEW q \in S
        PROVE  /\ q = <<q[1], q[2]>> /\ q[1] \in Nat /\ q[2] \in Nat
               /\ Word(q[2]) \in Nat /\ Bit(q[2]) \in Nat
               /\ <<q[1], Word(q[2])>> \in WordsWithKeys
               /\ Bit(q[2]) \in chain[q[1]].bitmap_[Word(q[2])]
    <3>1. /\ q = <<q[1], q[2]>> /\ q[1] \in DOMAIN chain /\ q[2] \in Nat
          /\ Bit(q[2]) \in chain[q[1]].bitmap_[Word(q[2])]
      BY <2>1, KeyPlaces
    <3>2. Word(q[2]) \in Nat /\ Bit(q[2]) \in 0 .. (W - 1)
      BY <1>1, <3>1, SlotOrder
    <3>3. q[1] \in Nat
      BY <3>1, LeafFacts
    <3> QED
      BY <1>1, <2>1, <3>1, <3>2, <3>3, KeyWords
  <2>3. Places(S)
    BY <2>1, KeyWords DEF Places
  <2>4. \A q \in S : \/ q[1] < leaf
                     \/ q[1] = leaf /\ Word(q[2]) < w
                     \/ q[1] = leaf /\ Word(q[2]) = w /\ Bit(q[2]) <= c
    BY DEF KeysUpTo
  <2> QED
    BY <2>1, <2>2, <2>3, <2>4, Zenon
<1>4. CASE rest # {}
  <2> DEFINE b == Max(rest)
  <2>1. b \in rest /\ \A x \in rest : b >= x
    BY <1>1, <1>4, GreatestOfNaturals
  <2>2. b \in chain[leaf].bitmap_[w] /\ b <= c /\ b \in Nat
    BY <1>1, <2>1
  <2> HIDE DEF b
  <2>3. rest \ {b} = RestOf("back", chain[leaf].bitmap_[w], b)
    BY <1>1, <2>1, <2>2 DEF RestOf
  <2>4. /\ SlotAt(w, b) \in Nat /\ Word(SlotAt(w, b)) = w /\ Bit(SlotAt(w, b)) = b
        /\ <<leaf, SlotAt(w, b)>> \in KeySlots
    BY <2>2, KeyPlaces
  <2>5. <<leaf, SlotAt(w, b)>> \in S
    BY <2>2, <2>4 DEF KeysUpTo
  <2>6. ASSUME NEW q \in S
        PROVE  q = <<leaf, SlotAt(w, b)>> \/ Before(q, <<leaf, SlotAt(w, b)>>)
    <3>1. /\ q[1] \in Nat /\ q[2] \in Nat /\ Word(q[2]) \in Nat /\ Bit(q[2]) \in Nat
          /\ q = <<q[1], q[2]>>
          /\ Bit(q[2]) \in chain[q[1]].bitmap_[Word(q[2])]
          /\ \/ q[1] < leaf
             \/ q[1] = leaf /\ Word(q[2]) < w
             \/ q[1] = leaf /\ Word(q[2]) = w /\ Bit(q[2]) <= c
      BY <1>3
    <3>2. CASE q[1] = leaf
      <4>1. Word(q[2]) < w \/ (Word(q[2]) = w /\ b >= Bit(q[2]))
        BY <1>1, <2>1, <3>1, <3>2
      <4>2. q[2] < SlotAt(w, b) \/ SlotAt(w, b) = q[2]
        <5>1. /\ q[2] < SlotAt(w, b) <=>
                     (Word(q[2]) < w \/ (Word(q[2]) = w /\ Bit(q[2]) < b))
              /\ q[2] = SlotAt(w, b) <=> Word(q[2]) = w /\ Bit(q[2]) = b
          BY <1>1, <2>4, <3>1, SlotOrder
        <5>2. Bit(q[2]) < b \/ Bit(q[2]) = b \/ b < Bit(q[2])
          BY <2>2, <3>1
        <5> QED
          BY <2>2, <3>1, <4>1, <5>1, <5>2
      <4> QED
        BY <1>1, <3>1, <3>2, <4>2 DEF Before
    <3>3. CASE q[1] < leaf
      BY <1>1, <3>1, <3>3 DEF Before
    <3> QED
      BY <1>1, <3>1, <3>2, <3>3
  <2>7. LastOf(S) = <<leaf, SlotAt(w, b)>>
    BY <1>3, <2>5, <2>6, LastIsLast
  <2>8. advance_back(i) = At("back", <<leaf, w>>, rest, b)
    BY <1>2, <1>4 DEF b
  <2> HIDE DEF rest, S
  <2>9. /\ At("back", <<leaf, w>>, rest, b).way = "back"
        /\ Stand(At("back", <<leaf, w>>, rest, b)) = <<leaf, SlotAt(w, b)>>
        /\ OnKey(At("back", <<leaf, w>>, rest, b))
    BY <2>2, <2>3, AtIsOnKey
  <2> QED
    BY <2>7, <2>8, <2>9 DEF S
<1>5. CASE rest = {} /\ T = {}
  <2>1. ASSUME NEW q \in S PROVE FALSE
    <3>1. /\ q[1] \in Nat /\ Word(q[2]) \in Nat
          /\ <<q[1], Word(q[2])>> \in WordsWithKeys
          /\ Bit(q[2]) \in chain[q[1]].bitmap_[Word(q[2])]
          /\ \/ q[1] < leaf
             \/ q[1] = leaf /\ Word(q[2]) < w
             \/ q[1] = leaf /\ Word(q[2]) = w /\ Bit(q[2]) <= c
      BY <1>3
    <3>2. ~(q[1] = leaf /\ Word(q[2]) = w /\ Bit(q[2]) <= c)
      BY <1>5, <3>1
    <3>3. <<q[1], Word(q[2])>> \in T
      BY <1>1, <3>1, <3>2 DEF Before
    <3> QED
      BY <1>5, <3>3
  <2>2. S = {}
    BY <2>1
  <2>3. next = None
    BY <1>5 DEF LastOf
  <2>4. advance_back(i) = Ended("back")
    BY <1>2, <1>5, <2>3
  <2>5. LastOf(S) = None
    BY <2>2 DEF LastOf
  <2>6. Stand(Ended("back")) = None /\ Ended("back").way = "back"
    BY DEF Stand, Ended, None
  <2> QED
    BY <2>4, <2>5, <2>6
<1>6. CASE rest = {} /\ T # {}
  <2>1. Places(T) /\ \A q \in T : q \in WordsWithKeys /\ Before(q, <<leaf, w>>)
    BY KeyWords DEF Places
  <2>2. next \in T /\ \A q \in T : q = next \/ Before(q, next)
    <3> DEFINE size == [k \in DOMAIN chain |-> bitmap_size_of(chain[k])]
    <3>1. ASSUME NEW q \in T
          PROVE  q[1] <= Len(chain) /\ size[q[1]] \in Nat /\ q[2] <= size[q[1]]
      <4>1. q[1] \in DOMAIN chain /\ q[2] \in WordsOf(q[1])
        BY <2>1, KeyWords
      <4>2. size[q[1]] = bitmap_size_of(chain[q[1]]) /\ size[q[1]] \in Nat
        BY <4>1, LeafFacts
      <4>3. q[1] <= Len(chain)
        BY <4>1 DEF Chained
      <4> QED
        BY <4>1, <4>2, <4>3 DEF WordsOf
    <3>2. Len(chain) \in Nat
      BY DEF Chained
    <3> HIDE DEF size, T
    <3> QED
      BY <1>6, <2>1, <3>1, <3>2, LastPlace DEF T
  <2> DEFINE l2 == next[1]
             w2 == next[2]
             b == Max(data)
  <2>3. /\ next = <<l2, w2>> /\ l2 \in DOMAIN chain /\ w2 \in WordsOf(l2) /\ data # {}
        /\ l2 < leaf \/ (l2 = leaf /\ w2 < w)
    <3>1. next \in WordsWithKeys /\ Before(next, <<leaf, w>>)
      BY <2>1, <2>2
    <3>2. next = <<l2, w2>> /\ l2 \in DOMAIN chain /\ w2 \in WordsOf(l2) /\ data # {}
      BY <3>1, KeyWords
    <3>3. l2 < leaf \/ (l2 = leaf /\ w2 < w)
      BY <1>1, <3>1 DEF Before
    <3> QED
      BY <3>2, <3>3
  <2> HIDE DEF next
  <2>4. l2 \in Nat /\ l2 >= 1 /\ w2 \in Nat /\ data \in SUBSET (0 .. (W - 1))
    <3>1. data \in SUBSET (0 .. (W - 1))
      BY <2>3, LeafFacts
    <3> QED
      BY <1>1, <2>3, <3>1, LeafFacts
  <2>5. b \in data /\ \A x \in data : b >= x
    BY <1>1, <2>3, <2>4, GreatestOfNaturals
  <2>6. b \in Nat /\ b \in chain[l2].bitmap_[w2]
    BY <2>4, <2>5
  <2> HIDE DEF b, data
  <2>7. data \ {b} = RestOf("back", chain[l2].bitmap_[w2], b)
    BY <2>4, <2>5, <2>6 DEF RestOf, data
  <2> HIDE DEF l2, w2
  <2>8. /\ SlotAt(w2, b) \in Nat /\ Word(SlotAt(w2, b)) = w2 /\ Bit(SlotAt(w2, b)) = b
        /\ <<l2, SlotAt(w2, b)>> \in KeySlots
    BY <2>3, <2>6, KeyPlaces
  <2>9. <<l2, SlotAt(w2, b)>> \in S
    BY <1>1, <2>3, <2>4, <2>8 DEF KeysUpTo
  <2>10. ASSUME NEW q \in S
         PROVE  q = <<l2, SlotAt(w2, b)>> \/ Before(q, <<l2, SlotAt(w2, b)>>)
    <3>1. /\ q[1] \in Nat /\ q[2] \in Nat /\ Word(q[2]) \in Nat /\ Bit(q[2]) \in Nat
          /\ q = <<q[1], q[2]>>
          /\ <<q[1], Word(q[2])>> \in WordsWithKeys
          /\ Bit(q[2]) \in chain[q[1]].bitmap_[Word(q[2])]
          /\ \/ q[1] < leaf
             \/ q[1] = leaf /\ Word(q[2]) < w
             \/ q[1] = leaf /\ Word(q[2]) = w /\ Bit(q[2]) <= c
      BY <1>3
    <3>2. ~(q[1] = leaf /\ Word(q[2]) = w /\ Bit(q[2]) <= c)
      BY <1>6, <3>1
    <3>3. <<q[1], Word(q[2])>> \in T
      BY <1>1, <3>1, <3>2 DEF Before
    <3>4. <<q[1], Word(q[2])>> = <<l2, w2>> \/ Before(<<q[1], Word(q[2])>>, <<l2, w2>>)
      BY <2>2, <2>3, <3>3
    <3>5. CASE q[1] = l2 /\ Word(q[2]) = w2
      <4>1. b >= Bit(q[2])
        BY <2>5, <3>1, <3>5 DEF data, l2, w2
      <4>2. /\ q[2] < SlotAt(w2, b) <=> Bit(q[2]) < b
            /\ SlotAt(w2, b) = q[2] <=> b = Bit(q[2])
        <5>1. w2 \in Nat /\ ~(w2 < w2)
          BY <2>4
        <5> QED
          BY <1>1, <2>8, <3>1, <3>5, <5>1, SlotOrder
      <4>3. q[2] < SlotAt(w2, b) \/ SlotAt(w2, b) = q[2]
        BY <2>6, <3>1, <4>1, <4>2
      <4> QED
        BY <2>4, <3>1, <3>5, <4>3 DEF Before
    <3>6. CASE q[1] = l2 /\ Word(q[2]) < w2
      <4>1. q[2] < SlotAt(w2, b)
        BY <1>1, <2>4, <2>8, <3>1, <3>6, SlotOrder
      <4> QED
        BY <2>4, <3>1, <3>6, <4>1 DEF Before
    <3>7. CASE q[1] < l2
      BY <2>4, <3>1, <3>7 DEF Before
    <3> QED
      BY <3>4, <3>5, <3>6, <3>7 DEF Before
  <2>11. LastOf(S) = <<l2, SlotAt(w2, b)>>
    BY <1>3, <2>9, <2>10, LastIsLast
  <2>12. next # None
    BY <2>3, <2>4 DEF None, nullptr
  <2>13. advance_back(i) = At("back", <<l2, w2>>, data, b)
    BY <1>2, <1>6, <2>3, <2>12 DEF b, data
  <2> HIDE DEF S
  <2>14. /\ At("back", <<l2, w2>>, data, b).way = "back"
         /\ Stand(At("back", <<l2, w2>>, data, b)) = <<l2, SlotAt(w2, b)>>
         /\ OnKey(At("back", <<l2, w2>>, data, b))
    BY <2>3, <2>6, <2>7, AtIsOnKey
  <2> QED
    BY <2>11, <2>13, <2>14 DEF S
<1> QED
  BY <1>4, <1>5, <1>6

-----------------------------------------------------------------------------
(* The iterators' operations.                                              *)

\* The keys from a place on are those from its bit on, and those behind it the
\* ones from the next bit on; so it is on the other side.
LEMMA KeysByBit ==
    ASSUME Chained, NEW leaf \in DOMAIN chain, NEW pos \in Nat
    PROVE  /\ From(<<leaf, pos>>) = KeysFrom(leaf, Word(pos), Bit(pos))
           /\ From(<<leaf, pos>>) \ {<<leaf, pos>>} =
                  KeysFrom(leaf, Word(pos), Bit(pos) + 1)
           /\ UpTo(<<leaf, pos>>) = KeysUpTo(leaf, Word(pos), Bit(pos))
           /\ UpTo(<<leaf, pos>>) \ {<<leaf, pos>>} =
                  KeysUpTo(leaf, Word(pos), Bit(pos) - 1)
<1>1. W \in Nat /\ W > 0 /\ leaf \in Nat
  BY LeafFacts DEF Chained
<1>2. Word(pos) \in Nat /\ Bit(pos) \in Nat
  BY <1>1, SlotOrder
<1>3. ASSUME NEW q \in KeySlots
      PROVE  /\ q = <<q[1], q[2]>> /\ q[1] \in Nat /\ q[2] \in Nat
             /\ Word(q[2]) \in Nat /\ Bit(q[2]) \in Nat
             /\ q[2] < pos <=> (Word(q[2]) < Word(pos)
                                \/ (Word(q[2]) = Word(pos) /\ Bit(q[2]) < Bit(pos)))
             /\ q[2] = pos <=> (Word(q[2]) = Word(pos) /\ Bit(q[2]) = Bit(pos))
  <2>1. q = <<q[1], q[2]>> /\ q[1] \in DOMAIN chain /\ q[2] \in Nat
    BY KeyPlaces
  <2>2. q[1] \in Nat
    BY <2>1, LeafFacts
  <2>3. Word(q[2]) \in Nat /\ Bit(q[2]) \in 0 .. (W - 1)
    BY <1>1, <2>1, SlotOrder
  <2> QED
    BY <1>1, <2>1, <2>2, <2>3, SlotOrder
<1>4. ASSUME NEW q \in KeySlots
      PROVE  /\ ~Before(q, <<leaf, pos>>) <=> q \in KeysFrom(leaf, Word(pos), Bit(pos))
             /\ ~Before(<<leaf, pos>>, q) <=> q \in KeysUpTo(leaf, Word(pos), Bit(pos))
             /\ ~Before(q, <<leaf, pos>>) /\ q # <<leaf, pos>>
                <=> q \in KeysFrom(leaf, Word(pos), Bit(pos) + 1)
             /\ ~Before(<<leaf, pos>>, q) /\ q # <<leaf, pos>>
                <=> q \in KeysUpTo(leaf, Word(pos), Bit(pos) - 1)
  BY <1>1, <1>2, <1>3 DEF Before, KeysFrom, KeysUpTo
<1>5. /\ \A c : KeysFrom(leaf, Word(pos), c) \subseteq KeySlots
      /\ \A c : KeysUpTo(leaf, Word(pos), c) \subseteq KeySlots
  BY DEF KeysFrom, KeysUpTo
<1> QED
  BY <1>4, <1>5, Zenon DEF From, UpTo

\* initialize() goes to the first key from a slot of a leaf on, the slot behind
\* the last one included.
LEMMA InitializeAtFirst ==
    ASSUME Chained, NEW leaf \in DOMAIN chain, NEW idx \in Nat,
           idx <= chain[leaf].data_capacity_
    PROVE  /\ Stand(initialize(leaf, idx)) = FirstOf(From(<<leaf, idx>>))
           /\ initialize(leaf, idx).way = "forward"
           /\ OnKey(initialize(leaf, idx)) \/ initialize(leaf, idx) = Ended("forward")
<1> DEFINE at(k, n) == [way |-> "forward", cur_leaf_ |-> k, cur_idx_ |-> n,
                        cur_bitmap_idx_ |-> Word(n),
                        cur_bitmap_data_ |-> BitsFrom(chain[k].bitmap_[Word(n)], Bit(n))]
<1>1. ASSUME NEW k \in DOMAIN chain, NEW n \in Nat, n < chain[k].data_capacity_
      PROVE  /\ Stand(advance(at(k, n))) = FirstOf(From(<<k, n>>))
             /\ advance(at(k, n)).way = "forward"
             /\ OnKey(advance(at(k, n))) \/ advance(at(k, n)) = Ended("forward")
  <2>1. W \in Nat /\ W > 0 /\ Word(n) \in WordsOf(k)
    BY <1>1, LeafFacts DEF Chained
  <2>2. Bit(n) \in Nat
    BY <2>1, SlotOrder
  <2> DEFINE i == at(k, n)
  <2>3. /\ i.way = "forward" /\ i.cur_leaf_ = k /\ i.cur_bitmap_idx_ = Word(n)
        /\ i.cur_bitmap_data_ = {b \in chain[k].bitmap_[Word(n)] : b >= Bit(n)}
    BY DEF BitsFrom
  <2> HIDE DEF i
  <2>4. /\ Stand(advance(i)) = FirstOf(KeysFrom(k, Word(n), Bit(n)))
        /\ advance(i).way = "forward"
        /\ OnKey(advance(i)) \/ advance(i) = Ended("forward")
    BY <2>1, <2>2, <2>3, AdvanceToFirst
  <2> QED
    BY <2>4, KeysByBit DEF i
<1>2. CASE idx < chain[leaf].data_capacity_
  <2>1. ~(idx >= chain[leaf].data_capacity_)
    BY <1>2, LeafFacts
  <2>2. initialize(leaf, idx) = advance(at(leaf, idx))
    BY <2>1, Zenon DEF initialize, Word, Bit
  <2> HIDE DEF at
  <2> QED
    BY <1>1, <1>2, <2>2
<1>3. CASE idx = chain[leaf].data_capacity_
  <2>1. /\ leaf \in Nat /\ idx >= chain[leaf].data_capacity_ /\ W \in Nat /\ W > 0
        /\ Len(chain) \in Nat /\ DOMAIN chain = 1 .. Len(chain)
    BY <1>3, LeafFacts DEF Chained
  <2>2. ASSUME NEW q \in KeySlots
        PROVE  /\ q[1] \in DOMAIN chain /\ q[1] \in Nat /\ q[2] \in Nat
               /\ q[1] = leaf => q[2] < idx
    <3>1. q[1] \in DOMAIN chain /\ q[2] \in Nat /\ q[2] < chain[q[1]].data_capacity_
      BY KeyPlaces
    <3> QED
      BY <1>3, <3>1, LeafFacts
  <2>3. From(<<leaf, idx>>) = {q \in KeySlots : q[1] > leaf}
    <3>1. \A q \in KeySlots : ~Before(q, <<leaf, idx>>) <=> q[1] > leaf
      BY <2>1, <2>2 DEF Before
    <3> QED
      BY <3>1, Zenon DEF From
  <2>4. CASE leaf + 1 \in DOMAIN chain
    <3>1. initialize(leaf, idx) = advance(at(leaf + 1, 0))
      BY <2>1, <2>4, Zenon DEF initialize, Word, Bit
    <3>2. From(<<leaf + 1, 0>>) = {q \in KeySlots : q[1] > leaf}
      <4>1. \A q \in KeySlots : ~Before(q, <<leaf + 1, 0>>) <=> q[1] > leaf
        BY <2>1, <2>2 DEF Before
      <4> QED
        BY <4>1, Zenon DEF From
    <3>3. 0 < chain[leaf + 1].data_capacity_
      BY <2>4, LeafFacts
    <3> HIDE DEF at
    <3> QED
      BY <1>1, <2>3, <2>4, <3>1, <3>2, <3>3
  <2>5. CASE leaf + 1 \notin DOMAIN chain
    <3>1. initialize(leaf, idx) = Ended("forward")
      BY <2>1, <2>5, Zenon DEF initialize
    <3>2. From(<<leaf, idx>>) = {}
      <4>1. ASSUME NEW q \in KeySlots PROVE ~(q[1] > leaf)
        BY <2>1, <2>2, <2>5
      <4> QED
        BY <2>3, <4>1
    <3>3. /\ Stand(Ended("forward")) = None /\ Ended("forward").way = "forward"
          /\ FirstOf({}) = None
      BY DEF Stand, Ended, None, FirstOf
    <3> QED
      BY <3>1, <3>2, <3>3
  <2> QED
    BY <2>4, <2>5
<1> QED
  BY <1>2, <1>3, LeafFacts

\* A reverse iterator starts at the last key up to a slot.
LEMMA InitializeAtLast ==
    ASSUME Chained, NEW leaf \in DOMAIN chain, NEW idx \in Nat,
           idx < chain[leaf].data_capacity_
    PROVE  /\ Stand(initialize_back(leaf, idx)) = LastOf(UpTo(<<leaf, idx>>))
           /\ initialize_back(leaf, idx).way = "back"
           /\ OnKey(initialize_back(leaf, idx)) \/ initialize_back(leaf, idx) = Ended("back")
<1> DEFINE i == [way |-> "back", cur_leaf_ |-> leaf, cur_idx_ |-> idx,
                 cur_bitmap_idx_ |-> Word(idx),
                 cur_bitmap_data_ |->
                     {b \in chain[leaf].bitmap_[Word(idx)] : b <= Bit(idx)}]
<1>1. W \in Nat /\ W > 0 /\ Word(idx) \in WordsOf(leaf)
  BY LeafFacts DEF Chained
<1>2. Bit(idx) \in Int
  BY <1>1, SlotOrder
<1>3. /\ i.way = "back" /\ i.cur_leaf_ = leaf /\ i.cur_bitmap_idx_ = Word(idx)
      /\ i.cur_bitmap_data_ = {b \in chain[leaf].bitmap_[Word(idx)] : b <= Bit(idx)}
  OBVIOUS
<1>4. initialize_back(leaf, idx) = advance_back(i)
  BY Zenon DEF initialize_back, Word, Bit
<1> HIDE DEF i
<1>5. /\ Stand(advance_back(i)) = LastOf(KeysUpTo(leaf, Word(idx), Bit(idx)))
      /\ advance_back(i).way = "back"
      /\ OnKey(advance_back(i)) \/ advance_back(i) = Ended("back")
  BY <1>1, <1>2, <1>3, AdvanceToLast
<1> QED
  BY <1>4, <1>5, KeysByBit

\* operator++ goes to the next key in its way.
LEMMA AdvanceToNext ==
    ASSUME Chained, NEW i, OnKey(i)
    PROVE  /\ i.way = "forward" =>
                  /\ Stand(advance(i)) = FirstOf(From(Stand(i)) \ {Stand(i)})
                  /\ advance(i).way = "forward"
                  /\ OnKey(advance(i)) \/ advance(i) = Ended("forward")
           /\ i.way = "back" =>
                  /\ Stand(advance_back(i)) = LastOf(UpTo(Stand(i)) \ {Stand(i)})
                  /\ advance_back(i).way = "back"
                  /\ OnKey(advance_back(i)) \/ advance_back(i) = Ended("back")
<1> DEFINE leaf == i.cur_leaf_
           pos == i.cur_idx_
           word == chain[leaf].bitmap_[Word(pos)]
<1>1. /\ Stand(i) = <<leaf, pos>> /\ <<leaf, pos>> \in KeySlots
      /\ i.cur_bitmap_idx_ = Word(pos)
      /\ i.cur_bitmap_data_ = RestOf(i.way, word, Bit(pos))
  BY DEF OnKey, Stand
<1>2. leaf \in DOMAIN chain /\ pos \in Nat /\ Word(pos) \in WordsOf(leaf)
  BY <1>1, KeyPlaces
<1>3. W \in Nat /\ W > 0 /\ Bit(pos) \in Nat /\ word \in SUBSET Nat
  <2>1. word \in SUBSET (0 .. (W - 1))
    BY <1>2, LeafFacts
  <2>2. W \in Nat /\ W > 0
    BY DEF Chained
  <2>3. Bit(pos) \in 0 .. (W - 1)
    BY <1>2, <2>2, SlotOrder
  <2> QED
    BY <2>1, <2>2, <2>3
<1>4. ASSUME i.way = "forward"
      PROVE  /\ Stand(advance(i)) = FirstOf(From(Stand(i)) \ {Stand(i)})
             /\ advance(i).way = "forward"
             /\ OnKey(advance(i)) \/ advance(i) = Ended("forward")
  <2>1. i.cur_bitmap_data_ = {b \in word : b >= Bit(pos) + 1}
    <3>1. \A b \in word : b > Bit(pos) <=> b >= Bit(pos) + 1
      BY <1>3
    <3> QED
      BY <1>1, <1>4, <3>1 DEF RestOf
  <2>2. Bit(pos) + 1 \in Nat
    BY <1>3
  <2>3. /\ Stand(advance(i)) = FirstOf(KeysFrom(leaf, Word(pos), Bit(pos) + 1))
        /\ advance(i).way = "forward"
        /\ OnKey(advance(i)) \/ advance(i) = Ended("forward")
    BY <1>1, <1>2, <1>4, <2>1, <2>2, AdvanceToFirst
  <2> QED
    BY <1>1, <1>2, <2>3, KeysByBit
<1>5. ASSUME i.way = "back"
      PROVE  /\ Stand(advance_back(i)) = LastOf(UpTo(Stand(i)) \ {Stand(i)})
             /\ advance_back(i).way = "back"
             /\ OnKey(advance_back(i)) \/ advance_back(i) = Ended("back")
  <2>1. i.cur_bitmap_data_ = {b \in word : b <= Bit(pos) - 1}
    <3>1. \A b \in word : b < Bit(pos) <=> b <= Bit(pos) - 1
      BY <1>3
    <3> QED
      BY <1>1, <1>5, <3>1 DEF RestOf
  <2>2. Bit(pos) - 1 \in Int
    BY <1>3
  <2>3. /\ Stand(advance_back(i)) = LastOf(KeysUpTo(leaf, Word(pos), Bit(pos) - 1))
        /\ advance_back(i).way = "back"
        /\ OnKey(advance_back(i)) \/ advance_back(i) = Ended("back")
    BY <1>1, <1>2, <1>5, <2>1, <2>2, AdvanceToLast
  <2> QED
    BY <1>1, <1>2, <2>3, KeysByBit
<1> QED
  BY <1>4, <1>5

\* The first key from a key on, and the last up to it, is itself.
LEMMA KeyIsFirstAndLast ==
    ASSUME Chained, NEW p \in KeySlots
    PROVE  FirstOf(From(p)) = p /\ LastOf(UpTo(p)) = p
<1>1. Places(KeySlots)
  BY KeyWords
<1>2. \A q \in KeySlots : q[1] \in Nat /\ q[2] \in Nat /\ q = <<q[1], q[2]>>
  BY <1>1 DEF Places
<1>3. /\ p \in From(p) /\ \A q \in From(p) : q = p \/ Before(p, q)
      /\ p \in UpTo(p) /\ \A q \in UpTo(p) : q = p \/ Before(q, p)
  <2>1. ~Before(p, p)
    BY <1>2 DEF Before
  <2>2. ASSUME NEW q \in KeySlots PROVE q = p \/ Before(p, q) \/ Before(q, p)
    <3>1. /\ q[1] < p[1] \/ p[1] < q[1] \/ q[1] = p[1]
          /\ q[2] < p[2] \/ p[2] < q[2] \/ q[2] = p[2]
      BY <1>2
    <3>2. q[1] = p[1] /\ q[2] = p[2] => q = p
      BY <1>2
    <3> QED
      BY <3>1, <3>2 DEF Before
  <2> QED
    BY <2>1, <2>2, Zenon DEF From, UpTo
<1>4. Places(From(p)) /\ Places(UpTo(p))
  BY <1>1, Zenon DEF Places, From, UpTo
<1> QED
  BY <1>3, <1>4, FirstIsFirst, LastIsLast

\* find_last_no_greater_than() goes to the last key not behind a slot, or to
\* the first of all if there is none.
LEMMA FindsLastNoGreater ==
    ASSUME Chained, NEW leaf \in DOMAIN chain, NEW idx \in FilledOf(leaf) \cup {-1}
    PROVE  LET i == find_last_no_greater_than(leaf, idx)
           IN  /\ Stand(i) = IF UpTo(<<leaf, idx>>) # {} THEN LastOf(UpTo(<<leaf, idx>>))
                             ELSE FirstOf(KeySlots)
               /\ i.way = "forward"
               /\ OnKey(i) \/ i = Ended("forward")
<1> DEFINE i == find_last_no_greater_than(leaf, idx)
           before == {l \in 1 .. (leaf - 1) : FilledOf(l) # {}}
           Fine(j, p) == /\ Stand(j) = p /\ j.way = "forward"
                         /\ OnKey(j) \/ j = Ended("forward")
<1>1. /\ Len(chain) \in Nat /\ DOMAIN chain = 1 .. Len(chain) /\ leaf \in Nat
      /\ leaf >= 1 /\ leaf <= Len(chain) /\ Places(KeySlots)
  BY LeafFacts, KeyWords DEF Chained
<1>2. ASSUME NEW k \in DOMAIN chain, NEW pos \in FilledOf(k)
      PROVE  /\ <<k, pos>> \in KeySlots /\ pos \in Nat
             /\ pos < chain[k].data_capacity_
             /\ Fine(initialize(k, pos), <<k, pos>>)
  <2>1. <<k, pos>> \in KeySlots
    BY KeyPlaces
  <2>2. pos \in Nat /\ pos < chain[k].data_capacity_
    BY <2>1, KeyPlaces
  <2>3. pos <= chain[k].data_capacity_
    BY <2>2, LeafFacts
  <2>4. FirstOf(From(<<k, pos>>)) = <<k, pos>>
    BY <2>1, KeyIsFirstAndLast
  <2> QED
    BY <2>1, <2>2, <2>3, <2>4, InitializeAtFirst
<1>3. CASE idx \in FilledOf(leaf)
  <2>1. <<leaf, idx>> \in KeySlots /\ idx \in Nat /\ Fine(initialize(leaf, idx), <<leaf, idx>>)
    BY <1>2, <1>3
  <2>2. i = initialize(leaf, idx)
    BY <2>1 DEF find_last_no_greater_than
  <2>3. LastOf(UpTo(<<leaf, idx>>)) = <<leaf, idx>>
    BY <2>1, KeyIsFirstAndLast
  <2>4. UpTo(<<leaf, idx>>) # {}
    <3>1. ~Before(<<leaf, idx>>, <<leaf, idx>>)
      BY <1>1, <2>1 DEF Before
    <3> QED
      BY <2>1, <3>1, Zenon DEF UpTo
  <2> QED
    BY <2>1, <2>2, <2>3, <2>4
<1>4. CASE idx = -1
  <2>1. ~(idx >= 0)
    BY <1>4
  <2>2. i = IF before # {} THEN initialize(Max(before), Max(FilledOf(Max(before))))
            ELSE initialize(1, 0)
    BY <2>1, Zenon DEF find_last_no_greater_than
  <2>3. ASSUME NEW q \in KeySlots
        PROVE  /\ q[1] \in DOMAIN chain /\ q[1] \in Nat /\ q[2] \in Nat /\ q[1] >= 1
               /\ q = <<q[1], q[2]>> /\ q[2] \in FilledOf(q[1])
    <3>1. PICK k \in DOMAIN chain : \E pos \in FilledOf(k) : q = <<k, pos>>
      BY DEF KeySlots
    <3>2. PICK pos \in FilledOf(k) : q = <<k, pos>>
      BY <3>1
    <3>3. pos \in Nat
      BY <1>2
    <3> QED
      BY <1>1, <3>2, <3>3
  <2>4. UpTo(<<leaf, idx>>) = {q \in KeySlots : q[1] < leaf}
    <3>1. \A q \in KeySlots : ~Before(<<leaf, idx>>, q) <=> q[1] < leaf
      BY <1>1, <1>4, <2>3 DEF Before
    <3> QED
      BY <3>1, Zenon DEF UpTo
  <2>5. CASE before # {}
    <3> DEFINE k == Max(before)
               pos == Max(FilledOf(k))
               cap == chain[k].data_capacity_
    <3>1. k \in before /\ \A l \in before : k >= l
      <4>1. before \in SUBSET (0 .. leaf)
        BY <1>1
      <4> QED
        BY <1>1, <2>5, <4>1, GreatestOfNaturals
    <3>2. k \in DOMAIN chain /\ k \in Nat /\ k < leaf /\ FilledOf(k) # {}
      <4>1. \A j \in before : j \in DOMAIN chain /\ j \in Nat /\ j < leaf /\ FilledOf(j) # {}
        BY <1>1
      <4> HIDE DEF before, k
      <4> QED
        BY <3>1, <4>1
    <3> HIDE DEF k
    <3>3. pos \in FilledOf(k) /\ \A j \in FilledOf(k) : pos >= j
      <4>1. cap \in Nat /\ FilledOf(k) \in SUBSET (0 .. cap)
        BY <1>2, <3>2, LeafFacts DEF FilledOf
      <4> QED
        BY <3>2, <4>1, GreatestOfNaturals
    <3> HIDE DEF pos
    <3>4. <<k, pos>> \in KeySlots /\ pos \in Nat /\ Fine(initialize(k, pos), <<k, pos>>)
      BY <1>2, <3>2, <3>3
    <3>5. <<k, pos>> \in UpTo(<<leaf, idx>>)
      BY <2>4, <3>2, <3>4
    <3>6. ASSUME NEW q \in UpTo(<<leaf, idx>>)
          PROVE  q = <<k, pos>> \/ Before(q, <<k, pos>>)
      <4>1. q \in KeySlots /\ q[1] < leaf
        BY <2>4
      <4>2. /\ q[1] \in Nat /\ q[2] \in Nat /\ q[1] >= 1
            /\ q = <<q[1], q[2]>> /\ q[2] \in FilledOf(q[1])
        BY <2>3, <4>1
      <4>3. q[1] \in before
        BY <1>1, <4>1, <4>2
      <4>4. q[1] <= k /\ (q[1] = k => q[2] <= pos)
        BY <3>1, <3>2, <3>3, <3>4, <4>2, <4>3
      <4> QED
        BY <3>2, <3>4, <4>2, <4>4 DEF Before
    <3>7. Places(UpTo(<<leaf, idx>>))
      BY <1>1, Zenon DEF Places, UpTo
    <3>8. LastOf(UpTo(<<leaf, idx>>)) = <<k, pos>>
      BY <3>5, <3>6, <3>7, LastIsLast
    <3>9. i = initialize(k, pos)
      BY <2>2, <2>5 DEF k, pos
    <3> QED
      BY <3>4, <3>5, <3>8, <3>9
  <2>6. CASE before = {}
    <3>1. UpTo(<<leaf, idx>>) = {}
      <4>1. ASSUME NEW q \in KeySlots, q[1] < leaf PROVE FALSE
        <5>1. q[1] \in before
          BY <1>1, <2>3, <4>1
        <5> QED
          BY <2>6, <5>1
      <4> QED
        BY <2>4, <4>1
    <3>2. From(<<1, 0>>) = KeySlots
      <4>1. \A q \in KeySlots : ~Before(q, <<1, 0>>)
        BY <2>3 DEF Before
      <4> QED
        BY <4>1, Zenon DEF From
    <3>3. 1 \in DOMAIN chain /\ 0 \in Nat
      BY <1>1
    <3>4. 0 <= chain[1].data_capacity_
      BY <3>3, LeafFacts
    <3>5. Fine(initialize(1, 0), FirstOf(From(<<1, 0>>)))
      BY <3>3, <3>4, InitializeAtFirst
    <3>6. i = initialize(1, 0)
      BY <2>2, <2>6
    <3> QED
      BY <3>1, <3>2, <3>5, <3>6
  <2> QED
    BY <2>5, <2>6
<1> QED
  BY <1>3, <1>4

-----------------------------------------------------------------------------
(* The iterators.                                                          *)

\* Chains are of sound leaves, and an iterator stands on a key or has ended.
IteratorInv ==
    /\ Sound
    /\ chain = << >> => it = NoIterator
    /\ chain # << >> => Chained
    /\ it = NoIterator \/ OnKey(it) \/ it \in {Ended("forward"), Ended("back")}

\* At first there is none.
LEMMA InitGivesIteratorInv == ASSUME ShapesAreSound PROVE InitIterators => IteratorInv
BY InitIteratorsIsSound DEF InitIterators, IteratorInv

\* A leaf put between sound ones makes a chain of sound leaves.
LEMMA LinkMakesChain ==
    ASSUME NeighboursAreSound, Sound, Link
    PROVE  Chained' /\ chain' # << >>
<1> DEFINE own == [data_capacity_ |-> data_capacity_, bitmap_ |-> bitmap_]
<1>1. /\ <<W, data_capacity_>> \in Iterated /\ W' = W
      /\ W \in Nat /\ W > 0 /\ data_capacity_ \in Nat \ {0} /\ TypeOK
  BY DEF Link, vars, Sound
<1>2. PICK before \in Neighbours, after \in Neighbours : chain' = before \o <<own>> \o after
  BY DEF Link
<1> DEFINE All == {before[j] : j \in DOMAIN before} \cup {after[j] : j \in DOMAIN after}
                      \cup {own}
<1>3. ASSUME NEW leaves \in Neighbours
      PROVE  /\ leaves \in Seq({leaves[j] : j \in DOMAIN leaves})
             /\ \A j \in DOMAIN leaves : IsLeaf(leaves[j], W)
  <2>1. <<W, data_capacity_>>[1] = W
    OBVIOUS
  <2> QED
    BY <1>1, <2>1, Zenon DEF NeighboursAreSound
<1>4. IsLeaf(own, W)
  <2>1. own.data_capacity_ = data_capacity_ /\ own.bitmap_ = bitmap_
    OBVIOUS
  <2>2. /\ bitmap_ \in [0 .. (((data_capacity_ + W - 1) \div W) - 1) -> SUBSET (0 .. (W - 1))]
        /\ \A w \in 0 .. (((data_capacity_ + W - 1) \div W) - 1) : \A b \in bitmap_[w] :
               w * W + b \in Slots
    BY <1>1 DEF TypeOK, Words, Bits, bitmap_size_
  <2>3. \A x \in Slots : x < data_capacity_
    BY <1>1 DEF Slots
  <2> HIDE DEF own
  <2> QED
    BY <1>1, <2>1, <2>2, <2>3, Zenon DEF IsLeaf
<1>5. \A x \in All : IsLeaf(x, W)
  BY <1>3, <1>4
<1>6. before \in Seq(All) /\ <<own>> \in Seq(All) /\ after \in Seq(All)
  <2>1. before \in Seq(All)
    BY <1>3, SeqMonotonic
  <2>2. after \in Seq(All)
    BY <1>3, SeqMonotonic
  <2> QED
    BY <2>1, <2>2
<1> HIDE DEF All, own
<1>7. before \o <<own>> \in Seq(All) /\ Len(before \o <<own>>) >= 1
  BY <1>6
<1>8. chain' \in Seq(All) /\ Len(chain') >= 1
  BY <1>2, <1>6, <1>7
<1>9. /\ Len(chain') \in Nat /\ DOMAIN chain' = 1 .. Len(chain')
      /\ \A leaf \in DOMAIN chain' : chain'[leaf] \in All
  BY <1>8
<1>10. chain' # << >>
  BY <1>8
<1>11. Chained'
  BY <1>1, <1>5, <1>9, <1>10 DEF Chained, IsLeaf
<1> QED
  BY <1>10, <1>11

\* What an operation of an iterator has to do: go to a place, which is a key or
\* the end.
Goes(i, way, p) ==
    /\ Stand(i) = p /\ i.way = way
    /\ OnKey(i) \/ i = Ended(way)

\* Every step of an iterator is in order, and leaves it on a key or at the end.
LEMMA IteratorsMoveInOrder ==
    ASSUME NeighboursAreSound, IteratorInv, NextIterators
    PROVE  IteratorInv' /\ (it' = it \/ MovesInOrder)
<1>1. Sound'
  BY IteratorsKeepSound DEF IteratorInv
<1>2. ASSUME UNCHANGED <<W, chain>>,
             it' = NoIterator \/ OnKey(it') \/ it' \in {Ended("forward"), Ended("back")},
             chain # << >>
      PROVE  IteratorInv'
  <2>1. Chained'
    BY <1>2 DEF IteratorInv, Chained
  <2>2. OnKey(it') => OnKey(it)'
    BY <1>2 DEF OnKey, Stand, KeySlots, FilledOf, Word, Bit, RestOf
  <2>3. (it = NoIterator \/ OnKey(it) \/ it \in {Ended("forward"), Ended("back")})'
    BY <1>2, <2>2 DEF NoIterator, Ended, nullptr
  <2> QED
    BY <1>1, <1>2, <2>1, <2>3 DEF IteratorInv
<1>3. CASE chain = << >> /\ Next /\ UNCHANGED <<chain, asked, it>>
  BY <1>1, <1>3 DEF IteratorInv, NoIterator
<1>4. CASE Link
  <2>1. Chained' /\ chain' # << >> /\ it' = it /\ it = NoIterator
    BY <1>4, LinkMakesChain DEF IteratorInv, Link
  <2> QED
    BY <1>1, <2>1 DEF IteratorInv, NoIterator
<1>5. ASSUME NEW way \in {"forward", "back"}, NEW p, Goes(it', way, p)
      PROVE  /\ it' # NoIterator /\ Stand(it') = p /\ it'.way = way
             /\ it' = NoIterator \/ OnKey(it') \/ it' \in {Ended("forward"), Ended("back")}
  BY <1>5 DEF Goes, NoIterator
<1>6. CASE Start
  <2>1. chain # << >> /\ it = NoIterator /\ UNCHANGED <<W, chain>> /\ Chained
    BY <1>6 DEF Start, vars, IteratorInv
  <2>2. ASSUME NEW leaf \in DOMAIN chain, NEW idx \in 0 .. chain[leaf].data_capacity_,
               LowerBound(leaf, idx)
        PROVE  IteratorInv' /\ MovesInOrder
    <3>1. /\ asked' = <<leaf, idx, "from">> /\ it' = initialize(leaf, idx)
          /\ idx \in Nat /\ idx <= chain[leaf].data_capacity_
      BY <2>1, <2>2, LeafFacts DEF LowerBound
    <3>2. Goes(it', "forward", FirstOf(From(<<leaf, idx>>)))
      BY <2>1, <3>1, InitializeAtFirst DEF Goes
    <3>3. asked'[3] = "from" /\ From(asked') = From(<<leaf, idx>>)
      BY <3>1 DEF From, Before
    <3> QED
      BY <1>2, <1>5, <2>1, <3>2, <3>3 DEF MovesInOrder
  <2>3. ASSUME NEW leaf \in DOMAIN chain, NEW idx \in FilledOf(leaf) \cup {-1},
               LastNoGreater(leaf, idx)
        PROVE  IteratorInv' /\ MovesInOrder
    <3>1. /\ asked' = <<leaf, idx, "no_greater">>
          /\ it' = find_last_no_greater_than(leaf, idx)
      BY <2>3 DEF LastNoGreater
    <3>2. Goes(it', "forward", IF UpTo(<<leaf, idx>>) # {} THEN LastOf(UpTo(<<leaf, idx>>))
                               ELSE FirstOf(KeySlots))
      BY <2>1, <3>1, FindsLastNoGreater DEF Goes
    <3>3. asked'[3] = "no_greater" /\ UpTo(asked') = UpTo(<<leaf, idx>>)
      BY <3>1 DEF UpTo, Before
    <3> QED
      BY <1>2, <1>5, <2>1, <3>2, <3>3 DEF MovesInOrder
  <2>4. ASSUME rbegin PROVE IteratorInv' /\ MovesInOrder
    <3> DEFINE leaf == Len(chain)
               idx == chain[leaf].data_capacity_ - 1
    <3>1. /\ asked' = <<leaf, idx, "back">> /\ it' = initialize_back(leaf, idx)
      BY <2>4 DEF rbegin
    <3>2. leaf \in DOMAIN chain /\ leaf \in Nat
      BY <2>1 DEF Chained
    <3>3. idx \in Nat /\ idx < chain[leaf].data_capacity_
      BY <2>1, <3>2, LeafFacts
    <3>4. Goes(it', "back", LastOf(UpTo(<<leaf, idx>>)))
      BY <2>1, <3>1, <3>2, <3>3, InitializeAtLast DEF Goes
    <3>5. UpTo(<<leaf, idx>>) = KeySlots
      <4>1. ASSUME NEW q \in KeySlots PROVE ~Before(<<leaf, idx>>, q)
        <5>1. /\ q[1] \in DOMAIN chain /\ q[2] \in Nat
              /\ q[2] < chain[q[1]].data_capacity_
          BY <2>1, KeyPlaces
        <5>2. q[1] \in Nat /\ q[1] <= leaf
          BY <2>1, <5>1 DEF Chained
        <5>3. q[1] = leaf => q[2] <= idx
          BY <3>2, <3>3, <5>1, LeafFacts, <2>1
        <5> QED
          BY <3>2, <3>3, <5>1, <5>2, <5>3 DEF Before
      <4> QED
        BY <4>1, Zenon DEF UpTo
    <3>6. asked'[3] = "back"
      BY <3>1
    <3> QED
      BY <1>2, <1>5, <2>1, <3>4, <3>5, <3>6 DEF MovesInOrder
  <2> QED
    BY <1>6, <2>2, <2>3, <2>4 DEF Start
<1>7. ASSUME IsOnKey
      PROVE  OnKey(it) /\ it # NoIterator /\ chain # << >> /\ Chained
  <2>1. it # NoIterator /\ it.cur_leaf_ # nullptr
    BY <1>7 DEF IsOnKey
  <2>2. it \notin {Ended("forward"), Ended("back")}
    BY <2>1 DEF Ended
  <2> QED
    BY <2>1, <2>2 DEF IteratorInv
<1>8. CASE Advance
  <2>1. /\ UNCHANGED <<W, chain>>
        /\ it' = IF it.way = "forward" THEN advance(it) ELSE advance_back(it)
        /\ OnKey(it) /\ it # NoIterator /\ chain # << >> /\ Chained
    BY <1>7, <1>8 DEF Advance, vars
  <2>2. CASE it.way = "forward"
    <3>1. Goes(it', "forward", FirstOf(From(Stand(it)) \ {Stand(it)}))
      BY <2>1, <2>2, AdvanceToNext DEF Goes
    <3> QED
      BY <1>2, <1>5, <2>1, <2>2, <3>1 DEF MovesInOrder
  <2>3. CASE it.way = "back"
    <3>1. Goes(it', "back", LastOf(UpTo(Stand(it)) \ {Stand(it)}))
      BY <2>1, <2>3, AdvanceToNext DEF Goes
    <3> QED
      BY <1>2, <1>5, <2>1, <2>3, <3>1 DEF MovesInOrder
  <2> QED
    BY <2>1, <2>2, <2>3 DEF OnKey
<1>9. CASE TurnRound
  <2>1. /\ UNCHANGED <<W, chain>>
        /\ it' = IF it.way = "forward" THEN initialize_back(it.cur_leaf_, it.cur_idx_)
                 ELSE initialize(it.cur_leaf_, it.cur_idx_)
        /\ OnKey(it) /\ it # NoIterator /\ chain # << >> /\ Chained
    BY <1>7, <1>9 DEF TurnRound, vars
  <2>2. /\ Stand(it) = <<it.cur_leaf_, it.cur_idx_>> /\ Stand(it) \in KeySlots
        /\ it.way \in {"forward", "back"}
    BY <2>1 DEF OnKey, Stand
  <2>3. /\ it.cur_leaf_ \in DOMAIN chain /\ it.cur_idx_ \in Nat
        /\ it.cur_idx_ < chain[it.cur_leaf_].data_capacity_
        /\ it.cur_idx_ <= chain[it.cur_leaf_].data_capacity_
    <3>1. /\ it.cur_leaf_ \in DOMAIN chain /\ it.cur_idx_ \in Nat
          /\ it.cur_idx_ < chain[it.cur_leaf_].data_capacity_
      BY <2>1, <2>2, KeyPlaces
    <3> QED
      BY <2>1, <3>1, LeafFacts
  <2>4. FirstOf(From(Stand(it))) = Stand(it) /\ LastOf(UpTo(Stand(it))) = Stand(it)
    BY <2>1, <2>2, KeyIsFirstAndLast
  <2>5. CASE it.way = "forward"
    <3>1. Goes(it', "back", Stand(it))
      BY <2>1, <2>2, <2>3, <2>4, <2>5, InitializeAtLast DEF Goes
    <3> QED
      BY <1>2, <1>5, <2>1, <2>5, <3>1 DEF MovesInOrder
  <2>6. CASE it.way = "back"
    <3>1. Goes(it', "forward", Stand(it))
      BY <2>1, <2>2, <2>3, <2>4, <2>6, InitializeAtFirst DEF Goes
    <3> QED
      BY <1>2, <1>5, <2>1, <2>6, <3>1 DEF MovesInOrder
  <2> QED
    BY <2>2, <2>5, <2>6
<1> QED
  BY <1>3, <1>4, <1>6, <1>8, <1>9 DEF NextIterators

\* When nothing changes, it stays so.
LEMMA StutterKeepsIteratorInv == IteratorInv /\ UNCHANGED iteratorVars => IteratorInv'
<1> SUFFICES ASSUME IteratorInv, UNCHANGED iteratorVars PROVE IteratorInv'
  OBVIOUS
<1>1. Sound'
  BY IteratorsKeepSound DEF IteratorInv
<1>2. UNCHANGED <<W, chain, it>>
  BY DEF iteratorVars, vars
<1>3. Chained => Chained'
  BY <1>2 DEF Chained
<1>4. OnKey(it) => OnKey(it)'
  BY <1>2 DEF OnKey, Stand, KeySlots, FilledOf, Word, Bit, RestOf
<1>5. (it \in {Ended("forward"), Ended("back")}) => (it \in {Ended("forward"), Ended("back")})'
  BY <1>2 DEF Ended, nullptr
<1> QED
  BY <1>1, <1>2, <1>3, <1>4, <1>5 DEF IteratorInv, NoIterator
=============================================================================
