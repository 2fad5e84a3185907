----------------------------- MODULE BitmapScan -----------------------------
(***************************************************************************)
(* The bitmap of a data node as the words it is stored in, and the three   *)
(* queries that scan it word by word: get_next_filled_position,            *)
(* closest_gap (the version with bit-counting instructions, which finds    *)
(* its way by comparing words) and num_keys_in_range.  GappedArray has     *)
(* their answers in terms of slots.                                        *)
(*                                                                         *)
(* A word is the set of its bits that are one, bit 0 standing for the      *)
(* lowest slot.  The bits of the last word beyond data_capacity_ are zero, *)
(* and look like gaps.  A word read beyond the end of the bitmap is        *)
(* whatever lies in memory there.                                          *)
(***************************************************************************)
EXTENDS Integers, FiniteSetsExt

CONSTANT Shape  \* the word widths and data capacities considered

\* Words have an even number of bits; an array has a slot.
ShapesAreSound ==
    /\ Shape \subseteq (Nat \ {0}) \X (Nat \ {0})
    /\ \A shape \in Shape : shape[1] % 2 = 0

VARIABLES
    W,               \* the bits of a word: 64 in the code
    data_capacity_,
    bitmap_          \* the words, a function over 0 .. bitmap_size_-1

vars == <<W, data_capacity_, bitmap_>>

Bits == 0 .. (W - 1)
Slots == 0 .. (data_capacity_ - 1)
bitmap_size_ == (data_capacity_ + W - 1) \div W
Words == 0 .. (bitmap_size_ - 1)

\* initialize(): no slot is filled.
Init ==
    /\ \E shape \in Shape : W = shape[1] /\ data_capacity_ = shape[2]
    /\ bitmap_ = [w \in Words |-> {}]

check_exists(pos) == pos % W \in bitmap_[pos \div W]

\* Fault: counts the bits from one.
SetBitCountedFromOne(pos) ==
    /\ bitmap_' = [bitmap_ EXCEPT ![pos \div W] = @ \cup {(pos % W) + 1}]
    /\ UNCHANGED <<W, data_capacity_>>

set_bit(pos) ==
    /\ bitmap_' = [bitmap_ EXCEPT ![pos \div W] = @ \cup {pos % W}]
    /\ UNCHANGED <<W, data_capacity_>>

unset_bit(pos) ==
    /\ bitmap_' = [bitmap_ EXCEPT ![pos \div W] = @ \ {pos % W}]
    /\ UNCHANGED <<W, data_capacity_>>

Next == \E pos \in Slots : set_bit(pos) \/ unset_bit(pos)

Spec == Init /\ [][Next]_vars

-----------------------------------------------------------------------------
\* What reading a word can give.
Read(w) == IF w \in Words THEN {bitmap_[w]} ELSE SUBSET Bits

\* Fault: forgets to zero out the bits before pos.
AllBitsOf(word, bit) == word

\* The bits of a word from a bit on.
BitsFrom(word, bit) == {b \in word : b >= bit}

\* The answers get_next_filled_position can give: one, unless it reads a word
\* that is not there.  After an empty word it goes on to the next that is
\* not, if there is one.
get_next_filled_position(pos, exclusive) ==
    LET from == IF exclusive THEN pos + 1 ELSE pos
        w == from \div W
        Later == {v \in Words : v > w /\ bitmap_[v] # {}}
        In(word) ==
            LET bits == BitsFrom(word, from % W)
            IN  IF bits # {} THEN w * W + Min(bits)
                ELSE IF Later # {} THEN Min(Later) * W + Min(bitmap_[Min(Later)])
                ELSE data_capacity_
    IN  IF exclusive /\ from = data_capacity_
        THEN {data_capacity_}
        ELSE {In(word) : word \in Read(w)}

\* Fault: the last word counts up to its slot right as well.
BitsUpToAndWith(word, bit) == {b \in word : b <= bit}

\* The bits of a word before a bit.
BitsBefore(word, bit) == {b \in word : b < bit}

\* The keys from slot left to before slot right, by counting ones.
num_keys_in_range(left, right) ==
    LET lw == left \div W
        rw == right \div W
    IN  IF lw = rw
        THEN {Cardinality(BitsBefore(BitsFrom(word, left % W), right % W)) :
                  word \in Read(lw)}
        ELSE LET Count(v) == Cardinality(bitmap_[v])
                 between == MapThenSumSet(Count, (lw + 1) .. (rw - 1))
             IN  {Cardinality(BitsFrom(bitmap_[lw], left % W)) + between +
                      IF rw = bitmap_size_ THEN 0
                      ELSE Cardinality(BitsBefore(bitmap_[rw], right % W))}

-----------------------------------------------------------------------------
(* closest_gap().                                                          *)

Zeros(w) == Bits \ bitmap_[w]
HasZero(w) == Zeros(w) # {}
FirstZero(w) == w * W + Min(Zeros(w))
LastZero(w) == w * W + Max(Zeros(w))

\* A right gap beyond data_capacity_ is none.
Nearer(pos, left, right) ==
    IF pos - left <= right - pos \/ right >= data_capacity_
    THEN left ELSE right

\* Within one word the zeros either side of pos decide; on a side that has
\* none, the next word's.  A zero too far right, and a side without any, lose.
GapInWord(pos) ==
    LET w == pos \div W
        bit == pos % W
        after == {b \in Zeros(w) : b >= bit}
        before == {b \in Zeros(w) : b < bit}
        right == IF after # {} THEN Min(after) - bit
                 ELSE IF w + 1 < bitmap_size_
                      THEN W - bit + IF HasZero(w + 1) THEN Min(Zeros(w + 1))
                                                       ELSE W
                 ELSE W
        left == IF before # {} THEN bit - Max(before)
                ELSE IF w > 0
                     THEN bit + 1 + IF HasZero(w - 1)
                                    THEN W - 1 - Max(Zeros(w - 1)) ELSE W
                ELSE W
    IN  IF right < left /\ pos + right < data_capacity_
        THEN pos + right ELSE pos - left

\* Fault: a gap d words away on one side settles it.
NoLookBeyond(pos, d) ==
    LET w == pos \div W
    IN  IF HasZero(w - d)
        THEN IF HasZero(w + d)
             THEN Nearer(pos, LastZero(w - d), FirstZero(w + d))
             ELSE LastZero(w - d)
        ELSE FirstZero(w + d)

\* The words d away on both sides, when one of them has a gap: when only one
\* has, a gap in the word after the other one may still be nearer.
GapInWordsAt(pos, d) ==
    LET w == pos \div W
        bit == pos % W
    IN  IF HasZero(w - d)
        THEN IF HasZero(w + d)
             THEN Nearer(pos, LastZero(w - d), FirstZero(w + d))
             ELSE IF /\ bit > W \div 2
                     /\ w + d + 1 < bitmap_size_ /\ HasZero(w + d + 1)
                  THEN Nearer(pos, LastZero(w - d), FirstZero(w + d + 1))
                  ELSE LastZero(w - d)
        ELSE IF bit < W \div 2 /\ w - d > 0 /\ HasZero(w - d - 1)
             THEN Nearer(pos, LastZero(w - d - 1), FirstZero(w + d))
             ELSE FirstZero(w + d)

\* Once a side has run out of words, the other one alone: -1 if it has no gap.
GapOnOneSide(w, distance) ==
    LET maxRight == bitmap_size_ - 1 - w
        left == {v \in 0 .. (w - distance) : HasZero(v)}
        right == {v \in (w + distance) .. (bitmap_size_ - 1) : HasZero(v)}
    IN  IF w > maxRight
        THEN IF left = {} THEN -1 ELSE LastZero(Max(left))
        ELSE IF right = {} \/ FirstZero(Min(right)) >= data_capacity_
             THEN -1 ELSE FirstZero(Min(right))

closest_gap(p) ==
    LET pos == IF p < data_capacity_ THEN p ELSE data_capacity_ - 1
        w == pos \div W
        full == \/ ~HasZero(w)
                \/ /\ w = bitmap_size_ - 1
                   /\ Cardinality(bitmap_[w]) =
                          data_capacity_ - (bitmap_size_ - 1) * W
        maxBoth == Min({w, bitmap_size_ - 1 - w})
        hits == {d \in 1 .. maxBoth :
                    \/ HasZero(w - d)
                    \/ HasZero(w + d) /\ FirstZero(w + d) < data_capacity_}
    IN  IF ~full THEN GapInWord(pos)
        ELSE IF hits # {} THEN GapInWordsAt(pos, Min(hits))
        ELSE GapOnOneSide(w, maxBoth + 1)

-----------------------------------------------------------------------------
(* Properties.                                                             *)

\* The types, and that the bits beyond data_capacity_ stay zero.
TypeOK ==
    /\ <<W, data_capacity_>> \in Shape
    /\ bitmap_ \in [Words -> SUBSET Bits]
    /\ \A w \in Words : \A b \in bitmap_[w] : w * W + b \in Slots

Filled == {pos \in Slots : check_exists(pos)}

\* "Starting from a position, return the first position that is not a gap.
\* If no more filled positions, will return data_capacity": as long as there
\* is a slot at the position.
NextFilledIsFirst ==
    \A pos \in Slots, exclusive \in BOOLEAN :
        LET later == {f \in Filled : f >= pos /\ (exclusive => f # pos)}
        IN  get_next_filled_position(pos, exclusive) =
                {IF later = {} THEN data_capacity_ ELSE Min(later)}

\* find_lower "returns position in range [0, data_capacity]": it starts where
\* lower_bound sends it, at data_capacity_ when the last slot is filled with a
\* smaller key.
FindReturnsAPosition ==
    \A pos \in 0 .. data_capacity_ :
        (pos = data_capacity_ => pos - 1 \in Filled)
        => get_next_filled_position(pos, FALSE) \subseteq 0 .. data_capacity_

\* However the words hold the bits, the gap returned is one nearest to pos,
\* the left one of two, and -1 only if there is none: the bits beyond
\* data_capacity_ never count, and no word that could hold a nearer gap is
\* left out.
ClosestGapIsClosest ==
    LET gaps == Slots \ Filled
        Distance(p, g) == IF g < p THEN p - g ELSE g - p
    IN  \A pos \in Slots :
            LET gap == closest_gap(pos)
            IN  IF gaps = {} THEN gap = -1
                ELSE /\ gap \in gaps
                     /\ \A g \in gaps :
                            \/ Distance(pos, gap) < Distance(pos, g)
                            \/ /\ Distance(pos, gap) = Distance(pos, g)
                               /\ gap <= g

\* num_keys_in_range counts the keys of exactly the slots asked for, for
\* ranges within a word, over several, and up to the end of the array.
CountsRange ==
    \A left, right \in 0 .. data_capacity_ :
        left <= right
        => num_keys_in_range(left, right) =
               {Cardinality({pos \in Filled : left <= pos /\ pos < right})}
=============================================================================
