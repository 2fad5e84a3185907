---------------------------- MODULE GappedArray ----------------------------
(***************************************************************************)
(* The gapped array at the heart of AlexDataNode (src/core/alex_nodes.h):  *)
(* a sorted array with holes.  A filled slot holds a key and its payload;  *)
(* a gap repeats the key of the next filled slot to its right, or holds    *)
(* kEndSentinel_ when there is none, so that the whole array can be        *)
(* binary-searched without looking at the bitmap.                          *)
(*                                                                         *)
(* A node is a record d.  Its fields have the names of the C++ members,    *)
(* except that bitmap_ is the set of the filled slots, that payload_slots_ *)
(* has the filled slots as its domain (the payload left behind in a gap is *)
(* never read), and that the two thresholds, which are doubles in the      *)
(* code, are kept in tenths of a key: every density is a number of tenths. *)
(*                                                                         *)
(* The linear model only says where a key might be.  Whatever it predicts, *)
(* clamped to the array, must do, so a prediction is an arbitrary slot.    *)
(***************************************************************************)
EXTENDS Ranks, FiniteSetsExt

CONSTANTS
    Key,              \* the keys a caller may use, a set of integers
    Payload,          \* the payloads
    kEndSentinel_,    \* std::numeric_limits<T>::max()
    kLowest,          \* std::numeric_limits<T>::lowest()
    max_slots_,       \* a node of this many slots expands no further
    allow_duplicates  \* the template parameter: TRUE for a multimap

ASSUME KeysAreInRange ==
    /\ kEndSentinel_ \in Int /\ kLowest \in Int /\ kLowest < kEndSentinel_
    /\ Key \subseteq kLowest .. kEndSentinel_

\* set_max_node_size() leaves a data node room for one slot at least.
ASSUME MaxSlotsIsPositive == max_slots_ \in Nat /\ max_slots_ >= 1
ASSUME DuplicatesChoice == allow_duplicates \in BOOLEAN

\* The densities, in tenths.
kMaxDensity_ == 8
kInitDensity_ == 7
kMinDensity_ == 6

Larger(a, b) == IF a >= b THEN a ELSE b
Smaller(a, b) == IF a <= b THEN a ELSE b

Slots(d) == 0 .. (d.data_capacity_ - 1)
Gaps(d) == Slots(d) \ d.bitmap_
check_exists(d, pos) == pos \in d.bitmap_

\* The key that slot pos shows, or would show, to the gaps before it.
KeyFrom(d, pos) ==
    IF pos = d.data_capacity_ THEN kEndSentinel_ ELSE d.key_slots_[pos]

-----------------------------------------------------------------------------
(* What every node must satisfy: the conditions of validate_structure(),   *)
(* and what they rest on.                                                  *)

NodeTypeOK(d) ==
    /\ d = [key_slots_ |-> d.key_slots_,
            payload_slots_ |-> d.payload_slots_,
            bitmap_ |-> d.bitmap_,
            data_capacity_ |-> d.data_capacity_,
            num_keys_ |-> d.num_keys_,
            expansion_threshold_ |-> d.expansion_threshold_,
            contraction_threshold_ |-> d.contraction_threshold_,
            max_key_ |-> d.max_key_,
            min_key_ |-> d.min_key_]
    /\ d.data_capacity_ \in Nat \ {0}
    /\ d.num_keys_ \in Nat
    /\ d.bitmap_ \subseteq Slots(d)
    /\ d.key_slots_ \in [Slots(d) -> Key \cup {kEndSentinel_}]
    /\ d.payload_slots_ \in [d.bitmap_ -> Payload]
    /\ d.expansion_threshold_ \in Nat
    /\ d.contraction_threshold_ \in Nat
    /\ d.max_key_ \in Key \cup {kLowest}
    /\ d.min_key_ \in Key \cup {kEndSentinel_}

\* Over any two slots, not only adjacent ones: what the searches need.
Ascending(d) ==
    \A i, j \in Slots(d) : i < j => d.key_slots_[i] <= d.key_slots_[j]

\* "The last key of a certain value should not be a gap."
GapsRepeat(d) ==
    \A i \in Gaps(d) : d.key_slots_[i] = KeyFrom(d, i + 1)

Counted(d) == Cardinality(d.bitmap_) = d.num_keys_

FilledWithKeys(d) == \A i \in d.bitmap_ : d.key_slots_[i] \in Key

\* A node below its expansion threshold has a gap, a full one has a key, and
\* only the one slot of an empty bulk load has no contraction threshold.
ThresholdsFit(d) ==
    /\ d.num_keys_ <= d.data_capacity_
    /\ 0 < d.expansion_threshold_
    /\ d.expansion_threshold_ <= 10 * d.data_capacity_
    /\ \/ d.contraction_threshold_ = kMinDensity_ * d.data_capacity_
       \/ d.contraction_threshold_ = 0 /\ d.data_capacity_ = 1

WithinMinMax(d) ==
    \A i \in d.bitmap_ :
        d.min_key_ <= d.key_slots_[i] /\ d.key_slots_[i] <= d.max_key_

WellFormed(d) ==
    /\ NodeTypeOK(d)
    /\ Ascending(d)
    /\ GapsRepeat(d)
    /\ Counted(d)
    /\ FilledWithKeys(d)
    /\ ThresholdsFit(d)
    /\ WithinMinMax(d)

-----------------------------------------------------------------------------
(* Searches.  Module ExponentialSearch shows that the search loops compute *)
(* these two numbers from every start position.                            *)

\* The first slot whose key is greater than key, data_capacity_ if none is:
\* the keys are sorted, so it is the number of slots with a key up to key.
upper_bound(d, key) ==
    Cardinality({i \in Slots(d) : d.key_slots_[i] <= key})

\* The first slot whose key is no less than key.
lower_bound(d, key) ==
    Cardinality({i \in Slots(d) : d.key_slots_[i] < key})

\* The first of some slots, data_capacity_ if there is none.
FirstOf(d, S) == IF S = {} THEN d.data_capacity_ ELSE Min(S)

\* The first filled slot from pos on.  Module BitmapScan has the loop.
get_next_filled_position(d, pos) == FirstOf(d, {i \in d.bitmap_ : i >= pos})

find_key(d, key) ==
    LET pos == upper_bound(d, key) - 1
    IN  IF pos < 0 \/ d.key_slots_[pos] # key THEN -1 ELSE pos

find_lower(d, key) == get_next_filled_position(d, lower_bound(d, key))

find_upper(d, key) == get_next_filled_position(d, upper_bound(d, key))

\* Fault: trusts the prediction past the next filled slot.
InsertAtPrediction(d, key, predicted) ==
    LET pos == upper_bound(d, key)
    IN  IF predicted <= pos \/ check_exists(d, pos) THEN pos ELSE predicted

\* Fault: inserts before the keys of the same value.
InsertBeforeEquals(d, key, predicted) == lower_bound(d, key)

\* Where a new key goes, given where the model predicts it: at its upper
\* bound, or, when that is a gap, as near to the prediction as the next
\* filled slot allows.
find_insert_position(d, key, predicted) ==
    LET pos == upper_bound(d, key)
    IN  IF predicted <= pos \/ check_exists(d, pos)
        THEN pos
        ELSE Smaller(predicted, get_next_filled_position(d, pos + 1) - 1)

-----------------------------------------------------------------------------
(* Laying out keys in a fresh array: bulk loads and resizes.               *)

\* Fault: no slot is kept free.
CapacityWithoutRoom(num_keys, density) == (10 * num_keys) \div density

\* initialize() and resize(): always one slot more than there are keys.
CapacityFor(num_keys, density) ==
    Larger((10 * num_keys) \div density, num_keys + 1)

\* The slots that model-based placement can fill, in an array of cap slots,
\* with the keys found at the slots src of key_at.  Each key goes to its
\* prediction or just after the key before it, and once the rest only just
\* fits it is packed at the end (module ModelBasedPlacement has the loop):
\* any sparse choice can come out, except that equal keys, having the same
\* prediction, end up side by side.
Layouts(key_at, src, cap) ==
    {dst \in kSubset(Cardinality(src), 0 .. (cap - 1)) :
        \A j \in dst :
            LET r == Rank(dst, j)
            IN  /\ r + 1 < Cardinality(src)
                /\ key_at[Nth(src, r)] = key_at[Nth(src, r + 1)]
                => j + 1 \in dst}

\* Fault: leaves the sentinel in every gap.
LaidOutKeysLeavingGaps(key_at, src, dst, cap) ==
    [j \in 0 .. (cap - 1) |->
        IF j \in dst THEN key_at[Nth(src, Rank(dst, j))] ELSE kEndSentinel_]

\* Slot j of the new array: the filled slots of dst take the keys of src in
\* order, and a gap takes the key of the next of them.
LaidOutKeys(key_at, src, dst, cap) ==
    [j \in 0 .. (cap - 1) |->
        IF Rank(dst, j) < Cardinality(src)
        THEN key_at[Nth(src, Rank(dst, j))]
        ELSE kEndSentinel_]

LaidOutPayloads(payload_at, src, dst) ==
    [j \in dst |-> payload_at[Nth(src, Rank(dst, j))]]

\* expansion_threshold_ after a load or a resize, in tenths.
ExpansionThreshold(num_keys, cap) ==
    Smaller(Larger(kMaxDensity_ * cap, 10 * (num_keys + 1)), 10 * cap)

\* bulk_load and bulk_load_from_existing of the key-payload pairs `values`,
\* a function over 0..n-1 sorted by key, at the density the caller uses:
\* the nodes that can result.
BulkLoaded(values, density) ==
    LET n == Cardinality(DOMAIN values)
        cap == CapacityFor(n, density)
        key_at == [i \in DOMAIN values |-> values[i][1]]
        payload_at == [i \in DOMAIN values |-> values[i][2]]
    IN  {[key_slots_ |-> LaidOutKeys(key_at, DOMAIN values, dst, cap),
          payload_slots_ |-> LaidOutPayloads(payload_at, DOMAIN values, dst),
          bitmap_ |-> dst,
          data_capacity_ |-> cap,
          num_keys_ |-> n,
          expansion_threshold_ |->
              IF n = 0 THEN 10 * cap ELSE ExpansionThreshold(n, cap),
          contraction_threshold_ |-> IF n = 0 THEN 0 ELSE kMinDensity_ * cap,
          max_key_ |-> IF n = 0 THEN kLowest ELSE key_at[n - 1],
          min_key_ |-> IF n = 0 THEN kEndSentinel_ ELSE key_at[0]] :
            dst \in Layouts(key_at, DOMAIN values, cap)}

\* Fault: keeps the thresholds of the old capacity.
ResizedForgettingThresholds(d, density) ==
    LET cap == CapacityFor(d.num_keys_, density)
    IN  IF d.num_keys_ = 0 THEN {d}
        ELSE {[d EXCEPT
                 !.key_slots_ = LaidOutKeys(d.key_slots_, d.bitmap_, dst, cap),
                 !.payload_slots_ =
                     LaidOutPayloads(d.payload_slots_, d.bitmap_, dst),
                 !.bitmap_ = dst,
                 !.data_capacity_ = cap] :
                     dst \in Layouts(d.key_slots_, d.bitmap_, cap)}

\* resize(): the nodes that laying out d at a new density can give.
resize(d, density) ==
    LET cap == CapacityFor(d.num_keys_, density)
    IN  IF d.num_keys_ = 0 THEN {d}
        ELSE {[d EXCEPT
                 !.key_slots_ = LaidOutKeys(d.key_slots_, d.bitmap_, dst, cap),
                 !.payload_slots_ =
                     LaidOutPayloads(d.payload_slots_, d.bitmap_, dst),
                 !.bitmap_ = dst,
                 !.data_capacity_ = cap,
                 !.expansion_threshold_ = ExpansionThreshold(d.num_keys_, cap),
                 !.contraction_threshold_ = kMinDensity_ * cap] :
                     dst \in Layouts(d.key_slots_, d.bitmap_, cap)}

-----------------------------------------------------------------------------
(* Changing one key.                                                       *)

\* Fault: the gaps before pos keep their keys.
KeysWrittenAtPosOnly(key_slots, bits, pos, key) ==
    [key_slots EXCEPT ![pos] = key]

\* The keys after writing key at pos and over the gaps just before it, with
\* the slots of bits filled.  Inserting and erasing one key both end so.
KeysWritten(key_slots, bits, pos, key) ==
    [j \in DOMAIN key_slots |->
        IF j = pos \/ (j < pos /\ \A i \in j .. (pos - 1) : i \notin bits)
        THEN key
        ELSE key_slots[j]]

\* Which slot of the old array ends at slot i when the keys between pos and
\* a gap move one step towards the gap.
ShiftedFrom(gap, pos, i) ==
    CASE gap >= pos /\ i \in (pos + 1) .. gap -> i - 1
      [] gap < pos /\ i \in gap .. (pos - 2) -> i + 1
      [] OTHER -> i

\* closest_gap(): of the gaps, one nearest to pos, the left one of two.
\* Module BitmapScan has the code's search over the words of the bitmap.
IsClosestGap(d, pos, gap) ==
    LET p == Smaller(pos, d.data_capacity_ - 1)
        Distance(g) == IF g < p THEN p - g ELSE g - p
    IN  /\ gap \in Gaps(d)
        /\ \A g \in Gaps(d) :
               \/ Distance(gap) < Distance(g)
               \/ Distance(gap) = Distance(g) /\ gap <= g

\* insert_element_at() moves the keys between pos and gap out of the way, one
\* step towards the gap: the new key then goes to pos, or to pos - 1 when they
\* moved to the left.  With gap = pos nothing moves.
SlotAfterShift(gap, pos) == IF gap >= pos THEN pos ELSE pos - 1

KeysShifted(d, pos, gap) ==
    [i \in Slots(d) |-> d.key_slots_[ShiftedFrom(gap, pos, i)]]

PayloadsShifted(d, payload, pos, gap) ==
    [i \in d.bitmap_ \cup {gap} |->
        IF i = SlotAfterShift(gap, pos) THEN payload
        ELSE d.payload_slots_[ShiftedFrom(gap, pos, i)]]

\* Fault: updates min_key_ only when max_key_ does not change.
WithElementElseIf(d, key, payload, pos, gap) ==
    LET bits == d.bitmap_ \cup {gap}
    IN  [d EXCEPT
           !.key_slots_ = KeysWritten(KeysShifted(d, pos, gap), bits,
                                      SlotAfterShift(gap, pos), key),
           !.payload_slots_ = PayloadsShifted(d, payload, pos, gap),
           !.bitmap_ = bits,
           !.num_keys_ = @ + 1,
           !.max_key_ = Larger(@, key),
           !.min_key_ = IF key > d.max_key_ THEN @ ELSE Smaller(@, key)]

\* What insert() does once it has a position and its closest gap.
WithElement(d, key, payload, pos, gap) ==
    LET bits == d.bitmap_ \cup {gap}
    IN  [d EXCEPT
           !.key_slots_ = KeysWritten(KeysShifted(d, pos, gap), bits,
                                      SlotAfterShift(gap, pos), key),
           !.payload_slots_ = PayloadsShifted(d, payload, pos, gap),
           !.bitmap_ = bits,
           !.num_keys_ = @ + 1,
           !.max_key_ = Larger(@, key),
           !.min_key_ = Smaller(@, key)]

\* erase_one_at(), before it considers contracting.
WithoutSlot(d, pos) ==
    LET bits == d.bitmap_ \ {pos}
    IN  [d EXCEPT
           !.key_slots_ =
               KeysWritten(d.key_slots_, bits, pos, KeyFrom(d, pos + 1)),
           !.payload_slots_ = [i \in bits |-> d.payload_slots_[i]],
           !.bitmap_ = bits,
           !.num_keys_ = @ - 1]

\* Fault: counts the gaps of the erased keys too.
WithoutSlotsCountingGaps(d, first, pos) ==
    LET bits == d.bitmap_ \ (first .. (pos - 1))
    IN  [d EXCEPT
           !.key_slots_ =
               [i \in Slots(d) |-> IF i \in first .. (pos - 1)
                                   THEN KeyFrom(d, pos)
                                   ELSE d.key_slots_[i]],
           !.payload_slots_ = [i \in bits |-> d.payload_slots_[i]],
           !.bitmap_ = bits,
           !.num_keys_ = @ - Cardinality(first .. (pos - 1))]

\* erase() and erase_range(), before they consider contracting: the slots
\* from first to before pos, all of them filled or gaps of the keys to go.
WithoutSlots(d, first, pos) ==
    LET bits == d.bitmap_ \ (first .. (pos - 1))
    IN  [d EXCEPT
           !.key_slots_ =
               [i \in Slots(d) |-> IF i \in first .. (pos - 1)
                                   THEN KeyFrom(d, pos)
                                   ELSE d.key_slots_[i]],
           !.payload_slots_ = [i \in bits |-> d.payload_slots_[i]],
           !.bitmap_ = bits,
           !.num_keys_ = @ - Cardinality(d.bitmap_ \cap (first .. (pos - 1)))]

\* What every deletion ends with.
Contracted(d) ==
    IF 10 * d.num_keys_ < d.contraction_threshold_
    THEN resize(d, kMaxDensity_)
    ELSE {d}
=============================================================================
