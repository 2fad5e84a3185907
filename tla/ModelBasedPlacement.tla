------------------------ MODULE ModelBasedPlacement ------------------------
(***************************************************************************)
(* The loop with which bulk_load, bulk_load_from_existing and resize lay   *)
(* out sorted keys in a fresh array, key by key: each goes where the model *)
(* predicts it, or just after the key before it, until those that are left *)
(* only just fit, which are then packed at the end.  GappedArray takes the *)
(* outcome of the whole loop to be any element of Layouts with the keys    *)
(* that LaidOutKeys says; this module shows that the loop ends so.         *)
(*                                                                         *)
(* predict() is not clamped here: a linear model, whose slope is never     *)
(* negative, may well predict a slot before or after the array.            *)
(***************************************************************************)
EXTENDS GappedArray

CONSTANTS
    MaxKeys,  \* the most keys laid out
    Density,  \* the target densities, in tenths
    Overshoot \* how far outside the array predictions may lie

ASSUME PlacementBounds ==
    /\ MaxKeys \in Nat /\ Overshoot \in Nat
    /\ Density \subseteq 1 .. 9

VARIABLES
    key_at,          \* the keys to lay out: a function over 0..n-1
    predict,         \* the model: a slot for each key
    data_capacity_,  \* of the fresh array
    placed,          \* how many are placed: i, the next key
    last_position,   \* the last slot written
    key_slots_,      \* the slots written, all those up to last_position
    bitmap_,         \* the slots filled
    finished

placementVars == <<key_at, predict, data_capacity_, placed, last_position,
                   key_slots_, bitmap_, finished>>

\* The arrays of keys in order, repeated keys included.
Sorted(n) ==
    {f \in [0 .. (n - 1) -> Key] :
        \A a, b \in 0 .. (n - 1) : a < b => f[a] <= f[b]}

Predictions(cap) ==
    {p \in [Key -> (0 - Overshoot) .. (cap - 1 + Overshoot)] :
        \A a, b \in Key : a < b => p[a] <= p[b]}

num_keys_ == Cardinality(DOMAIN key_at)

InitPlacement ==
    /\ \E n \in 0 .. MaxKeys, density \in Density :
        /\ key_at \in Sorted(n)
        /\ data_capacity_ = CapacityFor(n, density)
    /\ predict \in Predictions(data_capacity_)
    /\ placed = 0
    /\ last_position = -1
    /\ key_slots_ = [j \in {} |-> kEndSentinel_]
    /\ bitmap_ = {}
    /\ finished = FALSE

\* Where the next key goes if there is room for the rest after it.
position == Larger(predict[key_at[placed]], last_position + 1)

keys_remaining == num_keys_ - placed

\* Fault: does not count the key at hand.
FitsWithOneLess == data_capacity_ - position >= keys_remaining - 1

Fits == data_capacity_ - position >= keys_remaining

\* Fault: leaves the sentinel in the gaps.
WrittenLeavingGaps(pos, key) ==
    [j \in 0 .. pos |-> IF j <= last_position THEN key_slots_[j]
                        ELSE IF j = pos THEN key ELSE kEndSentinel_]

\* The slots up to position are written: the gaps with the key at position.
WrittenUpTo(pos, key) ==
    [j \in 0 .. pos |-> IF j <= last_position THEN key_slots_[j] ELSE key]

Place ==
    /\ ~finished /\ placed < num_keys_
    /\ Fits
    /\ key_slots_' = WrittenUpTo(position, key_at[placed])
    /\ bitmap_' = bitmap_ \cup {position}
    /\ last_position' = position
    /\ placed' = placed + 1
    /\ UNCHANGED <<key_at, predict, data_capacity_, finished>>

\* "Fill the rest of the store contiguously."
PackRest ==
    LET pos == data_capacity_ - keys_remaining
    IN  /\ ~finished /\ placed < num_keys_
        /\ ~Fits
        /\ key_slots_' =
               [j \in 0 .. (data_capacity_ - 1) |->
                   IF j <= last_position THEN key_slots_[j]
                   ELSE IF j < pos THEN key_at[placed]
                   ELSE key_at[placed + (j - pos)]]
        /\ bitmap_' = bitmap_ \cup pos .. (data_capacity_ - 1)
        /\ last_position' = data_capacity_ - 1
        /\ placed' = num_keys_
        /\ UNCHANGED <<key_at, predict, data_capacity_, finished>>

\* The gaps after the last key.
FillWithSentinel ==
    /\ ~finished /\ placed = num_keys_
    /\ key_slots_' = WrittenUpTo(data_capacity_ - 1, kEndSentinel_)
    /\ finished' = TRUE
    /\ UNCHANGED <<key_at, predict, data_capacity_, placed, last_position,
                   bitmap_>>

NextPlacement == Place \/ PackRest \/ FillWithSentinel

\* The loop on its own; module ArrayLoops runs a search after it.
SpecPlacement == InitPlacement /\ [][NextPlacement]_placementVars

-----------------------------------------------------------------------------
(* Properties.                                                             *)

\* The types of the loop's variables: above all, only slots are written, and
\* all of those up to last_position are.
TypeOK ==
    /\ DOMAIN key_at = 0 .. (num_keys_ - 1)
    /\ data_capacity_ \in Nat \ {0}
    /\ placed \in 0 .. num_keys_
    /\ last_position \in -1 .. (data_capacity_ - 1)
    /\ bitmap_ \subseteq 0 .. last_position
    /\ DOMAIN key_slots_ = IF finished THEN 0 .. (data_capacity_ - 1)
                                       ELSE 0 .. last_position

\* The keys still to come always fit after the last one, wherever the model
\* sends them: packing never overwrites a key.
RestFits == num_keys_ - placed <= data_capacity_ - 1 - last_position

\* The loop ends with one of the layouts, and with every gap showing the key
\* of the next filled slot: equal keys, which have one prediction, are never
\* torn apart, and no key is lost.
EndsWithALayout ==
    finished =>
        /\ bitmap_ \in Layouts(key_at, DOMAIN key_at, data_capacity_)
        /\ key_slots_ = LaidOutKeys(key_at, DOMAIN key_at, bitmap_,
                                    data_capacity_)
=============================================================================
