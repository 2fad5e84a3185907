-------------------------- MODULE OrderedMultimap --------------------------
(***************************************************************************)
(* What a data node promises, with no slots, gaps or capacities: a sorted  *)
(* sequence of key-payload pairs.  Pairs of equal keys keep the order they *)
(* were inserted in, a new one going after the old ones, and erase_one     *)
(* takes the first of them.  Positions are ranks in the sequence.          *)
(***************************************************************************)
EXTENDS Ranks, SequencesExt

CONSTANTS Key, Payload, allow_duplicates

VARIABLES
    items,  \* the pairs, sorted by key
    ret     \* what the last operation returned

vars == <<items, ret>>

KeyOf(item) == item[1]
Sorted(s) == \A i \in 1 .. (Len(s) - 1) : KeyOf(s[i]) <= KeyOf(s[i + 1])

\* The number of pairs whose key is up to key, and is below it.
RankAfter(key) == Cardinality({i \in DOMAIN items : KeyOf(items[i]) <= key})
RankBefore(key) == Cardinality({i \in DOMAIN items : KeyOf(items[i]) < key})

\* The pairs at some positions, in their order.
Kept(S) == [r \in 1 .. Cardinality(S) |-> items[Nth(S, r - 1)]]

Returned(op, code, pos) == [op |-> op, code |-> code, pos |-> pos]

Init ==
    /\ items \in Seq(Key \X Payload) /\ Sorted(items)
    /\ ret = Returned("bulk_load", 0, -1)

Insert(key, payload) ==
    /\ allow_duplicates \/ RankBefore(key) = RankAfter(key)
    /\ items' = InsertAt(items, RankAfter(key) + 1, <<key, payload>>)
    /\ ret' = Returned("insert", 0, RankAfter(key))

RejectDuplicate(key) ==
    /\ ~allow_duplicates /\ RankBefore(key) < RankAfter(key)
    /\ ret' = Returned("insert", -1, RankAfter(key) - 1)
    /\ UNCHANGED items

\* The node may ask its parent to split it instead.
Decline ==
    /\ \E fail \in 1 .. 3 : ret' = Returned("insert", fail, -1)
    /\ UNCHANGED items

\* The tree may respond by retraining the node's model.
Retrain ==
    /\ ret = Returned("insert", 1, -1)
    /\ ret' = Returned("retrain", 0, -1)
    /\ UNCHANGED items

EraseOneAt(rank) ==
    /\ items' = Kept(DOMAIN items \ {rank})
    /\ ret' = Returned("erase", 1, -1)

EraseOne(key) ==
    IF RankBefore(key) < RankAfter(key)
    THEN EraseOneAt(RankBefore(key) + 1)
    ELSE /\ ret' = Returned("erase", 0, -1)
         /\ UNCHANGED items

EraseKeys(doomed) ==
    /\ items' = Kept({i \in DOMAIN items : KeyOf(items[i]) \notin doomed})
    /\ ret' = Returned("erase", Len(items) - Len(items'), -1)

Erase(key) == EraseKeys({key})

EraseRange(start_key, end_key, end_key_inclusive) ==
    EraseKeys({k \in Key : /\ start_key <= k
                           /\ k < end_key \/ (end_key_inclusive /\ k = end_key)})

Next ==
    \/ \E key \in Key :
        \/ \E payload \in Payload : Insert(key, payload)
        \/ RejectDuplicate(key) \/ EraseOne(key) \/ Erase(key)
    \/ Decline \/ Retrain
    \/ \E rank \in 1 .. Len(items) : EraseOneAt(rank)
    \/ \E start_key, end_key \in Key, end_key_inclusive \in BOOLEAN :
        EraseRange(start_key, end_key, end_key_inclusive)

Spec == Init /\ [][Next]_vars
=============================================================================
