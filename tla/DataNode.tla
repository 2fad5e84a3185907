------------------------------ MODULE DataNode ------------------------------
(***************************************************************************)
(* One AlexDataNode from its bulk load on, under any sequence of inserts   *)
(* and deletions: class AlexDataNode of src/core/alex_nodes.h.  Each       *)
(* action is one call of the class, its expansion or contraction included. *)
(*                                                                         *)
(* The cost model (significant_cost_deviation, catastrophic_cost) compares *)
(* statistics of past operations with predictions.  It decides only        *)
(* whether an insert is declined for the tree to split the node, so both   *)
(* outcomes are always allowed.                                            *)
(***************************************************************************)
EXTENDS GappedArray

CONSTANTS
    MaxLoad,     \* bound: the largest bulk load
    MaxRetrained \* bound: the capacity up to which a node is retrained

ASSUME BoundsAreNatural == MaxLoad \in Nat /\ MaxRetrained \in Nat

VARIABLES
    node,  \* the node
    ret    \* what the last call returned: see Returned

vars == <<node, ret>>

\* An insert returns a fail code and a slot (-1 for none); a deletion returns
\* how many keys it erased.
Returned(op, code, pos) == [op |-> op, code |-> code, pos |-> pos]

-----------------------------------------------------------------------------
\* What bulk_load takes: key-payload pairs in key order, with no key twice
\* unless the index is a multimap.
Loads ==
    UNION {{values \in [0 .. (n - 1) -> Key \X Payload] :
                \A i, j \in 0 .. (n - 1) :
                    i < j => \/ values[i][1] < values[j][1]
                             \/ allow_duplicates /\ values[i][1] = values[j][1]}
           : n \in 0 .. MaxLoad}

\* bulk_load, or bulk_load_from_existing when the node comes from a split.
Init ==
    /\ \E values \in Loads, density \in {kInitDensity_, kMinDensity_} :
           node \in BulkLoaded(values, density)
    /\ ret = Returned("bulk_load", 0, -1)

-----------------------------------------------------------------------------
\* Fault: expands one key too late.
IsFullLate(d) == 10 * d.num_keys_ > d.expansion_threshold_

IsFull(d) == 10 * d.num_keys_ >= d.expansion_threshold_

\* Fault: expands whatever its size.
NeverAtMaxCapacity(d) == FALSE

\* Too large to expand: insert() gives up with fail code 3 when it is full.
AtMaxCapacity(d) == 10 * d.num_keys_ > kMinDensity_ * max_slots_

\* Fail codes 1 (cost deviation), 2 (catastrophic cost) and 3 (at maximal
\* capacity).  The second test for catastrophic cost is made once in 64
\* inserts on a node that is not full.
DeclineInsert ==
    /\ \/ IsFull(node) /\ ret' = Returned("insert", 1, -1)
       \/ ret' = Returned("insert", 2, -1)
       \/ IsFull(node) /\ AtMaxCapacity(node) /\ ret' = Returned("insert", 3, -1)
    /\ UNCHANGED node

\* The nodes insert() goes on with: a full one has expanded.
Expanded(d) == IF IsFull(d) THEN resize(d, kMinDensity_) ELSE {d}

\* The insert positions that some prediction leads to.
InsertPositions(d, key) ==
    {find_insert_position(d, key, predicted) : predicted \in Slots(d)}

\* insert() that is not declined.  A duplicate that is turned away may have
\* made the node expand all the same.  An insert position that is a gap is
\* its own closest gap, and no key is shifted then.
Insert(key, payload) ==
    /\ ~(IsFull(node) /\ AtMaxCapacity(node))
    /\ \E d \in Expanded(node) :
        LET ub == upper_bound(d, key)
        IN  IF ~allow_duplicates /\ ub > 0 /\ d.key_slots_[ub - 1] = key
            THEN /\ node' = d
                 /\ ret' = Returned("insert", -1, ub - 1)
            ELSE \E pos \in InsertPositions(d, key), gap \in Gaps(d) :
                    /\ IsClosestGap(d, pos, gap)
                    /\ node' = WithElement(d, key, payload, pos, gap)
                    /\ ret' = Returned("insert", 0, SlotAfterShift(gap, pos))

\* What Alex::insert() may do about fail code 1, before it inserts again: it
\* expands the node and retrains its model.
ExpandAndRetrain ==
    /\ ret = Returned("insert", 1, -1)
    /\ CapacityFor(node.num_keys_, kMinDensity_) <= MaxRetrained
    /\ node' \in resize(node, kMinDensity_)
    /\ ret' = Returned("retrain", 0, -1)

\* erase_one_at(), called by erase_one() and to erase at an iterator.
EraseOneAt(pos) ==
    /\ node' \in Contracted(WithoutSlot(node, pos))
    /\ ret' = Returned("erase", 1, -1)

\* erase_one(): the left-most key with this value.
EraseOne(key) ==
    LET pos == find_lower(node, key)
    IN  IF pos = node.data_capacity_ \/ node.key_slots_[pos] # key
        THEN /\ ret' = Returned("erase", 0, -1)
             /\ UNCHANGED node
        ELSE EraseOneAt(pos)

\* The deletion of the keys in the slots from first to before pos.
EraseSlots(first, pos) ==
    LET d == WithoutSlots(node, first, pos)
    IN  /\ node' \in Contracted(d)
        /\ ret' = Returned("erase", node.num_keys_ - d.num_keys_, -1)

\* erase(): every key with this value.
Erase(key) ==
    LET pos == upper_bound(node, key)
    IN  IF pos = 0 \/ node.key_slots_[pos - 1] # key
        THEN /\ ret' = Returned("erase", 0, -1)
             /\ UNCHANGED node
        ELSE EraseSlots(lower_bound(node, key), pos)

\* erase_range(): the keys from start_key to before, or up to, end_key.  It
\* looks at the contraction threshold even when it erases nothing.
EraseRange(start_key, end_key, end_key_inclusive) ==
    LET pos == IF end_key_inclusive
               THEN upper_bound(node, end_key)
               ELSE lower_bound(node, end_key)
    IN  IF pos = 0
        THEN /\ ret' = Returned("erase", 0, -1)
             /\ UNCHANGED node
        ELSE EraseSlots(lower_bound(node, start_key), pos)

Next ==
    \/ \E key \in Key, payload \in Payload : Insert(key, payload)
    \/ DeclineInsert
    \/ ExpandAndRetrain
    \/ \E pos \in node.bitmap_ : EraseOneAt(pos)
    \/ \E key \in Key : EraseOne(key)
    \/ \E key \in Key : Erase(key)
    \/ \E start_key, end_key \in Key, end_key_inclusive \in BOOLEAN :
        EraseRange(start_key, end_key, end_key_inclusive)

Spec == Init /\ [][Next]_vars

-----------------------------------------------------------------------------
(* Properties.                                                             *)

\* The types of the node's fields, and that they fit its capacity.
TypeOK ==
    /\ NodeTypeOK(node)
    /\ ret \in [op : {"bulk_load", "insert", "retrain", "erase"},
               code : Int, pos : Int]

\* The keys never decrease along the slots, gaps included: the searches
\* depend on it, and validate_structure() tests it.
SlotsSorted == Ascending(node)

\* A gap repeats the key of the slot to its right, and kEndSentinel_ at the
\* right end: after shifting inserts, gap-filling deletions and resizes the
\* last slot of a key value is never a gap (validate_structure()).
GapsRepeatNextKey == GapsRepeat(node)

\* num_keys_, which every operation adjusts by itself, is the number of ones
\* in the bitmap (validate_structure()).
CountMatchesBitmap == Counted(node)

\* The inductive invariant behind the theorems of DataNodeProofs.
IInv == TypeOK /\ WellFormed(node)

\* An insert that goes on after the test against expansion_threshold_ finds a
\* gap, so that closest_gap() never returns -1 (which is then used as an
\* index): the threshold never lets the array fill up.
RoomToInsert ==
    ~(IsFull(node) /\ AtMaxCapacity(node)) => \A d \in Expanded(node) : Gaps(d) # {}

\* From whatever slot the model sends them to, the lookups find exactly what
\* their comments say: find_key the last filled slot with the key or -1,
\* find_lower and find_upper the first filled slot not below and above it,
\* and find_last_no_greater_than(), which takes the slot before the upper
\* bound to be filled, gets a filled one.
LookupsExact ==
    \A key \in Key :
        LET holding == {i \in node.bitmap_ : node.key_slots_[i] = key}
            from == {i \in node.bitmap_ : node.key_slots_[i] >= key}
            after == {i \in node.bitmap_ : node.key_slots_[i] > key}
        IN  /\ find_key(node, key) = IF holding = {} THEN -1 ELSE Max(holding)
            /\ find_lower(node, key) = FirstOf(node, from)
            /\ find_upper(node, key) = FirstOf(node, after)
            /\ upper_bound(node, key) > 0
                   => upper_bound(node, key) - 1 \in node.bitmap_

\* find_key: "the last key slot with a certain value is guaranteed to be a real
\* key (instead of a gap)", so a position it returns holds a key.
FindKeyReturnsAKey ==
    \A key \in Key : find_key(node, key) \in node.bitmap_ \cup {-1}

\* Split decisions on append-mostly nodes predict where min_key_ and max_key_
\* lie: no key of the node is outside them, whatever was inserted or erased.
KeysWithinMinMax == WithinMinMax(node)

\* An insert that finds the node full expands it only up to max_slots_: it
\* looks at the size after the costs, and before it resizes.  (A bulk load
\* may start above max_slots_.)
InsertExpandsWithinMaxSlots ==
    [][ret'.op = "insert" /\ node'.data_capacity_ > node.data_capacity_
         => node'.data_capacity_ <= max_slots_]_vars

\* The same of every call, as the comment on max_slots_ has it: a node "cannot
\* expand beyond this number of key/data slots".
ExpandsWithinMaxSlots ==
    [][node'.data_capacity_ > node.data_capacity_
         => node'.data_capacity_ <= max_slots_]_vars

\* A deletion that leaves two keys or more leaves the node at least as dense
\* as kMinDensity_: the contraction threshold is kept up to date.
ErasureKeepsDensity ==
    [][node'.num_keys_ \in 2 .. (node.num_keys_ - 1)
         => 10 * node'.num_keys_ >= kMinDensity_ * node'.data_capacity_]_vars

\* The pairs in slot order.
ItemsOf(d) ==
    [r \in 1 .. Cardinality(d.bitmap_) |->
        LET i == Nth(d.bitmap_, r - 1)
        IN  <<d.key_slots_[i], d.payload_slots_[i]>>]

\* Slots become ranks among the pairs.
Abstract ==
    INSTANCE OrderedMultimap WITH
        items <- ItemsOf(node),
        ret <- [ret EXCEPT !.pos = IF @ = -1 THEN -1 ELSE Rank(node.bitmap_, @)]

\* A data node is an ordered multimap: whatever the layout, every call has
\* the effect and the result of the abstract operation, expansions and
\* contractions are invisible, payloads stay with their keys and equal keys
\* in insertion order.
IsOrderedMultimap == Abstract!Spec
=============================================================================
