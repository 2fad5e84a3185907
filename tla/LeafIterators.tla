---------------------------- MODULE LeafIterators ----------------------------
(***************************************************************************)
(* The iterators over the chain of leaves: Iterator, ReverseIterator and   *)
(* their constant twins of src/core/alex.h, with the lookups that return   *)
(* them.  An iterator walks over the words of the bitmaps, from leaf to    *)
(* leaf, and keeps what is left of the word it is in.                      *)
(*                                                                         *)
(* A leaf with a bitmap as BitmapScan leaves it stands in a chain between  *)
(* others; the chain does not change while an iterator is in use.          *)
(***************************************************************************)
EXTENDS BitmapScan, Sequences

CONSTANTS
    Iterated,   \* the shapes of leaves that are put into a chain
    Neighbours  \* the chains of leaves it may stand after and before

VARIABLES
    chain, \* the leaves in order, empty as long as there is no iterator
    asked, \* what the iterator was made for, <<leaf, slot, kind of lookup>>
    it     \* the iterator

iteratorVars == <<vars, chain, asked, it>>

nullptr == 0
NoIterator == [way |-> "none"]

InitIterators == Init /\ chain = << >> /\ asked = << >> /\ it = NoIterator

bitmap_size_of(leaf) == (leaf.data_capacity_ + W - 1) \div W

\* A leaf of words of so many bits, of which only those of slots may be one.
IsLeaf(leaf, width) ==
    LET words == 0 .. (((leaf.data_capacity_ + width - 1) \div width) - 1)
    IN  /\ leaf.data_capacity_ \in Nat \ {0}
        /\ leaf.bitmap_ \in [words -> SUBSET (0 .. (width - 1))]
        /\ \A w \in words : \A b \in leaf.bitmap_[w] :
               w * width + b < leaf.data_capacity_

NeighboursAreSound ==
    \A shape \in Iterated, leaves \in Neighbours :
        /\ leaves \in Seq({leaves[j] : j \in DOMAIN leaves})
        /\ \A j \in DOMAIN leaves : IsLeaf(leaves[j], shape[1])

\* Slots, and words, of the chain by leaf and number, in their order.
Before(p, q) == p[1] < q[1] \/ (p[1] = q[1] /\ p[2] < q[2])
None == <<nullptr, 0>>
FirstOf(S) == IF S = {} THEN None ELSE CHOOSE p \in S : \A q \in S : ~Before(q, p)
LastOf(S) == IF S = {} THEN None ELSE CHOOSE p \in S : \A q \in S : ~Before(p, q)

\* The words that have a key.
WordsWithKeys ==
    UNION {{<<l, w>> : w \in {v \in 0 .. bitmap_size_of(chain[l]) - 1 :
                                  chain[l].bitmap_[v] # {}}} : l \in DOMAIN chain}

Ended(way) ==
    [way |-> way, cur_leaf_ |-> nullptr, cur_idx_ |-> 0,
     cur_bitmap_idx_ |-> 0, cur_bitmap_data_ |-> {}]

\* An iterator on a bit of a word, with the rest of it.
At(way, word, data, bit) ==
    [way |-> way, cur_leaf_ |-> word[1], cur_idx_ |-> word[2] * W + bit,
     cur_bitmap_idx_ |-> word[2], cur_bitmap_data_ |-> data \ {bit}]

WordOf(i) == <<i.cur_leaf_, i.cur_bitmap_idx_>>

\* Fault: ends with the leaf.
advance_within(i) ==
    LET next == FirstOf({q \in WordsWithKeys : Before(WordOf(i), q)})
        data == chain[next[1]].bitmap_[next[2]]
    IN  IF i.cur_bitmap_data_ # {}
        THEN At(i.way, WordOf(i), i.cur_bitmap_data_, Min(i.cur_bitmap_data_))
        ELSE IF next[1] # i.cur_leaf_ THEN Ended(i.way)
        ELSE At(i.way, next, data, Min(data))

\* Iterator::advance: to the lowest bit of the word, or of the next word that
\* has one.
advance(i) ==
    LET next == FirstOf({q \in WordsWithKeys : Before(WordOf(i), q)})
        data == chain[next[1]].bitmap_[next[2]]
    IN  IF i.cur_bitmap_data_ # {}
        THEN At(i.way, WordOf(i), i.cur_bitmap_data_, Min(i.cur_bitmap_data_))
        ELSE IF next = None THEN Ended(i.way)
        ELSE At(i.way, next, data, Min(data))

\* ReverseIterator::advance.
advance_back(i) ==
    LET next == LastOf({q \in WordsWithKeys : Before(q, WordOf(i))})
        data == chain[next[1]].bitmap_[next[2]]
    IN  IF i.cur_bitmap_data_ # {}
        THEN At(i.way, WordOf(i), i.cur_bitmap_data_, Max(i.cur_bitmap_data_))
        ELSE IF next = None THEN Ended(i.way)
        ELSE At(i.way, next, data, Max(data))

\* Iterator::initialize: a slot beyond the last is the first of the next leaf.
initialize(leaf, idx) ==
    LET beyond == idx >= chain[leaf].data_capacity_
        l == IF beyond THEN leaf + 1 ELSE leaf
        i == IF beyond THEN 0 ELSE idx
    IN  IF l \notin DOMAIN chain THEN Ended("forward")
        ELSE advance([way |-> "forward", cur_leaf_ |-> l, cur_idx_ |-> i,
                      cur_bitmap_idx_ |-> i \div W,
                      cur_bitmap_data_ |-> BitsFrom(chain[l].bitmap_[i \div W], i % W)])

\* ReverseIterator::initialize, of a slot that there is.
initialize_back(leaf, idx) ==
    advance_back([way |-> "back", cur_leaf_ |-> leaf, cur_idx_ |-> idx,
                  cur_bitmap_idx_ |-> idx \div W,
                  cur_bitmap_data_ |->
                      {b \in chain[leaf].bitmap_[idx \div W] : b <= idx % W}])

FilledOf(leaf) ==
    {pos \in 0 .. chain[leaf].data_capacity_ - 1 :
        pos % W \in chain[leaf].bitmap_[pos \div W]}

\* find_last_no_greater_than, idx being the last slot that is no greater, -1 if
\* there is none in the leaf: then the last one of a leaf before it, or the
\* first of the chain.
find_last_no_greater_than(leaf, idx) ==
    LET before == {l \in 1 .. (leaf - 1) : FilledOf(l) # {}}
    IN  IF idx >= 0 THEN initialize(leaf, idx)
        ELSE IF before # {} THEN initialize(Max(before), Max(FilledOf(Max(before))))
        ELSE initialize(1, 0)

-----------------------------------------------------------------------------
\* The leaf takes its place in a chain.
Link ==
    /\ chain = << >> /\ <<W, data_capacity_>> \in Iterated
    /\ \E before \in Neighbours, after \in Neighbours :
           chain' = before \o <<[data_capacity_ |-> data_capacity_, bitmap_ |-> bitmap_]>>
                           \o after
    /\ UNCHANGED <<vars, asked, it>>

\* begin, find, lower_bound and upper_bound: an iterator from a slot, or from
\* behind the last one, of some leaf.
LowerBound(leaf, idx) ==
    asked' = <<leaf, idx, "from">> /\ it' = initialize(leaf, idx)

LastNoGreater(leaf, idx) ==
    asked' = <<leaf, idx, "no_greater">> /\ it' = find_last_no_greater_than(leaf, idx)

rbegin ==
    LET idx == chain[Len(chain)].data_capacity_ - 1
    IN  asked' = <<Len(chain), idx, "back">> /\ it' = initialize_back(Len(chain), idx)

Start ==
    /\ chain # << >> /\ it = NoIterator
    /\ \/ \E leaf \in DOMAIN chain :
              \/ \E idx \in 0 .. chain[leaf].data_capacity_ : LowerBound(leaf, idx)
              \/ \E idx \in FilledOf(leaf) \cup {-1} : LastNoGreater(leaf, idx)
       \/ rbegin
    /\ UNCHANGED <<vars, chain>>

IsOnKey == it # NoIterator /\ it.cur_leaf_ # nullptr

\* operator++.
Advance ==
    /\ IsOnKey
    /\ it' = IF it.way = "forward" THEN advance(it) ELSE advance_back(it)
    /\ UNCHANGED <<vars, chain, asked>>

\* The constructors of one kind of iterator from the other.
TurnRound ==
    /\ IsOnKey
    /\ it' = IF it.way = "forward" THEN initialize_back(it.cur_leaf_, it.cur_idx_)
             ELSE initialize(it.cur_leaf_, it.cur_idx_)
    /\ UNCHANGED <<vars, chain, asked>>

NextIterators ==
    \/ chain = << >> /\ Next /\ UNCHANGED <<chain, asked, it>>
    \/ Link \/ Start \/ Advance \/ TurnRound

-----------------------------------------------------------------------------
(* Properties.                                                             *)

KeySlots == UNION {{<<l, pos>> : pos \in FilledOf(l)} : l \in DOMAIN chain}
Stand(i) == <<i.cur_leaf_, i.cur_idx_>>
UpTo(p) == {q \in KeySlots : ~Before(p, q)}
From(p) == {q \in KeySlots : ~Before(q, p)}

\* Iterators start where they are asked to: at the first key from a slot on, at
\* the last of all for a reverse one, and at the last key not behind a slot,
\* if there is one and else at the first of all.  They pass over no key and stop
\* at nothing else, in either way, over empty words and leaves, up to the end,
\* and keep their place when turned round.
MovesInOrder ==
    IF it' = NoIterator THEN TRUE
    ELSE IF it = NoIterator
    THEN Stand(it') =
         IF asked'[3] = "from" THEN FirstOf(From(asked'))
         ELSE IF asked'[3] = "back" THEN LastOf(KeySlots)
         ELSE IF UpTo(asked') # {} THEN LastOf(UpTo(asked'))
         ELSE FirstOf(KeySlots)
    ELSE Stand(it') =
         IF it'.way # it.way THEN Stand(it)
         ELSE IF it.way = "forward" THEN FirstOf(From(Stand(it)) \ {Stand(it)})
         ELSE LastOf(UpTo(Stand(it)) \ {Stand(it)})

IteratesInOrder == [][MovesInOrder]_it
=============================================================================
