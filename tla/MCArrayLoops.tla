---------------------------- MODULE MCArrayLoops ----------------------------
(* An instance of ArrayLoops for TLC.                                      *)
EXTENDS ArrayLoops, TLC

MCKey == 1 .. 3
MCLowest == 0
MCEndSentinel == 9
MCCapacity == (1 .. 7) \cup {9}

\* Two words, whole and partial last words, and four words of four bits, for
\* which the search for a gap looks one word further on either side; and six
\* words of two bits, for a search that has passed several.
MCShape == {<<4, 1>>, <<4, 4>>, <<4, 7>>, <<4, 14>>, <<2, 3>>, <<2, 9>>, <<2, 12>>}

\* The leaves that are put into chains: of a whole and a partial word.
MCIterated == {<<2, 3>>}

Leaf(cap, bits) == [data_capacity_ |-> cap, bitmap_ |-> bits]

\* No neighbour, an empty leaf, a full one, and an empty one next to one whose
\* only key is in its second word.
MCNeighbours ==
    LET empty == Leaf(2, (0 :> {}))
        full == Leaf(2, (0 :> {0, 1}))
        late == Leaf(3, (0 :> {}) @@ (1 :> {0}))
    IN  {<< >>, <<empty>>, <<full>>, <<late, empty>>}
=============================================================================
