----------------------------- MODULE ArrayLoops -----------------------------
(***************************************************************************)
(* The loops over the arrays of a data node, one after the other: keys are *)
(* laid out in a fresh array (ModelBasedPlacement), then a search runs in  *)
(* it (ExponentialSearch).  A search may also run in an array as updates   *)
(* have left it since it was laid out: in any sorted one.  Or the loops    *)
(* are those over the words of a bitmap: the queries of one leaf           *)
(* (BitmapScan) and the iterators over a chain of leaves (LeafIterators).  *)
(*                                                                         *)
(* One thread runs the loops.  The variables of a loop mean something      *)
(* during its stage only: those of the placement go out of scope when it   *)
(* returns, those of the search stand at an arbitrary start before it.     *)
(***************************************************************************)
EXTENDS ModelBasedPlacement, ExponentialSearch

CONSTANTS Shape, Iterated, Neighbours  \* as in LeafIterators

\* A type of keys has a value.
ASSUME KeysExist == Key # {}

VARIABLES
    stage,                      \* the loops that run
    word_bits, capacity, words, \* the leaf whose bitmap is scanned
    chain, asked, it            \* the leaves and the iterator over them

Scan == INSTANCE LeafIterators
            WITH W <- word_bits, data_capacity_ <- capacity, bitmap_ <- words

ASSUME ShapesAreArrays == Scan!ShapesAreSound
ASSUME NeighboursAreLeaves == Scan!NeighboursAreSound

scanVars == <<word_bits, capacity, words, chain, asked, it>>

allVars == <<stage, vars, placementVars, scanVars>>

OneSlot == [data_capacity_ |-> 1, key_slots_ |-> [j \in 0 .. 0 |-> kEndSentinel_]]

SearchAtRest ==
    /\ node = OneSlot /\ op = "lower_bound" /\ key = CHOOSE k \in Key : TRUE
    /\ m = 0 /\ bound = 1 /\ l = 0 /\ r = 0
    /\ phase = IF stage = "scan" THEN "done" ELSE "doubling"

\* A leaf of one slot, its bitmap a word of no bits that are one.
ScanAtRest ==
    /\ word_bits = 2 /\ capacity = 1 /\ words = [w \in {0} |-> {}]
    /\ chain = << >> /\ asked = << >> /\ it = Scan!NoIterator

NoKeys == [j \in {} |-> j]

PlacementIsOver ==
    /\ key_at = NoKeys /\ predict = NoKeys /\ data_capacity_ = 1
    /\ placed = 0 /\ last_position = -1 /\ bitmap_ = {}
    /\ key_slots_ = OneSlot.key_slots_ /\ finished = TRUE

EndPlacement ==
    /\ key_at' = NoKeys /\ predict' = NoKeys /\ data_capacity_' = 1
    /\ placed' = 0 /\ last_position' = -1 /\ bitmap_' = {}
    /\ key_slots_' = OneSlot.key_slots_ /\ finished' = TRUE

InitLoops ==
    \/ stage = "search" /\ Init /\ PlacementIsOver /\ ScanAtRest
    \/ stage = "placement" /\ InitPlacement /\ SearchAtRest /\ ScanAtRest
    \/ stage = "scan" /\ Scan!InitIterators /\ SearchAtRest /\ PlacementIsOver

PlacementStep ==
    /\ stage = "placement"
    /\ NextPlacement
    /\ UNCHANGED <<stage, vars, scanVars>>

\* A search in the array just laid out, from whatever slot is predicted.
StartSearch ==
    /\ stage = "placement" /\ finished
    /\ stage' = "search"
    /\ node' = [data_capacity_ |-> data_capacity_, key_slots_ |-> key_slots_]
    /\ op' \in {"upper_bound", "lower_bound"}
    /\ key' \in Key
    /\ m' \in 0 .. (data_capacity_ - 1)
    /\ phase' = "doubling" /\ bound' = 1 /\ l' = 0 /\ r' = 0
    /\ EndPlacement
    /\ UNCHANGED scanVars

SearchStep ==
    /\ stage = "search"
    /\ Next
    /\ UNCHANGED <<stage, placementVars, scanVars>>

ScanStep ==
    /\ stage = "scan"
    /\ Scan!NextIterators
    /\ UNCHANGED <<stage, vars, placementVars>>

NextLoop == PlacementStep \/ StartSearch \/ SearchStep \/ ScanStep

\* Nothing in the loops blocks.
SpecLoops == InitLoops /\ [][NextLoop]_allVars /\ WF_allVars(NextLoop)

-----------------------------------------------------------------------------
(* The properties of the scans, of the stage in which they run.            *)

\* The types of the bitmap's words: only bits of slots are ever one.
ScanTypeOK == stage = "scan" => Scan!TypeOK

\* get_next_filled_position: the first filled slot, over empty words, too.
NextFilledIsFirst == stage = "scan" => Scan!NextFilledIsFirst

\* closest_gap: a nearest gap, however the words hold the bits.
ClosestGapIsClosest == stage = "scan" => Scan!ClosestGapIsClosest

\* num_keys_in_range: the keys of exactly the slots asked for.
CountsRange == stage = "scan" => Scan!CountsRange

\* The iterators of either way pass over no key and stop at nothing else,
\* from leaf to leaf, and keep their place when turned round.
IteratesInOrder == Scan!IteratesInOrder
=============================================================================
